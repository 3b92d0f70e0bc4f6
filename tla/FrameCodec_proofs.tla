-------------------------- MODULE FrameCodec_proofs --------------------------
(***************************************************************************)
(* A frame through encoder and decoder, for every job, word size and       *)
(* number of channels, and however the calls cut it: the inductive         *)
(* invariant of CodecInv, the properties of FrameCodec it implies, and the *)
(* promise of LosslessPipe.                                                *)
(***************************************************************************)
EXTENDS Codec_proofs

-----------------------------------------------------------------------------
(* A job *)

\* The numbers of a job.
JobNumbers(j) ==
  /\ j.samplebytes \in 1..3 /\ j.nchan \in Nat \ {0} /\ j.caller \in {"cli", "api"}
  /\ SizeOf(j) \in Nat \ {0} /\ GroupsOf(j) \in Nat \ {0}
  /\ SizeOf(j) = GroupsOf(j) * j.nchan
  /\ Len(j.bytes) = SizeOf(j) * j.samplebytes /\ j.bytes \in Seq(PcmByte)

\* Exact division.
LEMMA Quotient ==
  ASSUME NEW a \in Nat \ {0}, NEW b \in Nat \ {0}, a % b = 0
  PROVE  a \div b \in Nat \ {0} /\ a = (a \div b) * b
<1> DEFINE q == a \div b
<1>1. q \in Int /\ a = b * q + (a % b)
  BY IntDivMod
<1>2. a = b * q
  BY <1>1
<1> HIDE DEF q
<1>5. q >= 0
  <2>1. SUFFICES ASSUME q <= -1 PROVE FALSE
    BY <1>1
  <2>2. b * q <= -b
    BY <1>1, <2>1
  <2> QED
    BY <1>2, <2>2
<1>3. q # 0
  <2>1. SUFFICES ASSUME q = 0 PROVE FALSE
    OBVIOUS
  <2>2. b * q = 0
    BY <2>1
  <2> QED
    BY <1>2, <2>2
<1>4. q * b = b * q
  BY <1>1
<1> QED
  BY <1>1, <1>2, <1>3, <1>4, <1>5 DEF q

\* A job has whole groups of whole samples.
LEMMA JobIs == ASSUME NEW j \in Jobs PROVE JobNumbers(j)
<1> DEFINE l == Len(j.bytes)
           sb == j.samplebytes
           n == j.nchan
           N == l \div sb
<1>1. /\ sb \in 1..3 /\ n \in Nat \ {0} /\ j.caller \in {"cli", "api"}
      /\ j.bytes \in Seq(PcmByte) /\ l > 0 /\ l % sb = 0 /\ N % n = 0
  BY JobsAssumption DEF PcmByte
<1>2. l \in Nat \ {0} /\ sb \in Nat \ {0}
  BY <1>1, LenProperties
<1>3. N \in Nat \ {0} /\ l = N * sb
  BY <1>1, <1>2, Quotient
<1>4. N \div n \in Nat \ {0} /\ N = (N \div n) * n
  BY <1>1, <1>3, Quotient
<1> QED
  BY <1>1, <1>3, <1>4 DEF JobNumbers, SizeOf, GroupsOf

\* The samples of a job, what they are coded to, and the frame.
JobSamples(j) ==
  /\ SamplesOf(j) \in Seq(Int32) /\ Len(SamplesOf(j)) = SizeOf(j)
  /\ libttaR_pcm_write(SamplesOf(j), SizeOf(j), j.samplebytes) = j.bytes
  /\ CodedWell(j.samplebytes, j.nchan, GroupsOf(j), SamplesOf(j), CodedOf(j))

\* They are int32_t, coded group after group.
LEMMA JobSamplesIs == ASSUME NEW j \in Jobs PROVE JobSamples(j)
<1>1. JobNumbers(j)
  BY JobIs
<1> DEFINE s == SamplesOf(j)
<1>2. /\ s \in Seq(Int32) /\ Len(s) = SizeOf(j)
      /\ libttaR_pcm_write(s, SizeOf(j), j.samplebytes) = j.bytes
  BY <1>1, PcmBack DEF JobNumbers, SamplesOf
<1> HIDE DEF s
<1>3. CodedWell(j.samplebytes, j.nchan, GroupsOf(j), s, FrameCoded(j.samplebytes, j.nchan, GroupsOf(j), s))
  BY <1>1, <1>2, FrameIs DEF JobNumbers
<1> QED
  BY <1>2, <1>3 DEF JobSamples, CodedOf, s

\* The codes of a job, and the bits they make.
JobBits(j) ==
  LET F == CodedOf(j)
      m == GroupsOf(j)
  IN  /\ AllCodes(F, 0) = <<>> /\ Bits(F, 0) = <<>>
      /\ \A g \in 0..m : SoFar(F, j.nchan, g)
      /\ \A g \in 1..m : GroupAdds(F, j.nchan, g)

\* They are all there.
LEMMA JobBitsIs == ASSUME NEW j \in Jobs PROVE JobBits(j)
<1> DEFINE F == CodedOf(j)
           m == GroupsOf(j)
           sb == j.samplebytes
           s == SamplesOf(j)
           n == j.nchan
<1>1. m \in Nat /\ n \in Nat \ {0} /\ CodedWell(sb, n, m, s, F)
  BY JobIs, JobSamplesIs DEF JobNumbers, JobSamples
<1> HIDE DEF F, m, sb, s, n
<1>2. AllCodes(F, 0) = <<>> /\ Bits(F, 0) = <<>> /\ \A g \in 0..m : SoFar(F, n, g)
  BY <1>1, AllIs
<1>3. \A g \in 1..m : GroupAdds(F, n, g)
  BY <1>1, FrameStep
<1> QED
  BY <1>2, <1>3 DEF JobBits, F, m, n

\* The frame of a job: its bytes are the bits of all codes and some more.
JobFrame(j) ==
  LET F == FrameOf(j)
      b == Bits(CodedOf(j), GroupsOf(j))
  IN  /\ F \in Seq(Byte) /\ Len(F) \in Nat \ {0}
      /\ b \in Seq(Bit)
      /\ 8 * Len(F) \in Len(b)..(Len(b) + 7)
      /\ \E z \in Seq(Bit) : FlattenSeq(F) = b \o z

\* And nothing else but less than a byte.
LEMMA JobFrameIs == ASSUME NEW j \in Jobs PROVE JobFrame(j)
<1> DEFINE F == CodedOf(j)
           m == GroupsOf(j)
           n == j.nchan
           b == Bits(F, m)
           c == AllCodes(F, m)
           fb == FrameBytes(b)
<1>1. m \in Nat \ {0} /\ n \in Nat \ {0} /\ m \in 0..m
  BY JobIs DEF JobNumbers
<1>2. SoFar(F, n, m)
  BY <1>1, JobBitsIs DEF JobBits
<1>3. c \in Seq(Code) /\ Len(c) = m * n /\ b \in Seq(Bit) /\ CodesBits(c) = b
  BY <1>2 DEF SoFar
<1> HIDE DEF b, c, m, n
<1>4. m * n > 0
  BY <1>1
<1>5. Len(b) > 0
  BY <1>3, <1>4, SomeBits
<1>6. /\ fb \in Seq(Byte) /\ Len(fb) \in Nat
      /\ 8 * Len(fb) \in Len(b)..(Len(b) + 7)
      /\ \E z \in Seq(Bit) : FlattenSeq(fb) = b \o z
  BY <1>3, FrameBytesIs
<1>7. FrameOf(j) = fb
  BY DEF FrameOf, fb, b, F, m
<1> HIDE DEF fb
<1>8. Len(fb) # 0
  BY <1>5, <1>6, <1>3, LenProperties
<1> QED
  BY <1>3, <1>6, <1>7, <1>8 DEF JobFrame, b, F, m

\* The safety margin is room for a group of legal codes.
LEMMA MarginIs ==
  ASSUME NEW j \in Jobs
  PROVE  /\ MarginOf(j) \in Nat /\ MarginOf(j) >= 16
         /\ MarginOf(j) = (UnaryMaxBytes[j.samplebytes] + 15) * j.nchan
         /\ MarginOf(j) >= j.nchan * ValueBytes(j.samplebytes)
         /\ j.nchan * ValueBytes(j.samplebytes) \in Nat
<1> DEFINE u == UnaryMaxBytes[j.samplebytes]
           n == j.nchan
<1>1. u \in Nat \ {0} /\ n \in Nat \ {0}
  BY JobIs, UnaryAssumption DEF JobNumbers
<1>2. MarginOf(j) = (u + 15) * n /\ ValueBytes(j.samplebytes) = u + 5
  BY DEF MarginOf, get_safety_margin, ValueBytes
<1> HIDE DEF u, n
<1>3. (u + 15) * n \in Nat /\ (u + 15) * n >= 16 /\ (u + 15) * n >= n * (u + 5) /\ n * (u + 5) \in Nat
  <2>1. (u + 15) * n = n * (u + 5) + 10 * n
    BY <1>1
  <2>2. n * (u + 5) = n * u + 5 * n /\ n * u \in Nat
    BY <1>1
  <2>3. n * u >= 1
    BY <1>1
  <2> QED
    BY <1>1, <2>1, <2>2, <2>3
<1> QED
  BY <1>2, <1>3 DEF u, n

-----------------------------------------------------------------------------
(* A group of a job encoded *)

\* Where the samples of the group behind the g-th are.
LEMMA NextGroup ==
  ASSUME NEW j \in Jobs, NEW g \in 0..GroupsOf(j), g < GroupsOf(j), NEW at, at = g * j.nchan
  PROVE  LET s == SubSeq(SamplesOf(j), at + 1, at + j.nchan)
         IN  /\ s = Group(SamplesOf(j), j.nchan, g + 1)
             /\ s \in Seq(Int32) /\ Len(s) = j.nchan
             /\ Decorrelated(s) \in Seq(Int32) /\ Len(Decorrelated(s)) = j.nchan
             /\ at \in Nat /\ at + j.nchan = (g + 1) * j.nchan /\ at + j.nchan <= SizeOf(j)
             /\ g + 1 \in 1..GroupsOf(j)
<1> DEFINE n == j.nchan
           m == GroupsOf(j)
           x == SamplesOf(j)
           h == g + 1
<1>1. n \in Nat \ {0} /\ m \in Nat /\ SizeOf(j) = m * n
  BY JobIs DEF JobNumbers
<1>2. x \in Seq(Int32) /\ Len(x) = SizeOf(j)
  BY JobSamplesIs DEF JobSamples
<1>3. h \in 1..m /\ h - 1 = g
  BY <1>1
<1> HIDE DEF n, m, x, h
<1>4. /\ Group(x, n, h) \in Seq(Int32) /\ Len(Group(x, n, h)) = n
      /\ Decorrelated(Group(x, n, h)) \in Seq(Int32)
      /\ Len(Decorrelated(Group(x, n, h))) = n
      /\ (h - 1) * n \in Nat /\ (h - 1) * n + n = h * n /\ h * n <= Len(x)
  BY <1>1, <1>2, <1>3, GroupIs
<1>5. at = g * n /\ g * n \in Nat /\ g * n + n = h * n /\ h * n <= SizeOf(j)
  <2>1. at = g * n
    BY DEF n
  <2> QED
    BY <1>2, <1>3, <1>4, <2>1
<1>6. SubSeq(x, at + 1, at + n) = Group(x, n, h)
  BY <1>3, <1>5 DEF Group
<1> QED
  BY <1>3, <1>4, <1>5, <1>6 DEF n, m, x, h

\* The group h that EncodeGroup returns behind the g-th adds what it adds to
\* the frame of the job.
EncodeAdds(j, g, p, bs, cs, h) ==
  LET q == [cache |-> h.w.cache, codec |-> h.codec]
  IN  /\ q \in Privs(j, 39 + KMax)
      /\ EncodedTo(j, g + 1, q, bs \o h.w.dest, cs \o h.codes)
      /\ h.w.dest \in Seq(Byte) /\ h.w.crc = bs \o h.w.dest
      /\ h.codes = CodedOf(j)[g + 1].codes
      /\ h.codes \in Seq(Code) /\ Len(h.codes) = j.nchan
      /\ 8 * Len(h.w.dest) + Len(h.w.cache) = Len(p.cache) + Len(CodesBits(h.codes))

\* Wherever the calls were cut.
LEMMA EncodeStepAdds ==
  ASSUME NEW j \in Jobs, NEW g \in 0..GroupsOf(j), g < GroupsOf(j),
         NEW p \in Privs(j, 39 + KMax), NEW bs \in Seq(Byte), NEW cs, EncodedTo(j, g, p, bs, cs),
         NEW at, at = g * j.nchan,
         NEW w, w = [cache |-> p.cache, dest |-> <<>>, crc |-> bs]
  PROVE  EncodeAdds(j, g, p, bs, cs,
           EncodeGroup(p.codec, w, SubSeq(SamplesOf(j), at + 1, at + j.nchan), j.samplebytes))
<1> DEFINE n == j.nchan
           sb == j.samplebytes
           m == GroupsOf(j)
           x == SamplesOf(j)
           F == CodedOf(j)
           k == g + 1
           s == SubSeq(x, at + 1, at + n)
           d == Decorrelated(s)
           c == F[g].codec
           h == EncodeGroup(p.codec, w, s, sb)
           e == F[k]
<1>1. n \in Nat \ {0} /\ sb \in 1..3
  BY JobIs DEF JobNumbers
<1>2. /\ s = Group(x, n, k) /\ s \in Seq(Int32) /\ Len(s) = n /\ k \in 1..m
      /\ d \in Seq(Int32) /\ Len(d) = n
  BY NextGroup
<1>3. p.codec = c /\ cs = AllCodes(F, g) /\ FlattenSeq(bs) \o p.cache = Bits(F, g)
  BY DEF EncodedTo
<1>4. p.cache \in Seq(Bit) /\ p.codec \in Seq(Channel) /\ Len(p.codec) = n
  BY DEF Privs
<1>5. w \in Fed(bs) /\ Written(w) = p.cache
  <2>1. <<>> \in Seq(Byte) /\ bs \o <<>> = bs
    BY EmptySeq, ConcatEmptySeq
  <2>2. <<>> \o p.cache = p.cache
    BY <1>4, ConcatEmptySeq
  <2> QED
    BY <1>4, <2>1, <2>2, FlattenEmpty DEF Fed, Writers, Written
<1>6. GroupEncoded(p.codec, d, sb, bs, w, h)
  <2> HIDE DEF n, sb, s, d, h
  <2>1. Len(s) = Len(p.codec) /\ Len(s) > 0
    BY <1>1, <1>2, <1>4
  <2>2. GroupEncoded(p.codec, Decorrelated(s), sb, bs, w, EncodeGroup(p.codec, w, s, sb))
    BY ONLY <1>1, <1>2, <1>4, <1>5, <2>1, EncodeGroupIs
  <2> QED
    BY <2>2 DEF d, h
<1>7. GroupEncoded(c, d, sb, <<>>, F[g].w, e) /\ Len(e.codes) = n
  <2>1. CodedWell(sb, n, m, x, F)
    BY JobSamplesIs DEF JobSamples
  <2>2. /\ GroupEncoded(F[k - 1].codec, Decorrelated(Group(x, n, k)), sb, <<>>, F[k - 1].w, F[k])
        /\ Len(F[k].codes) = n
    <3> HIDE DEF n, sb, m, x, F, k
    <3> QED
      BY <1>2, <2>1 DEF CodedWell
  <2>3. k - 1 = g
    OBVIOUS
  <2> QED
    BY <1>2, <2>2, <2>3
<1>8. GroupAdds(F, n, k)
  BY <1>2, JobBitsIs DEF JobBits
<1> HIDE DEF n, sb, m, x, F, k, s, d, c, h, e
<1>9. h.codec = e.codec /\ h.codes = e.codes
  BY <1>3, <1>6, <1>7 DEF GroupEncoded
<1>10. /\ e.codes \in Seq(Code) /\ Len(e.codes) = n
       /\ Bits(F, g) \in Seq(Bit) /\ CodesBits(e.codes) \in Seq(Bit)
       /\ Bits(F, k) = Bits(F, g) \o CodesBits(e.codes)
       /\ AllCodes(F, k) = AllCodes(F, g) \o e.codes
  <2>1. k - 1 = g
    BY DEF k
  <2> QED
    BY <1>8, <2>1 DEF GroupAdds, e
<1>11. h.codec \in Seq(Channel) /\ Len(h.codec) = n
  <2>1. Len(d) = Len(p.codec)
    BY <1>2, <1>4
  <2>2. GroupNext(p.codec, d, sb) \in Seq(Channel) /\ Len(GroupNext(p.codec, d, sb)) = Len(d)
    BY <1>1, <1>2, <1>4, <2>1, GroupTypes
  <2> QED
    BY <1>2, <1>6, <2>2 DEF GroupEncoded
<1>12. /\ h.w \in Fed(bs) /\ Written(h.w) = p.cache \o CodesBits(e.codes)
       /\ Len(h.w.cache) <= 39 + KMax
  BY <1>5, <1>6, <1>9 DEF GroupEncoded
<1>13. /\ h.w.cache \in Seq(Bit) /\ h.w.dest \in Seq(Byte) /\ h.w.crc = bs \o h.w.dest
       /\ FlattenSeq(h.w.dest) \o h.w.cache = p.cache \o CodesBits(e.codes)
  BY <1>12, FedIs DEF Written
<1> DEFINE fb == FlattenSeq(bs)
           fd == FlattenSeq(h.w.dest)
           hc == h.w.cache
           pc == p.cache
           cb == CodesBits(e.codes)
           dest == h.w.dest
<1>14. /\ fb \in Seq(Bit) /\ fd \in Seq(Bit) /\ Len(fd) = 8 * Len(dest)
       /\ FlattenSeq(bs \o dest) = fb \o fd
  <2>1. bs \in Seq(Seq(Bit)) /\ dest \in Seq(Seq(Bit))
    <3>1. Byte \subseteq Seq(Bit)
      BY DEF Byte
    <3>2. bs \in [1..Len(bs) -> Byte] /\ dest \in [1..Len(dest) -> Byte]
      BY <1>13, LenProperties, ElementOfSeq
    <3>3. bs \in [1..Len(bs) -> Seq(Bit)] /\ dest \in [1..Len(dest) -> Seq(Bit)]
      BY <3>1, <3>2
    <3>4. Len(bs) \in Nat /\ Len(dest) \in Nat
      BY <1>13, LenProperties
    <3> QED
      BY <3>3, <3>4, UpToAll
  <2> QED
    BY <1>13, <2>1, BytesFlat, FlattenConcat
<1>15. hc \in Seq(Bit) /\ pc \in Seq(Bit) /\ cb \in Seq(Bit) /\ dest \in Seq(Byte)
       /\ fd \o hc = pc \o cb /\ fb \o pc = Bits(F, g) /\ Bits(F, k) = Bits(F, g) \o cb
  BY <1>3, <1>4, <1>10, <1>13
<1> HIDE DEF fb, fd, hc, pc, cb, dest
<1>16. (fb \o fd) \o hc = Bits(F, k)
  <2>1. (fb \o fd) \o hc = fb \o (fd \o hc)
    BY <1>14, <1>15, BitsConcat
  <2>2. fb \o (pc \o cb) = (fb \o pc) \o cb
    BY <1>14, <1>15, BitsConcat
  <2> QED
    BY <1>15, <2>1, <2>2
<1>17. 8 * Len(dest) + Len(hc) = Len(pc) + Len(cb)
  <2>1. Len(fd \o hc) = Len(fd) + Len(hc) /\ Len(pc \o cb) = Len(pc) + Len(cb)
    BY <1>14, <1>15, ConcatProperties
  <2> QED
    BY <1>14, <1>15, <2>1
<1> DEFINE q == [cache |-> h.w.cache, codec |-> h.codec]
<1>18. q \in Privs(j, 39 + KMax)
  BY <1>11, <1>12, <1>13 DEF Privs, n
<1>19. q.codec = e.codec /\ cs \o h.codes = AllCodes(F, k)
       /\ FlattenSeq(bs \o dest) \o q.cache = Bits(F, k)
  BY <1>3, <1>9, <1>10, <1>14, <1>16 DEF hc
<1>20. EncodedTo(j, k, q, bs \o h.w.dest, cs \o h.codes)
  BY <1>19 DEF EncodedTo, dest, F, e
<1>21. /\ h.w.dest \in Seq(Byte) /\ h.w.crc = bs \o h.w.dest /\ h.codes = e.codes
       /\ h.codes \in Seq(Code) /\ Len(h.codes) = n
       /\ 8 * Len(h.w.dest) + Len(h.w.cache) = Len(p.cache) + Len(CodesBits(h.codes))
  BY <1>9, <1>10, <1>13, <1>17 DEF hc, pc, cb, dest
<1>22. EncodeAdds(j, g, p, bs, cs, h)
  BY <1>18, <1>20, <1>21 DEF EncodeAdds, k, e, F, n
<1> QED
  BY <1>22 DEF h, s, n, sb, x

-----------------------------------------------------------------------------
(* A group of a job decoded *)

\* A prefix made longer.
LEMMA PrefixJoined ==
  ASSUME NEW S, NEW s \in Seq(S), NEW a \in Nat, NEW b \in Nat, a <= b, b <= Len(s)
  PROVE  /\ SubSeq(s, 1, a) \o SubSeq(s, a + 1, b) = SubSeq(s, 1, b)
         /\ SubSeq(s, 1, a) \in Seq(S) /\ Len(SubSeq(s, 1, a)) = a
         /\ SubSeq(s, 1, b) \in Seq(S) /\ Len(SubSeq(s, 1, b)) = b
<1> DEFINE x == SubSeq(s, 1, a)
           y == SubSeq(s, a + 1, b)
           z == SubSeq(s, 1, b)
           n == b - a
<1>1. Len(s) \in Nat /\ n \in Nat /\ a \in Int /\ b \in Int /\ a + 1 \in Nat \ {0} /\ a <= Len(s)
  BY LenProperties
<1>2. x \in Seq(S) /\ Len(x) = a /\ \A i \in 1..a : x[i] = s[i]
  <2>1. /\ x \in Seq(S) /\ Len(x) = (IF 1 <= a THEN a - 1 + 1 ELSE 0)
        /\ \A i \in 1..(a - 1 + 1) : x[i] = s[1 + i - 1]
    BY <1>1, SubSeqIs
  <2> QED
    BY <1>1, <2>1
<1>3. z \in Seq(S) /\ Len(z) = b /\ \A i \in 1..b : z[i] = s[i]
  <2>1. /\ z \in Seq(S) /\ Len(z) = (IF 1 <= b THEN b - 1 + 1 ELSE 0)
        /\ \A i \in 1..(b - 1 + 1) : z[i] = s[1 + i - 1]
    BY <1>1, SubSeqIs
  <2> QED
    BY <1>1, <2>1
<1>4. y \in Seq(S) /\ Len(y) = n /\ \A i \in 1..n : y[i] = s[a + i]
  <2>1. /\ y \in Seq(S) /\ Len(y) = (IF a + 1 <= b THEN b - (a + 1) + 1 ELSE 0)
        /\ \A i \in 1..(b - (a + 1) + 1) : y[i] = s[(a + 1) + i - 1]
    BY <1>1, SubSeqIs
  <2> QED
    BY <1>1, <2>1
<1> HIDE DEF x, y, z
<1>5. /\ x \o y \in Seq(S) /\ Len(x \o y) = a + n
      /\ \A i \in 1..(a + n) : (x \o y)[i] = IF i <= a THEN x[i] ELSE y[i - a]
  BY <1>1, <1>2, <1>4, ConcatIs
<1>6. a + n = b
  BY <1>1
<1> HIDE DEF n
<1>7. ASSUME NEW i \in 1..b PROVE (x \o y)[i] = z[i]
  <2>1. CASE i <= a
    BY <1>2, <1>3, <1>5, <1>6, <2>1
  <2>2. CASE ~(i <= a)
    <3>1. i - a \in 1..n /\ a + (i - a) = i
      BY <1>1, <1>6, <2>2
    <3>2. y[i - a] = s[i]
      BY <1>4, <3>1
    <3> QED
      BY <1>3, <1>5, <1>6, <2>2, <3>2
  <2> QED
    BY <2>1, <2>2
<1>8. x \o y = z
  BY <1>3, <1>5, <1>6, <1>7, SeqEqual
<1> QED
  BY <1>2, <1>3, <1>8 DEF x, y, z

\* What is known of a group h that was decoded, whatever the bytes are.
DecodeReads(j, src, k, h) ==
  LET q == [cache |-> h.r.cache, codec |-> h.codec]
  IN  /\ q \in Privs(j, 7)
      /\ h.r.crc = BytesUpTo(src, h.r.nbytes) /\ h.r.src = src
      /\ h.r.nbytes \in k..(k + j.nchan * ValueBytes(j.samplebytes))
      /\ Correlated(h.x) \in Seq(Int32) /\ Len(Correlated(h.x)) = j.nchan

\* It reads no more than the margin.
LEMMA DecodeStepReads ==
  ASSUME NEW j \in Jobs, NEW p \in Privs(j, 7), NEW src \in Seq(Byte), NEW k \in Nat,
         NEW r, r = [cache |-> p.cache, src |-> src, crc |-> BytesUpTo(src, k), nbytes |-> k]
  PROVE  /\ DecodeReads(j, src, k, DecodeGroup(p.codec, r, j.samplebytes))
         /\ r \in Readers /\ Len(r.cache) <= 7 /\ r.nbytes = k /\ r.src = src
<1> DEFINE n == j.nchan
           sb == j.samplebytes
           h == DecodeGroup(p.codec, r, sb)
<1>1. n \in Nat \ {0} /\ sb \in 1..3
  BY JobIs DEF JobNumbers
<1>2. p.cache \in Seq(Bit) /\ p.codec \in Seq(Channel) /\ Len(p.codec) = n /\ Len(p.cache) <= 7
  BY DEF Privs
<1>3. r \in Readers /\ Len(r.cache) <= 7 /\ r.nbytes = k /\ r.src = src
  BY <1>2, WriteAll DEF Readers
<1> HIDE DEF n, sb
<1>4. h \in DecodedUpTo(r, sb, n)
  BY <1>1, <1>2, <1>3, GroupRead
<1> HIDE DEF h
<1>5. /\ h.codec \in Seq(Channel) /\ h.r \in Readers /\ h.x \in Seq(Int32)
      /\ Len(h.codec) = n /\ Len(h.x) = n /\ ReadOn(r, h.r, n * ValueBytes(sb))
  BY <1>4 DEF DecodedUpTo, DecGroups
<1>6. /\ h.r.src = src /\ Len(h.r.cache) <= 7
      /\ h.r.nbytes \in k..(k + n * ValueBytes(sb))
  BY <1>3, <1>5 DEF ReadOn
<1>7. h.r.crc = BytesUpTo(src, h.r.nbytes) /\ h.r.cache \in Seq(Bit)
  BY <1>5, <1>6, ReaderIs
<1>8. Correlated(h.x) \in Seq(Int32) /\ Len(Correlated(h.x)) = n
  BY <1>1, <1>5, CorrelatedType
<1>9. [cache |-> h.r.cache, codec |-> h.codec] \in Privs(j, 7)
  BY <1>5, <1>6, <1>7 DEF Privs, n
<1>10. DecodeReads(j, src, k, h)
  BY <1>6, <1>7, <1>8, <1>9 DEF DecodeReads, n, sb
<1> QED
  BY <1>3, <1>10 DEF h, sb

\* The samples of a frame that was not spoiled come back, and the decoder has
\* the channels the encoder had.
LEMMA DecodeStepBack ==
  ASSUME NEW j \in Jobs, NEW g \in 0..GroupsOf(j), g < GroupsOf(j),
         NEW p \in Privs(j, 7), NEW src \in Seq(Byte), NEW k \in Nat, NEW s,
         DecodedTo(j, g, p, src, k, s),
         AcceptableIn(j, AllCodes(CodedOf(j), GroupsOf(j))),
         NEW y \in Seq(Bit), FlattenSeq(src) = Bits(CodedOf(j), GroupsOf(j)) \o y,
         NEW r, r = [cache |-> p.cache, src |-> src, crc |-> BytesUpTo(src, k), nbytes |-> k],
         NEW h, h = DecodeGroup(p.codec, r, j.samplebytes)
  PROVE  DecodedTo(j, g + 1, [cache |-> h.r.cache, codec |-> h.codec], src, h.r.nbytes,
                   s \o Correlated(h.x))
<1> DEFINE n == j.nchan
           sb == j.samplebytes
           m == GroupsOf(j)
           x == SamplesOf(j)
           F == CodedOf(j)
           l == g + 1
           at == g * n
           smp == SubSeq(x, at + 1, at + n)
           d == Decorrelated(smp)
           c == F[g].codec
           e == F[l]
           cb == CodesBits(e.codes)
           bg == Bits(F, g)
           bl == Bits(F, l)
           bm == Bits(F, m)
           am == AllCodes(F, m)
<1>1. n \in Nat \ {0} /\ sb \in 1..3 /\ m \in Nat /\ SizeOf(j) = m * n
  BY JobIs DEF JobNumbers
<1>2. /\ smp = Group(x, n, l) /\ smp \in Seq(Int32) /\ Len(smp) = n /\ l \in 1..m
      /\ d \in Seq(Int32) /\ Len(d) = n /\ at \in Nat /\ at + n = l * n /\ at + n <= SizeOf(j)
  BY NextGroup
<1>3. /\ p.codec = c /\ s = SubSeq(x, 1, at) /\ k <= Len(src)
      /\ bg \o (p.cache \o FlattenSeq(SubSeq(src, k + 1, Len(src)))) = FlattenSeq(src)
  BY DEF DecodedTo
<1>4. p.cache \in Seq(Bit) /\ p.codec \in Seq(Channel) /\ Len(p.codec) = n /\ Len(p.cache) <= 7
  BY DEF Privs
<1>5. /\ DecodeReads(j, src, k, h) /\ r \in Readers /\ Len(r.cache) <= 7 /\ r.nbytes = k
      /\ r.src = src /\ r.cache = p.cache
  BY DecodeStepReads
<1>6. CodedWell(sb, n, m, x, F)
  BY JobSamplesIs DEF JobSamples
<1>7. GroupAdds(F, n, l)
  BY <1>2, JobBitsIs DEF JobBits
<1>8. SoFar(F, n, l) /\ SoFar(F, n, m) /\ SoFar(F, n, g)
  <2>1. l \in 0..m /\ m \in 0..m /\ g \in 0..m
    BY <1>1, <1>2
  <2> QED
    BY <2>1, JobBitsIs DEF JobBits
<1>9. x \in Seq(Int32) /\ Len(x) = SizeOf(j)
  BY JobSamplesIs DEF JobSamples
<1>10. g = l - 1
  OBVIOUS
<1>11. FlattenSeq(src) = bm \o y /\ \A i \in DOMAIN am : am[i].unary <= get_unary_lax_limit(sb)
  BY DEF AcceptableIn
<1>12. h = DecodeGroup(p.codec, r, sb)
  OBVIOUS
<1>13. SubSeq(x, at + 1, at + n) = smp /\ (Decorrelated(smp)) = d /\ F[l] = e /\ CodesBits(e.codes) = cb
  OBVIOUS
<1>14. F[g].codec = c /\ Bits(F, g) = bg /\ Bits(F, l) = bl /\ Bits(F, m) = bm /\ AllCodes(F, m) = am
  OBVIOUS
<1> HIDE DEF n, sb, m, x, F, l, smp, d, c, e, at, cb, bg, bl, bm, am
<1>15. GroupEncoded(c, d, sb, <<>>, F[g].w, e) /\ Len(e.codes) = n
  <2>1. /\ GroupEncoded(F[l - 1].codec, Decorrelated(Group(x, n, l)), sb, <<>>, F[l - 1].w, F[l])
        /\ Len(F[l].codes) = n
    BY <1>2, <1>6 DEF CodedWell
  <2> QED
    BY <2>1, <1>2, <1>10, <1>13, <1>14
<1>16. e.codec = GroupNext(c, d, sb) /\ e.codes = GroupCodes(c, d, sb)
  BY <1>15 DEF GroupEncoded
<1>17. /\ bg \in Seq(Bit) /\ cb \in Seq(Bit) /\ bl = bg \o cb /\ bm \in Seq(Bit)
       /\ am \in Seq(Code) /\ CodesBits(am) = bm
       /\ AllCodes(F, l) \in Seq(Code) /\ CodesBits(AllCodes(F, l)) = bl /\ bl \in Seq(Bit)
  BY <1>7, <1>8, <1>10, <1>13, <1>14 DEF GroupAdds, SoFar
<1>18. PICK rest \in Seq(Code) : am = AllCodes(F, l) \o rest
  <2>1. l \in 0..m /\ m \in l..m
    BY <1>1, <1>2
  <2>2. Extended(F, l, m)
    BY <1>1, <1>6, <2>1, AllExtended
  <2> QED
    BY <2>2, <1>14 DEF Extended
<1> DEFINE cr == CodesBits(rest)
           t == cr \o y
           pend == Pending(r)
<1>19. cr \in Seq(Bit) /\ bm = bl \o cr
  BY <1>17, <1>18, CodesBitsConcat, CodesBitsType
<1>20. pend \in Seq(Bit) /\ bg \o pend = FlattenSeq(src)
  <2>1. pend = p.cache \o FlattenSeq(SubSeq(src, k + 1, Len(src)))
    BY <1>5 DEF Pending
  <2>2. pend \in Seq(Bit)
    BY <1>3, <1>5, PendingType
  <2> QED
    BY <1>3, <2>1, <2>2
<1> HIDE DEF cr, pend
<1>21. t \in Seq(Bit) /\ pend = cb \o t
  <2>1. t \in Seq(Bit)
    BY <1>19, ConcatProperties
  <2>2. (bg \o cb) \o cr = bg \o (cb \o cr) /\ cb \o cr \in Seq(Bit)
    BY <1>17, <1>19, BitsConcat, ConcatProperties
  <2>3. (bg \o (cb \o cr)) \o y = bg \o ((cb \o cr) \o y)
    BY <1>17, <2>2, BitsConcat
  <2>4. (cb \o cr) \o y = cb \o t
    BY <1>17, <1>19, BitsConcat
  <2>5. cb \o t \in Seq(Bit)
    BY <1>17, <2>1, ConcatProperties
  <2>6. bg \o pend = bg \o (cb \o t)
    BY <1>11, <1>17, <1>19, <1>20, <2>2, <2>3, <2>4
  <2> DEFINE u == cb \o t
  <2>7. bg \in Seq(Bit) /\ pend \in Seq(Bit) /\ u \in Seq(Bit) /\ bg \o pend = bg \o u
    BY <1>17, <1>20, <2>5, <2>6
  <2> HIDE DEF u
  <2>8. pend = u
    BY ONLY <2>7, LeftCancel
  <2> QED
    BY <2>1, <2>8 DEF u
<1>22. \A i \in 1..Len(d) : CodeOf(c[i], d[i], sb).unary <= get_unary_lax_limit(sb)
  <2>1. SUFFICES ASSUME NEW i \in 1..n PROVE CodeOf(c[i], d[i], sb).unary <= get_unary_lax_limit(sb)
    BY <1>2
  <2>2. CodeOf(c[i], d[i], sb) = e.codes[i]
    BY <1>2, <1>16 DEF GroupCodes
  <2>3. am[(l - 1) * n + i] = e.codes[i]
    <3>1. m \in 0..m /\ l \in 1..m
      BY <1>1, <1>2
    <3>2. CodeInPlace(F, n, m, l, i)
      BY <1>1, <1>6, <2>1, <3>1, CodesInPlace
    <3> QED
      BY <3>2, <1>13, <1>14 DEF CodeInPlace
  <2>4. (l - 1) * n + i \in DOMAIN am
    <3>1. Len(am) = m * n
      BY <1>8, <1>14 DEF SoFar
    <3>2. (l - 1) * n = at
      BY <1>10 DEF at
    <3>3. at + i \in 1..(m * n)
      BY <1>1, <1>2
    <3>4. am \in Seq(Code)
      BY <1>17
    <3>5. DOMAIN am = 1..(m * n)
      BY <3>1, <3>4
    <3> QED
      BY <3>2, <3>3, <3>5
  <2> QED
    BY <1>11, <2>2, <2>3, <2>4
<1>23. GroupBack(c, d, sb, t, h)
  <2>1. c \in Seq(Channel) /\ Len(d) = Len(c) /\ r.nbytes <= Len(r.src)
    BY <1>2, <1>3, <1>4, <1>5
  <2>2. Pending(r) = CodesBits(GroupCodes(c, d, sb)) \o t
    BY <1>13, <1>16, <1>21 DEF pend
  <2> HIDE DEF t
  <2>3. GroupBack(c, d, sb, t, DecodeGroup(c, r, sb))
    BY ONLY <1>1, <1>2, <1>5, <1>21, <1>22, <2>1, <2>2, GroupComesBack
  <2> QED
    BY <1>3, <1>12, <2>3
<1>24. h.codec = e.codec /\ h.x = d /\ Pending(h.r) = t /\ h.r.nbytes <= Len(src) /\ h.r.src = src
  <2>1. h.r.src = src
    BY <1>5 DEF DecodeReads
  <2> QED
    BY <1>16, <1>23, <2>1 DEF GroupBack
<1>25. s \o Correlated(h.x) = SubSeq(x, 1, l * n)
  <2>1. Correlated(d) = smp
    BY <1>1, <1>2, <1>13, CorrelatedBack
  <2>2. SubSeq(x, 1, at) \o SubSeq(x, at + 1, at + n) = SubSeq(x, 1, at + n)
    <3> DEFINE b == at + n
    <3>1. at \in Nat /\ b \in Nat /\ at <= b /\ b <= Len(x)
      BY <1>1, <1>2, <1>9
    <3> HIDE DEF b
    <3>2. x \in Seq(Int32)
      BY <1>9
    <3> HIDE DEF x, at
    <3>3. SubSeq(x, 1, at) \o SubSeq(x, at + 1, b) = SubSeq(x, 1, b)
      BY <3>1, <3>2, PrefixJoined, Zenon
    <3> QED
      BY <3>3 DEF b
  <2> QED
    BY <1>2, <1>3, <1>13, <1>24, <2>1, <2>2
<1>26. bl \o (h.r.cache \o FlattenSeq(SubSeq(src, h.r.nbytes + 1, Len(src)))) = FlattenSeq(src)
  <2>1. h.r.cache \o FlattenSeq(SubSeq(src, h.r.nbytes + 1, Len(src))) = t
    BY <1>24 DEF Pending
  <2>2. (bg \o cb) \o t = bg \o (cb \o t)
    BY <1>17, <1>21, BitsConcat
  <2> QED
    BY <1>17, <1>20, <1>21, <2>1, <2>2
<1> QED
  BY <1>13, <1>14, <1>24, <1>25, <1>26 DEF DecodedTo, F, x, n, l

-----------------------------------------------------------------------------
(* Where a frame starts and ends *)

\* Before the first group.
LEMMA FirstBits ==
  ASSUME NEW j \in Jobs
  PROVE  /\ CodedOf(j)[0].codec = codec_init(j.nchan)
         /\ AllCodes(CodedOf(j), 0) = <<>> /\ Bits(CodedOf(j), 0) = <<>>
         /\ codec_init(j.nchan) \in Seq(Channel) /\ Len(codec_init(j.nchan)) = j.nchan
<1>1. JobNumbers(j) /\ JobSamples(j) /\ JobBits(j)
  BY JobIs, JobSamplesIs, JobBitsIs
<1>2. CodedOf(j)[0] = FirstGroup(j.nchan)
  BY <1>1 DEF JobSamples, CodedWell
<1>3. /\ FirstGroup(j.nchan).codec = codec_init(j.nchan)
      /\ codec_init(j.nchan) \in Seq(Channel) /\ Len(codec_init(j.nchan)) = j.nchan
  BY <1>1, FirstIs DEF JobNumbers
<1> QED
  BY <1>1, <1>2, <1>3 DEF JobBits

\* An encoder that was initialised has coded nothing yet.
LEMMA EncodeStarts ==
  ASSUME NEW j \in Jobs, NEW l \in Nat
  PROVE  /\ state_priv_init(j.nchan) \in Privs(j, l)
         /\ EncodedTo(j, 0, state_priv_init(j.nchan), <<>>, <<>>)
<1>1. <<>> \in Seq(Bit) /\ Len(<<>>) = 0 /\ <<>> \o <<>> = <<>>
  OBVIOUS
<1> QED
  BY <1>1, FirstBits, FlattenEmpty DEF EncodedTo, Privs, state_priv_init

\* Nor has a decoder.
LEMMA DecodeStarts ==
  ASSUME NEW j \in Jobs, NEW src \in Seq(Byte)
  PROVE  DecodedTo(j, 0, state_priv_init(j.nchan), src, 0, <<>>)
<1>1. SubSeq(src, 1, Len(src)) = src /\ Len(src) \in Nat
  BY LenProperties
<1>2. FlattenSeq(src) \in Seq(Bit)
  BY BytesFlat
<1>3. <<>> \o (<<>> \o FlattenSeq(src)) = FlattenSeq(src)
  BY <1>2, ConcatEmptySeq
<1>4. SubSeq(SamplesOf(j), 1, 0 * j.nchan) = <<>>
  <2>1. 0 * j.nchan = 0 /\ SamplesOf(j) \in Seq(Int32)
    BY JobIs, JobSamplesIs DEF JobNumbers, JobSamples
  <2>2. SubSeq(SamplesOf(j), 1, 0) \in Seq(Int32) /\ Len(SubSeq(SamplesOf(j), 1, 0)) = 0
    BY <2>1, PrefixJoined, LenProperties
  <2> QED
    BY <2>1, <2>2, EmptySeq
<1> DEFINE p == state_priv_init(j.nchan)
           F == CodedOf(j)
           k == 0
<1>5. p.cache = <<>> /\ p.codec = F[0].codec /\ Bits(F, 0) = <<>>
  BY FirstBits DEF state_priv_init
<1>6. SubSeq(src, k + 1, Len(src)) = src /\ k <= Len(src)
  BY <1>1
<1> HIDE DEF p, F, k
<1>7. Bits(F, 0) \o (p.cache \o FlattenSeq(SubSeq(src, k + 1, Len(src)))) = FlattenSeq(src)
  BY <1>3, <1>5, <1>6
<1>8. DecodedTo(j, 0, p, src, k, <<>>)
  BY <1>4, <1>5, <1>6, <1>7 DEF DecodedTo, F
<1> QED
  BY <1>8 DEF p, k

\* The flush completes the frame.
EndedWith(j, p, bs, cs, v) ==
  /\ v.cache = <<>> /\ v.dest \in Seq(Byte) /\ Len(v.dest) \in Nat
  /\ v.crc = bs \o v.dest
  /\ 8 * Len(v.dest) <= Len(p.cache) + 7
  /\ EncodedTo(j, GroupsOf(j), p, bs, cs) => bs \o v.dest = FrameOf(j)

\* Flushed behind the last group, the bytes are the frame.
LEMMA EncodeEnds ==
  ASSUME NEW j \in Jobs, NEW p \in Privs(j, 39 + KMax), NEW bs \in Seq(Byte), NEW cs
  PROVE  EndedWith(j, p, bs, cs,
           rice24_encode_cacheflush([cache |-> p.cache, dest |-> <<>>, crc |-> bs]))
<1> DEFINE w == [cache |-> p.cache, dest |-> <<>>, crc |-> bs]
           v == rice24_encode_cacheflush(w)
<1> DEFINE fb == FrameBytes(p.cache)
<1>1. p.cache \in Seq(Bit)
  BY DEF Privs
<1>2. fb \in Seq(Byte) /\ Len(fb) \in Nat /\ 8 * Len(fb) \in Len(p.cache)..(Len(p.cache) + 7)
  BY <1>1, FrameBytesIs
<1> HIDE DEF fb
<1>3. w \in Fed(bs)
  <2>1. <<>> \in Seq(Byte) /\ bs \o <<>> = bs
    BY EmptySeq, ConcatEmptySeq
  <2> QED
    BY <1>1, <2>1 DEF Fed, Writers
<1>4. Flushes(w, v)
  <2> HIDE DEF w
  <2> QED
    BY <1>3, FlushIs
<1>12. w.dest = <<>> /\ w.crc = bs /\ w.cache = p.cache
  OBVIOUS
<1> HIDE DEF v, w
<1>5. v.cache = <<>> /\ v.dest = <<>> \o fb /\ v.crc = bs \o fb
  BY <1>4, <1>12 DEF Flushes, fb
<1>6. <<>> \o fb = fb
  BY <1>2, ConcatEmptySeq
<1>7. ASSUME EncodedTo(j, GroupsOf(j), p, bs, cs) PROVE bs \o v.dest = FrameOf(j)
  <2> DEFINE b == Bits(CodedOf(j), GroupsOf(j))
  <2>1. b = FlattenSeq(bs) \o p.cache
    BY <1>7 DEF EncodedTo
  <2> HIDE DEF b
  <2>2. FrameBytes(b) = bs \o fb
    BY <1>1, <2>1, FlushedBytes DEF fb
  <2> QED
    BY <1>5, <1>6, <2>2 DEF FrameOf, b
<1>8. Len(p.cache) \in Nat
  BY <1>1, LenProperties
<1>9. v.dest = fb
  BY <1>5, <1>6
<1>10. v.cache = <<>> /\ v.dest \in Seq(Byte) /\ Len(v.dest) \in Nat /\ v.crc = bs \o v.dest
  BY <1>2, <1>5, <1>9
<1>11. 8 * Len(v.dest) <= Len(p.cache) + 7
  BY <1>2, <1>8, <1>9
<1>13. EndedWith(j, p, bs, cs, v)
  BY <1>7, <1>10, <1>11 DEF EndedWith
<1> QED
  BY <1>13 DEF v, w

-----------------------------------------------------------------------------
(* Numbers of a call *)

\* A multiple is a product.
LEMMA DividesIs ==
  ASSUME NEW n \in Nat \ {0}, NEW a \in Int
  PROVE  Divides(n, a) <=> \E p \in Int : a = n * p
<1>1. ASSUME Divides(n, a) PROVE \E p \in Int : a = n * p
  <2>1. a \div n \in Int /\ a = n * (a \div n) + (a % n)
    BY IntDivMod
  <2>2. a = n * (a \div n)
    BY <1>1, <2>1 DEF Divides
  <2> QED
    BY <2>1, <2>2, Zenon
<1>2. ASSUME NEW p \in Int, a = n * p PROVE Divides(n, a)
  <2>1. a = n * p + 0 /\ 0 \in 0..(n - 1)
    BY <1>2
  <2> QED
    BY <2>1, IntDivUnique DEF Divides
<1> QED
  BY <1>1, <1>2

\* The next multiple.
LEMMA MultipleSum ==
  ASSUME NEW n \in Nat \ {0}, NEW a \in Int, Divides(n, a), NEW c, c = a + n
  PROVE  Divides(n, c)
<1>1. PICK p \in Int : a = n * p
  BY DividesIs
<1>2. c = n * (p + 1) /\ c \in Int /\ p + 1 \in Int
  BY <1>1
<1>3. \E r \in Int : c = n * r
  BY <1>2, Zenon
<1> QED
  BY <1>2, <1>3, DividesIs

\* The difference of multiples.
LEMMA MultipleDifference ==
  ASSUME NEW n \in Nat \ {0}, NEW a \in Int, NEW b \in Int, Divides(n, a), Divides(n, b),
         NEW c, c = a - b
  PROVE  Divides(n, c)
<1>1. PICK p \in Int : a = n * p
  BY DividesIs
<1>2. PICK q \in Int : b = n * q
  BY DividesIs
<1>3. c = n * (p - q) /\ c \in Int /\ p - q \in Int
  BY <1>1, <1>2
<1>4. \E r \in Int : c = n * r
  BY <1>3, Zenon
<1> QED
  BY <1>3, <1>4, DividesIs

\* Multiples are n apart.
LEMMA NextMultiple ==
  ASSUME NEW n \in Nat \ {0}, NEW a \in Int, NEW b \in Int, Divides(n, a), Divides(n, b), a < b
  PROVE  a + n <= b
<1>1. PICK p \in Int : a = n * p
  BY DividesIs
<1>2. PICK q \in Int : b = n * q
  BY DividesIs
<1>3. b - a = n * (q - p) /\ b - a > 0
  BY <1>1, <1>2
<1>4. q - p >= 1
  <2>1. SUFFICES ASSUME q - p <= 0 PROVE FALSE
    BY <1>1, <1>2
  <2>2. n * (q - p) <= 0
    BY <1>1, <1>2, <2>1
  <2> QED
    BY <1>3, <2>2
<1>5. n * (q - p) >= n
  BY <1>1, <1>2, <1>4
<1> QED
  BY <1>3, <1>5

\* Products are multiples.
LEMMA MultipleOf == ASSUME NEW n \in Nat \ {0}, NEW k \in Int PROVE Divides(n, k * n) /\ k * n \in Int
<1>1. k * n = n * k /\ k * n \in Int
  OBVIOUS
<1> QED
  BY <1>1, DividesIs

\* A loop that goes on has a whole group left.
LEMMA LoopRoom ==
  ASSUME NEW j \in Jobs, NEW g \in 0..GroupsOf(j), NEW c, NEW u,
         Within(j, c, u), c.ni32 \in Nat, c.misc.ni32_target \in Nat, u.ni32_total \in Nat,
         c.ni32 < c.misc.ni32_target, u.ni32_total + c.ni32 = g * j.nchan,
         NEW q, q = c.ni32 + j.nchan
  PROVE  /\ g < GroupsOf(j) /\ g + 1 \in 0..GroupsOf(j)
         /\ Divides(j.nchan, q) /\ q <= c.misc.ni32_target /\ q \in Nat
         /\ u.ni32_total + q = (g + 1) * j.nchan
<1> DEFINE n == j.nchan
           m == GroupsOf(j)
           a == c.ni32
           t == c.misc.ni32_target
           l == u.ni32_total
<1>1. n \in Nat \ {0} /\ m \in Nat /\ SizeOf(j) = m * n
  BY JobIs DEF JobNumbers
<1>2. a \in Nat /\ t \in Nat /\ l \in Nat /\ a < t /\ l + a = g * n /\ g \in 0..m
      /\ Divides(n, a) /\ Divides(n, t) /\ l + t <= m * n
  BY <1>1 DEF Within
<1> HIDE DEF n, m, a, t, l
<1>3. Divides(n, q) /\ q <= t /\ q = a + n /\ q \in Nat
  <2>1. a \in Int /\ t \in Int /\ Divides(n, a) /\ Divides(n, t) /\ a < t /\ q = a + n /\ q \in Nat
    BY <1>1, <1>2 DEF a, n
  <2>2. Divides(n, q)
    BY <1>1, <2>1, MultipleSum
  <2>3. a + n <= t
    BY <1>1, <2>1, NextMultiple
  <2> QED
    BY <2>1, <2>2, <2>3
<1>4. g * n + n <= m * n /\ g * n + n = (g + 1) * n
  BY <1>1, <1>2, <1>3
<1>5. g < m
  <2>1. SUFFICES ASSUME g = m PROVE FALSE
    BY <1>1, <1>2
  <2> QED
    BY <1>1, <1>4, <2>1
<1> QED
  BY <1>1, <1>2, <1>3, <1>4, <1>5 DEF n, m, a, t, l

-----------------------------------------------------------------------------
(* A call of the encoder *)

EncVerdict(misc) == IF BaseCheck(misc) = "OK" THEN EncParamChecks(misc) ELSE BaseCheck(misc)

EncFields(misc) ==
  misc = [dest_len |-> misc.dest_len, src_len |-> misc.src_len, ni32_target |-> misc.ni32_target,
          ni32_perframe |-> misc.ni32_perframe, samplebytes |-> misc.samplebytes,
          nchan |-> misc.nchan, aligned |-> misc.aligned]

\* A call that is let in passed all checks.
LEMMA VerdictIs ==
  ASSUME NEW misc
  PROVE  /\ EncVerdict(misc) \in Refused \cup {"OK"}
         /\ EncVerdict(misc) = "OK" => BaseCheck(misc) = "OK" /\ EncParamChecks(misc) = "OK"
         /\ EncVerdict(misc) \notin {"none", "OK_AGAIN", "OK_DONE", "FAIL_DECODE"}
BY DEF EncVerdict, BaseCheck, EncParamChecks, Refused

\* What a call that is not refused asks for.
LEMMA EncAccepted ==
  ASSUME job \in Jobs, user \in Users, user.ni32_total <= SizeOf(job),
         NEW misc, EncFields(misc), EncVerdict(misc) = "OK",
         misc.dest_len \in Int, misc.src_len \in Int, misc.ni32_target \in Int,
         misc.ni32_perframe = SizeOf(job), misc.samplebytes = job.samplebytes,
         misc.nchan = job.nchan, misc.aligned \in BOOLEAN,
         misc.src_len >= 0, misc.ni32_target >= 0,
         NEW c, c = [op |-> "encode", misc |-> misc, ni32 |-> 0, nbytes |-> 0]
  PROVE  /\ c \in EncCalls(job) /\ Within(job, c, user) /\ misc.dest_len >= MarginOf(job)
         /\ c # Idle
<1>1. BaseCheck(misc) = "OK" /\ EncParamChecks(misc) = "OK"
  BY VerdictIs
<1>2. /\ misc.ni32_target % misc.nchan = 0
      /\ ~(misc.dest_len < Margin(misc))
      /\ ~(misc.ni32_target > misc.ni32_perframe - user.ni32_total)
  BY <1>1 DEF EncParamChecks
<1>3. JobNumbers(job) /\ MarginOf(job) \in Nat
  BY JobIs, MarginIs
<1>4. Margin(misc) = MarginOf(job)
  BY DEF Margin, MarginOf
<1>13. misc.dest_len >= MarginOf(job)
  BY <1>2, <1>3, <1>4
<1>5. misc \in [dest_len : Nat, src_len : Nat, ni32_target : Nat, ni32_perframe : {SizeOf(job)},
                samplebytes : {job.samplebytes}, nchan : {job.nchan}, aligned : BOOLEAN]
  <2>1. misc.dest_len \in Nat /\ misc.src_len \in Nat /\ misc.ni32_target \in Nat
    BY <1>3, <1>13
  <2> QED
    BY <2>1 DEF EncFields
<1>6. c \in EncCalls(job)
  BY <1>5 DEF EncCalls
<1>7. c.ni32 = 0 /\ c.misc = misc /\ c.op = "encode"
  OBVIOUS
<1>8. c # Idle
  BY <1>7 DEF Idle
<1>9. Divides(job.nchan, 0)
  <2>1. 0 = job.nchan * 0 /\ 0 \in Int
    BY <1>3 DEF JobNumbers
  <2>2. \E p \in Int : 0 = job.nchan * p
    BY <2>1, Zenon
  <2> QED
    BY <1>3, <2>1, <2>2, DividesIs DEF JobNumbers
<1>10. Divides(job.nchan, misc.ni32_target)
  BY <1>2 DEF Divides
<1>11. user.ni32_total + misc.ni32_target <= SizeOf(job)
  BY <1>2, <1>3 DEF Users, JobNumbers
<1>12. Within(job, c, user)
  BY <1>7, <1>9, <1>10, <1>11 DEF Within
<1> QED
  BY <1>6, <1>8, <1>12, <1>13

\* When it is not refused.
LEMMA EncNotRefused ==
  ASSUME job \in Jobs, user \in Users,
         NEW misc, misc.dest_len \in Int, misc.src_len \in Int, misc.ni32_target \in Nat,
         misc.ni32_perframe = SizeOf(job), misc.samplebytes = job.samplebytes,
         misc.nchan = job.nchan, misc.aligned = TRUE,
         misc.dest_len >= MarginOf(job), misc.src_len = misc.ni32_target,
         misc.ni32_target > 0, user.ni32_total + misc.ni32_target = SizeOf(job),
         Divides(job.nchan, misc.ni32_target)
  PROVE  EncVerdict(misc) = "OK"
<1>1. JobNumbers(job) /\ MarginOf(job) \in Nat /\ MarginOf(job) >= 16
  BY JobIs, MarginIs
<1>2. BaseCheck(misc) = "OK"
  BY <1>1 DEF BaseCheck, JobNumbers
<1>3. Margin(misc) = MarginOf(job)
  BY DEF Margin, MarginOf
<1>4. 0 \notin {misc.dest_len, misc.src_len, misc.ni32_target, misc.ni32_perframe, misc.nchan}
  BY <1>1 DEF JobNumbers
<1>5. misc.ni32_target % misc.nchan = 0
  BY DEF Divides
<1>6. user.ni32_total \in Nat /\ SizeOf(job) \in Nat
  BY <1>1 DEF Users, JobNumbers
<1>7. ~ \/ misc.dest_len < Margin(misc)
        \/ misc.ni32_target > misc.src_len
        \/ misc.ni32_perframe < user.ni32_total
        \/ misc.ni32_target > misc.ni32_perframe - user.ni32_total
  BY <1>1, <1>3, <1>6
<1>8. EncParamChecks(misc) = "OK"
  BY <1>4, <1>5, <1>7, Zenon DEF EncParamChecks
<1> QED
  BY <1>2, <1>8 DEF EncVerdict

-----------------------------------------------------------------------------
(* The encoder is called *)

\* What EncInv says of the state apart from the call.
LEMMA EncIdle ==
  ASSUME job \in Jobs, user \in Users, NEW g \in 0..GroupsOf(job), EncInv(g), call = Idle
  PROVE  /\ Done = user.ni32_total /\ Taken = user.nbytes_tta_total
         /\ Active <=> user.ncalls_codec > 0
         /\ user.ni32_total = g * job.nchan /\ user.ni32_total <= SizeOf(job)
         /\ user.nbytes_tta_total = Len(tta)
         /\ ~Active => g = 0 /\ tta = <<>> /\ codes = <<>> /\ user.ni32_total = 0
                       /\ user.nbytes_tta_total = 0 /\ user.crc = <<>> /\ ~user.fini
<1>1. JobNumbers(job) /\ JobBits(job)
  BY JobIs, JobBitsIs
<1>2. user.ni32_total \in Nat /\ user.nbytes_tta_total \in Nat
  BY DEF Users
<1>3. Done = user.ni32_total /\ Taken = user.nbytes_tta_total
  BY <1>2 DEF Done, Taken
<1>4. Active <=> user.ncalls_codec > 0
  BY DEF Active
<1>5. /\ tta \in Seq(Byte) /\ Len(tta) = Taken /\ codes = AllCodes(CodedOf(job), g)
      /\ Done = g * job.nchan /\ (~Active => user = LIBTTAr_CODECSTATE_USER_INIT)
  BY DEF EncInv
<1>6. user.ni32_total <= SizeOf(job)
  <2> DEFINE n == job.nchan
             m == GroupsOf(job)
  <2>1. n \in Nat /\ m \in Nat /\ g \in 0..m /\ SizeOf(job) = m * n
    BY <1>1 DEF JobNumbers
  <2> HIDE DEF n, m
  <2>2. g * n <= m * n
    BY <2>1
  <2> QED
    BY <1>3, <1>5, <2>1, <2>2 DEF n
<1>7. ASSUME ~Active
      PROVE  /\ user.ni32_total = 0 /\ user.nbytes_tta_total = 0 /\ user.crc = <<>> /\ ~user.fini
             /\ g = 0 /\ tta = <<>> /\ codes = <<>>
  <2>1. user.ni32_total = 0 /\ user.nbytes_tta_total = 0 /\ user.crc = <<>> /\ user.fini = FALSE
    BY <1>5, <1>7 DEF LIBTTAr_CODECSTATE_USER_INIT
  <2>2. tta = <<>>
    BY <1>3, <1>5, <2>1, EmptySeq
  <2>3. g = 0
    <3> DEFINE n == job.nchan
    <3>1. g * n = 0
      BY <1>3, <1>5, <2>1
    <3>2. n \in Nat \ {0} /\ GroupsOf(job) \in Nat
      BY <1>1 DEF JobNumbers
    <3>3. g \in Nat
      BY <3>2
    <3> HIDE DEF n
    <3>4. g > 0 => g * n >= n
      BY <3>2, <3>3
    <3> QED
      BY <3>1, <3>2, <3>3, <3>4
  <2>4. codes = <<>>
    BY <1>1, <1>5, <2>3 DEF JobBits
  <2> QED
    BY <2>1, <2>2, <2>3, <2>4
<1> QED
  BY <1>3, <1>4, <1>5, <1>6, <1>7

\* A call of the encoder, refused or not.
LEMMA EncEnter ==
  ASSUME BaseInv, stage = "encode", call = Idle, status # "OK_DONE",
         NEW g \in 0..GroupsOf(job), EncInv(g),
         NEW misc, misc.nchan = job.nchan,
         EncCall(misc), UNCHANGED callerVars,
         ttabuf_len' \in Nat, ttabuf_len' >= ttabuf_len,
         EncVerdict(misc) = "OK" =>
           EncCallOK(job, [op |-> "encode", misc |-> misc, ni32 |-> 0, nbytes |-> 0], user,
                     ttabuf_len'),
         job.caller = "cli" /\ ~BurstIn(job, g) => EncVerdict(misc) = "OK"
  PROVE  IInv'
<1> DEFINE c == [op |-> "encode", misc |-> misc, ni32 |-> 0, nbytes |-> 0]
           K == 39 + KMax
<1>1. /\ job' = job /\ stage' = stage /\ frame' = frame /\ damaged' = damaged /\ pad' = pad
      /\ user' = user /\ pcm' = pcm /\ tta' = tta /\ out' = out /\ codes' = codes
  BY DEF EncCall, Enter, callerVars
<1>2. /\ priv' = (IF BaseCheck(misc) = "OK" /\ user.ncalls_codec = 0
                    THEN state_priv_init(misc.nchan) ELSE priv)
      /\ status' = EncVerdict(misc)
      /\ call' = (IF EncVerdict(misc) = "OK" THEN c ELSE Idle)
  BY DEF EncCall, Enter, EncVerdict
<1>3. job \in Jobs /\ user \in Users /\ pcm = SamplesOf(job)
  BY DEF BaseInv
<1>4. /\ Done = user.ni32_total /\ Taken = user.nbytes_tta_total
      /\ Active <=> user.ncalls_codec > 0
      /\ ~Active => g = 0 /\ tta = <<>> /\ codes = <<>>
  BY <1>3, EncIdle
<1>5. /\ out = <<>> /\ ~damaged /\ pad = 0 /\ priv \in Privs(job, K)
      /\ tta \in Seq(Byte) /\ Len(tta) = Taken /\ user.crc = tta
      /\ codes = AllCodes(CodedOf(job), g) /\ Done = g * job.nchan
      /\ ~user.fini
      /\ (Active => EncodedTo(job, g, priv, tta, codes))
      /\ (~Active => user = LIBTTAr_CODECSTATE_USER_INIT)
  BY DEF EncInv
<1>6. c # Idle /\ c.ni32 = 0 /\ c.nbytes = 0 /\ c.misc = misc /\ c.op = "encode"
  BY DEF Idle
<1>7. /\ EncVerdict(misc) \in Refused \cup {"OK"}
      /\ EncVerdict(misc) = "OK" => BaseCheck(misc) = "OK"
      /\ EncVerdict(misc) \notin {"none", "OK_AGAIN", "OK_DONE", "FAIL_DECODE"}
  BY VerdictIs
<1> HIDE DEF c
<1>8. user.ni32_total \in Nat /\ user.nbytes_tta_total \in Nat /\ user.ncalls_codec \in Nat
  BY <1>3 DEF Users
<1>9. Done' = Done /\ Taken' = Taken
  BY <1>1, <1>2, <1>4, <1>6, <1>8 DEF Done, Taken
<1>10. BaseInv'
  <2>1. call' # Idle' => status' = "OK"
    BY <1>2 DEF Idle
  <2> QED
    BY <1>1, <1>3, <2>1 DEF BaseInv
<1>11. priv' \in Privs(job, K)
  <2>1. K \in Nat
    BY WordAssumption
  <2>2. state_priv_init(job.nchan) \in Privs(job, K)
    BY <1>3, <2>1, EncodeStarts
  <2> QED
    BY <1>2, <1>5, <2>2
<1>12. Active' => EncodedTo(job, g, priv', tta, codes)
  <2>1. CASE Active
    <3>1. priv' = priv
      BY <1>2, <1>4, <1>8, <2>1
    <3> QED
      BY <1>5, <2>1, <3>1
  <2>2. CASE ~Active /\ EncVerdict(misc) = "OK"
    <3>1. priv' = state_priv_init(job.nchan)
      BY <1>2, <1>4, <1>7, <1>8, <2>2
    <3>2. EncodedTo(job, 0, state_priv_init(job.nchan), <<>>, <<>>)
      BY <1>3, EncodeStarts
    <3> QED
      BY <1>4, <2>2, <3>1, <3>2
  <2>3. CASE ~Active /\ EncVerdict(misc) # "OK"
    <3>1. call' = Idle
      BY <1>2, <2>3
    <3>2. ~Active'
      BY <1>1, <1>4, <1>8, <2>3, <3>1 DEF Active, Idle
    <3> QED
      BY <3>2
  <2> QED
    BY <2>1, <2>2, <2>3
<1>13. ~Active' => user' = LIBTTAr_CODECSTATE_USER_INIT'
  <2>1. ~Active' => ~Active
    BY <1>1, <1>4 DEF Active
  <2> QED
    BY <1>1, <1>5, <2>1 DEF LIBTTAr_CODECSTATE_USER_INIT
<1>14. call' = Idle \/ EncCallOK(job, call', user, ttabuf_len')
  BY <1>2 DEF c
<1>15. RoomInv'
  <2>1. ASSUME EncVerdict(misc) = "OK"
        PROVE  8 * call'.nbytes + Len(priv'.cache) + 7 <= 8 * call'.misc.dest_len
    <3>1. misc.dest_len >= MarginOf(job) /\ MarginOf(job) \in Nat /\ MarginOf(job) >= 16
      BY <1>3, <1>6, <2>1, MarginIs DEF EncCallOK, c
    <3>2. misc.dest_len \in Nat
      BY <2>1, <1>6 DEF EncCallOK, EncCalls, c
    <3>3. Len(priv'.cache) \in Nat /\ Len(priv'.cache) <= K /\ K <= 63 /\ K \in Nat
      BY <1>11, LenProperties, WordAssumption DEF Privs
    <3>4. call'.nbytes = 0 /\ call'.misc.dest_len = misc.dest_len
      BY <1>2, <1>6, <2>1
    <3> QED
      BY <3>1, <3>2, <3>3, <3>4
  <2>2. call' # Idle' => EncVerdict(misc) = "OK"
    BY <1>2 DEF Idle
  <2>3. RoomInv
    BY DEF EncInv
  <2>4. ttabuf_len \in Nat /\ Len(tta) \in Nat
    BY <1>5, LenProperties DEF EncInv
  <2>5. ModestIn(job, codes) /\ job.caller = "cli" => Len(tta) <= ttabuf_len'
    BY <2>3, <2>4 DEF RoomInv
  <2> QED
    BY <1>1, <2>1, <2>2, <2>5 DEF RoomInv
<1>16. GrowthInv(g)'
  <2>1. SUFFICES ASSUME job.caller = "cli", ~BurstIn(job, g)
                 PROVE  call'.nbytes + MarginOf(job) <= call'.misc.dest_len + TTABUF_LEN_DEFAULT * job.nchan
                        /\ call' # Idle
    BY <1>1 DEF GrowthInv, Idle
  <2>2. EncVerdict(misc) = "OK"
    BY <2>1
  <2>3. call' = c
    BY <1>2, <2>2
  <2>4. misc.dest_len >= MarginOf(job) /\ MarginOf(job) \in Nat
    BY <1>3, <1>6, <2>2, MarginIs DEF EncCallOK, c
  <2>5. misc.dest_len \in Nat
    BY <2>2, <1>6 DEF EncCallOK, EncCalls, c
  <2>6. TTABUF_LEN_DEFAULT * job.nchan \in Nat
    BY <1>3, BufferAssumption, JobIs DEF JobNumbers
  <2>7. 0 + MarginOf(job) <= misc.dest_len + TTABUF_LEN_DEFAULT * job.nchan
    BY <2>4, <2>5, <2>6
  <2> QED
    BY <1>6, <2>3, <2>7
<1>17. EncInv(g)'
  <2>1. /\ out' = <<>> /\ ~damaged' /\ pad' = 0 /\ priv' \in Privs(job', K)
        /\ tta' \in Seq(Byte) /\ Len(tta') = Taken' /\ user'.crc = tta'
        /\ codes' = AllCodes(CodedOf(job'), g) /\ Done' = g * job'.nchan
    BY <1>1, <1>5, <1>9, <1>11
  <2>2. /\ (user'.fini <=> status' = "OK_DONE") /\ ~user'.fini
    BY <1>1, <1>2, <1>5, <1>7
  <2>3. Active' => EncodedTo(job', g, priv', tta', codes')
    BY <1>1, <1>12
  <2>4. call' = Idle' \/ EncCallOK(job', call', user', ttabuf_len')
    BY <1>1, <1>14 DEF Idle
  <2>5. status' \notin {"none", "OK_AGAIN"}
    BY <1>2, <1>7
  <2>6. stage' # "failed"
    BY <1>1
  <2> QED
    BY <1>13, <1>15, <1>16, <2>1, <2>2, <2>3, <2>4, <2>5, <2>6 DEF EncInv
<1> QED
  BY <1>1, <1>10, <1>17 DEF IInv

-----------------------------------------------------------------------------
(* The callers of the encoder *)

\* Any call of the command line program.
LEMMA CliCall ==
  ASSUME BaseInv, stage = "encode", call = Idle, status # "OK_DONE",
         NEW g \in 0..GroupsOf(job), EncInv(g), job.caller = "cli",
         NEW len \in Nat, len >= ttabuf_len, ttabuf_len' = len,
         EncCall(CliEncMisc(len)), UNCHANGED callerVars,
         user.ni32_total < SizeOf(job),
         ~BurstIn(job, g) => Len(tta) + MarginOf(job) <= len
  PROVE  IInv'
<1> DEFINE misc == CliEncMisc(len)
           rest == SizeOf(job) - user.ni32_total
           c == [op |-> "encode", misc |-> misc, ni32 |-> 0, nbytes |-> 0]
<1>1. job \in Jobs /\ user \in Users
  BY DEF BaseInv
<1>2. /\ user.ni32_total = g * job.nchan /\ user.ni32_total <= SizeOf(job)
      /\ user.nbytes_tta_total = Len(tta)
  BY <1>1, EncIdle
<1>3. /\ EncFields(misc)
      /\ misc.dest_len = len - user.nbytes_tta_total /\ misc.src_len = rest
      /\ misc.ni32_target = rest
      /\ misc.ni32_perframe = SizeOf(job) /\ misc.samplebytes = job.samplebytes
      /\ misc.nchan = job.nchan /\ misc.aligned = TRUE
  <2> DEFINE d == len - user.nbytes_tta_total
  <2>1. misc = EncMisc(d, rest, rest)
    BY DEF CliEncMisc, NFlat, SizeOf
  <2> HIDE DEF misc, rest, d
  <2>2. /\ EncFields(misc)
        /\ misc.dest_len = d /\ misc.src_len = rest /\ misc.ni32_target = rest
        /\ misc.ni32_perframe = SizeOf(job) /\ misc.samplebytes = job.samplebytes
        /\ misc.nchan = job.nchan /\ misc.aligned = TRUE
    BY <2>1 DEF EncMisc, EncFields, NFlat, SizeOf
  <2> QED
    BY <2>2 DEF d
<1>4. user.ni32_total \in Nat /\ user.nbytes_tta_total \in Nat /\ SizeOf(job) \in Nat
      /\ MarginOf(job) \in Nat /\ JobNumbers(job)
  BY <1>1, JobIs, MarginIs DEF Users, JobNumbers
<1>5. rest \in Nat /\ rest > 0 /\ user.ni32_total + rest = SizeOf(job)
  BY <1>2, <1>4
<1>6. Divides(job.nchan, rest)
  <2> DEFINE n == job.nchan
             m == GroupsOf(job)
             a == m * n
             b == g * n
  <2>1. n \in Nat \ {0} /\ m \in Int /\ g \in Int /\ SizeOf(job) = a /\ user.ni32_total = b
    BY <1>2, <1>4 DEF JobNumbers
  <2>2. Divides(n, a) /\ Divides(n, b) /\ a \in Int /\ b \in Int
    BY <2>1, MultipleOf
  <2>3. rest = a - b
    BY <2>1
  <2> HIDE DEF a, b, n, m, rest
  <2>4. Divides(n, rest)
    BY <2>1, <2>2, <2>3, MultipleDifference
  <2> QED
    BY <2>4 DEF n
<1>7. len - user.nbytes_tta_total \in Int
  BY <1>4
<1> HIDE DEF misc, rest
<1>8. EncVerdict(misc) = "OK" => EncCallOK(job, c, user, ttabuf_len')
  <2>1. SUFFICES ASSUME EncVerdict(misc) = "OK" PROVE EncCallOK(job, c, user, ttabuf_len')
    OBVIOUS
  <2>2. misc.dest_len \in Int /\ misc.src_len \in Int /\ misc.ni32_target \in Int
        /\ misc.src_len >= 0 /\ misc.ni32_target >= 0
    BY <1>3, <1>5, <1>7
  <2>7. misc.aligned \in BOOLEAN
    BY <1>3, Zenon
  <2>3. /\ c \in EncCalls(job) /\ Within(job, c, user) /\ misc.dest_len >= MarginOf(job)
    BY <1>1, <1>2, <1>3, <2>1, <2>2, <2>7, EncAccepted
  <2>4. c.misc = misc
    OBVIOUS
  <2>5. user.nbytes_tta_total + misc.dest_len = ttabuf_len'
    BY <1>3, <1>4
  <2>6. user.ni32_total + misc.ni32_target = SizeOf(job)
    BY <1>3, <1>5
  <2> HIDE DEF c
  <2> QED
    BY <2>3, <2>4, <2>5, <2>6 DEF EncCallOK
<1>9. ~BurstIn(job, g) => EncVerdict(misc) = "OK"
  <2>1. SUFFICES ASSUME ~BurstIn(job, g) PROVE EncVerdict(misc) = "OK"
    OBVIOUS
  <2>2. misc.dest_len \in Int /\ misc.src_len \in Int /\ misc.ni32_target \in Nat
    BY <1>3, <1>5, <1>7
  <2>3. misc.dest_len >= MarginOf(job)
    BY <1>2, <1>3, <1>4, <2>1
  <2>4. misc.src_len = misc.ni32_target /\ misc.ni32_target > 0
        /\ user.ni32_total + misc.ni32_target = SizeOf(job)
        /\ Divides(job.nchan, misc.ni32_target)
    BY <1>3, <1>5, <1>6
  <2> QED
    BY <1>1, <1>3, <2>2, <2>3, <2>4, EncNotRefused
<1>10. EncCall(misc)
  BY DEF misc
<1> QED
  BY <1>3, <1>8, <1>9, <1>10, EncEnter

\* In the stages of the encoder its invariant holds.
LEMMA EncStage ==
  ASSUME IInv, stage \in {"encode", "failed"}
  PROVE  \E g \in 0..GroupsOf(job) : EncInv(g)
BY DEF IInv

\* enc_frame_encode calls the encoder,
LEMMA FirstCall ==
  ASSUME IInv, enc_frame_encode
  PROVE  IInv'
<1>1. /\ stage = "encode" /\ job.caller = "cli" /\ call = Idle /\ status = "none"
      /\ EncCall(CliEncMisc(ttabuf_len)) /\ UNCHANGED callerVars /\ ttabuf_len' = ttabuf_len
  BY DEF enc_frame_encode, Encoding
<1>2. PICK g \in 0..GroupsOf(job) : EncInv(g)
  BY <1>1, EncStage
<1>3. BaseInv
  BY DEF IInv
<1>4. job \in Jobs /\ user \in Users
  BY <1>3 DEF BaseInv
<1>5. ttabuf_len \in Nat /\ ttabuf_len = encbuf_init(job.nchan) /\ ~Active
  BY <1>1, <1>2 DEF EncInv
<1>6. user.ni32_total = 0 /\ tta = <<>>
  BY <1>1, <1>2, <1>4, <1>5, EncIdle
<1>7. SizeOf(job) \in Nat \ {0} /\ job.nchan \in Nat \ {0} /\ MarginOf(job) \in Nat
  BY <1>4, JobIs, MarginIs DEF JobNumbers
<1>8. Len(tta) + MarginOf(job) <= ttabuf_len
  <2>1. ttabuf_len = TTABUF_LEN_DEFAULT * job.nchan + MarginOf(job)
    BY <1>5 DEF encbuf_init, margin, MarginOf
  <2>2. TTABUF_LEN_DEFAULT * job.nchan \in Nat
    BY <1>7, BufferAssumption
  <2>3. Len(tta) = 0
    BY <1>6
  <2> QED
    BY <1>7, <2>1, <2>2, <2>3
<1>9. user.ni32_total < SizeOf(job)
  BY <1>6, <1>7
<1> QED
  BY <1>1, <1>2, <1>3, <1>5, <1>8, <1>9, CliCall

\* calls it again with a larger buffer,
LEMMA NextCall ==
  ASSUME IInv, enc_frame_encode_again
  PROVE  IInv'
<1> DEFINE len == encbuf_adjust(ttabuf_len, job.nchan)
<1>1. /\ stage = "encode" /\ job.caller = "cli" /\ call = Idle /\ status = "OK_AGAIN"
      /\ ttabuf_len' = len
      /\ EncCall(CliEncMisc(len)) /\ UNCHANGED callerVars
  BY DEF enc_frame_encode_again, Encoding
<1>2. PICK g \in 0..GroupsOf(job) : EncInv(g)
  BY <1>1, EncStage
<1>3. BaseInv
  BY DEF IInv
<1>4. job \in Jobs /\ user \in Users
  BY <1>3 DEF BaseInv
<1>5. /\ ttabuf_len \in Nat /\ tta \in Seq(Byte)
      /\ Done < SizeOf(job)
      /\ ~BurstIn(job, g) => Len(tta) + MarginOf(job) <= ttabuf_len + TTABUF_LEN_DEFAULT * job.nchan
  BY <1>1, <1>2 DEF EncInv, GrowthInv
<1>6. user.ni32_total < SizeOf(job)
  BY <1>1, <1>2, <1>4, <1>5, EncIdle
<1>7. len = ttabuf_len + TTABUF_LEN_DEFAULT * job.nchan
  BY DEF encbuf_adjust
<1>8. TTABUF_LEN_DEFAULT * job.nchan \in Nat
  BY <1>4, BufferAssumption, JobIs DEF JobNumbers
<1>9. len \in Nat /\ len >= ttabuf_len
  BY <1>5, <1>7, <1>8
<1>10. ~BurstIn(job, g) => Len(tta) + MarginOf(job) <= len
  BY <1>5, <1>7
<1> HIDE DEF len
<1> QED
  BY <1>1, <1>2, <1>3, <1>6, <1>9, <1>10, CliCall

\* or stops at the largest buffer.
LEMMA GivesUp ==
  ASSUME IInv, enc_frame_encode_fails
  PROVE  IInv'
<1>1. /\ stage = "encode" /\ job.caller = "cli" /\ call = Idle
      /\ status \notin {"none", "OK_AGAIN", "OK_DONE"} /\ stage' = "failed"
      /\ UNCHANGED <<codecVars, job, ttabuf_len, frame, damaged, pad>>
  BY DEF enc_frame_encode_fails, Encoding
<1>2. PICK g \in 0..GroupsOf(job) : EncInv(g)
  BY <1>1, EncStage
<1>3. /\ priv' = priv /\ user' = user /\ call' = call /\ status' = status /\ pcm' = pcm
      /\ tta' = tta /\ out' = out /\ codes' = codes /\ job' = job /\ ttabuf_len' = ttabuf_len
      /\ frame' = frame /\ damaged' = damaged /\ pad' = pad
  BY <1>1 DEF codecVars
<1>4. BurstIn(job, g)
  BY <1>1, <1>2 DEF EncInv, GrowthInv
<1>5. BaseInv'
  BY <1>1, <1>3 DEF IInv, BaseInv, Idle
<1>6. Done' = Done /\ Taken' = Taken /\ (Active' <=> Active) /\ RoomInv' = RoomInv
  BY <1>3 DEF Done, Taken, Active, RoomInv, Idle
<1>7. GrowthInv(g)'
  BY <1>3, <1>4 DEF GrowthInv
<1>8. EncInv(g)'
  BY <1>1, <1>2, <1>3, <1>6, <1>7 DEF EncInv, Idle, LIBTTAr_CODECSTATE_USER_INIT, encbuf_init, margin
<1> QED
  BY <1>1, <1>3, <1>5, <1>8 DEF IInv

-----------------------------------------------------------------------------
(* The initial states, and the callers that use the library *)

\* A state left from another frame.
LEMMA UsedPrivIs == ASSUME NEW j \in Jobs PROVE UsedPriv(j.nchan) \in Privs(j, 39 + KMax)
<1> DEFINE n == j.nchan
           dl == [[i \in Taps |-> 0] EXCEPT ![7] = 5]
           f == [qm |-> [i \in Taps |-> 0], dx |-> [i \in Taps |-> 0], dl |-> dl, error |-> 1]
           r == [RiceInit EXCEPT !.k[0] = KMax]
           c == [filter |-> f, rice |-> r, prev |-> 3]
<1>1. 0 \in Int32 /\ 3 \in Int32 /\ 5 \in Int32
  <2>1. \A x \in -512..511 : x \in Int32
    BY IntWords
  <2>2. 0 \in -512..511 /\ 3 \in -512..511 /\ 5 \in -512..511
    OBVIOUS
  <2> QED
    BY <2>1, <2>2
<1>2. dl \in [Taps -> Int32] /\ [i \in Taps |-> 0] \in [Taps -> Int32]
      /\ [i \in Taps |-> 0] \in [Taps -> Int]
  BY <1>1 DEF Taps
<1>3. f \in FilterState
  <2> HIDE DEF dl
  <2> QED
    BY <1>2 DEF FilterState
<1>4. r \in RiceState
  <2>1. RiceInit \in RiceState
    BY RiceInitType
  <2>2. KMax \in 0..KMax
    BY WordAssumption
  <2>3. RiceInit.k \in [0..1 -> 0..KMax] /\ RiceInit.sum \in [0..1 -> UInt32]
        /\ RiceInit = [sum |-> RiceInit.sum, k |-> RiceInit.k]
    BY <2>1 DEF RiceState
  <2>4. [RiceInit.k EXCEPT ![0] = KMax] \in [0..1 -> 0..KMax]
    BY <2>2, <2>3
  <2>5. r = [sum |-> RiceInit.sum, k |-> [RiceInit.k EXCEPT ![0] = KMax]]
    BY <2>3
  <2> QED
    BY <2>3, <2>4, <2>5 DEF RiceState
<1>5. UsedPriv(n) = [cache |-> Ones(3), codec |-> [i \in 1..n |-> c]]
  <2>1. [FilterZero EXCEPT !.error = 1, !.dl[7] = 5] = f
    <3> DEFINE z == [i \in Taps |-> 0]
    <3>1. FilterZero = [qm |-> z, dx |-> z, dl |-> z, error |-> 0]
      BY DEF FilterZero
    <3>2. f = [qm |-> z, dx |-> z, dl |-> [z EXCEPT ![7] = 5], error |-> 1]
      OBVIOUS
    <3> HIDE DEF z, f
    <3>3. [FilterZero EXCEPT !.error = 1] = [qm |-> z, dx |-> z, dl |-> z, error |-> 1]
      BY <3>1
    <3>4. [FilterZero EXCEPT !.error = 1, !.dl[7] = 5]
            = [[FilterZero EXCEPT !.error = 1] EXCEPT !.dl = [z EXCEPT ![7] = 5]]
      BY <3>1
    <3> DEFINE e == [FilterZero EXCEPT !.error = 1]
               y == [z EXCEPT ![7] = 5]
    <3> HIDE DEF e, y
    <3>5. [e EXCEPT !.dl = y] = [qm |-> z, dx |-> z, dl |-> y, error |-> 1]
      <4>1. e = [qm |-> z, dx |-> z, dl |-> z, error |-> 1]
        BY <3>3, Zenon DEF e
      <4> QED
        BY <4>1
    <3>6. f = [qm |-> z, dx |-> z, dl |-> y, error |-> 1]
      BY <3>2 DEF y
    <3>7. [FilterZero EXCEPT !.error = 1, !.dl[7] = 5] = [e EXCEPT !.dl = y]
      BY <3>4, Zenon DEF e, y
    <3> QED
      BY <3>5, <3>6, <3>7
  <2> HIDE DEF f
  <2> QED
    BY <2>1 DEF UsedPriv
<1>6. c \in Channel
  <2> HIDE DEF f, r
  <2> QED
    BY <1>1, <1>3, <1>4 DEF Channel
<1>7. n \in Nat
  BY JobIs DEF JobNumbers
<1> HIDE DEF c, n
<1>8. [i \in 1..n |-> c] \in Seq(Channel) /\ Len([i \in 1..n |-> c]) = n
  <2>1. [i \in 1..n |-> c] \in [1..n -> Channel]
    BY <1>6
  <2> QED
    BY <1>7, <2>1
<1>9. Ones(3) \in Seq(Bit) /\ Len(Ones(3)) = 3
  BY OnesAndZeros
<1>10. 3 <= 39 + KMax
  BY WordAssumption
<1> DEFINE o == Ones(3)
           q == [i \in 1..n |-> c]
<1>11. o \in Seq(Bit) /\ Len(o) <= 39 + KMax /\ q \in Seq(Channel) /\ Len(q) = j.nchan
       /\ UsedPriv(j.nchan) = [cache |-> o, codec |-> q]
  BY <1>5, <1>8, <1>9, <1>10 DEF n
<1> HIDE DEF o, q
<1> QED
  BY <1>11 DEF Privs

\* The invariant holds at the start.
LEMMA InitInv == ASSUME Init PROVE IInv
<1>1. /\ job \in Jobs /\ stage = "encode" /\ ttabuf_len = encbuf_init(job.nchan)
      /\ priv = UsedPriv(job.nchan) /\ user = LIBTTAr_CODECSTATE_USER_INIT /\ pcm = Samples
      /\ call = Idle /\ status = "none" /\ tta = <<>> /\ out = <<>> /\ codes = <<>>
      /\ damaged = FALSE /\ pad = 0
  BY DEF Init
<1>2. JobNumbers(job) /\ MarginOf(job) \in Nat
  BY <1>1, JobIs, MarginIs
<1>3. pcm = SamplesOf(job)
  BY <1>1 DEF Samples, SamplesOf, NFlat, SizeOf
<1>4. user \in Users /\ user.ni32_total = 0 /\ user.nbytes_tta_total = 0 /\ user.ncalls_codec = 0
      /\ user.crc = <<>> /\ user.fini = FALSE
  <2>1. 0 \in 0..NCALLS_MAX
    BY CallsAssumption
  <2>2. <<>> \in Seq(Byte)
    OBVIOUS
  <2> QED
    BY <1>1, <2>1, <2>2 DEF LIBTTAr_CODECSTATE_USER_INIT, Users
<1>5. BaseInv
  BY <1>1, <1>3, <1>4 DEF BaseInv
<1>6. Done = 0 /\ Taken = 0 /\ ~Active
  BY <1>1, <1>4 DEF Done, Taken, Active
<1>7. ttabuf_len \in Nat
  <2>1. ttabuf_len = TTABUF_LEN_DEFAULT * job.nchan + MarginOf(job)
    BY <1>1 DEF encbuf_init, margin, MarginOf
  <2>2. TTABUF_LEN_DEFAULT * job.nchan \in Nat
    BY <1>2, BufferAssumption DEF JobNumbers
  <2> QED
    BY <1>2, <2>1, <2>2
<1>8. codes = AllCodes(CodedOf(job), 0)
  BY <1>1, FirstBits
<1>9. 0 \in 0..GroupsOf(job) /\ 0 * job.nchan = 0
  BY <1>2 DEF JobNumbers
<1>10. priv \in Privs(job, 39 + KMax)
  BY <1>1, UsedPrivIs
<1>11. tta \in Seq(Byte) /\ Len(tta) = 0
  BY <1>1
<1>12. RoomInv /\ GrowthInv(0)
  BY <1>1, <1>7, <1>11 DEF RoomInv, GrowthInv
<1>13. EncInv(0)
  BY <1>1, <1>4, <1>6, <1>7, <1>8, <1>9, <1>10, <1>11, <1>12 DEF EncInv
<1> QED
  BY <1>1, <1>5, <1>9, <1>13 DEF IInv

\* A call of another user of the library,
LEMMA ApiCall ==
  ASSUME IInv, ApiEncode
  PROVE  IInv'
<1>1. PICK n \in Chunks, room \in {0, 1} : EncCall(EncMisc(margin + room, n, n))
  BY DEF ApiEncode
<1> DEFINE misc == EncMisc(margin + room, n, n)
           d == margin + room
           c == [op |-> "encode", misc |-> misc, ni32 |-> 0, nbytes |-> 0]
<1>2. /\ stage = "encode" /\ job.caller = "api" /\ call = Idle /\ status # "OK_DONE"
      /\ UNCHANGED callerVars /\ ttabuf_len' = ttabuf_len
  BY DEF ApiEncode, Encoding
<1>3. PICK g \in 0..GroupsOf(job) : EncInv(g)
  BY <1>2, EncStage
<1>4. BaseInv /\ job \in Jobs /\ user \in Users
  BY DEF IInv, BaseInv
<1>5. user.ni32_total <= SizeOf(job) /\ ttabuf_len \in Nat
  BY <1>2, <1>3, <1>4, EncIdle DEF EncInv
<1>6. JobNumbers(job) /\ MarginOf(job) \in Nat /\ user.ni32_total \in Nat
  BY <1>4, JobIs, MarginIs DEF Users
<1>7. n \in Nat /\ d \in Int
  <2>1. n = job.nchan \/ n = SizeOf(job) - user.ni32_total
    BY DEF Chunks, NFlat, SizeOf
  <2>2. job.nchan \in Nat /\ SizeOf(job) \in Nat
    BY <1>6 DEF JobNumbers
  <2>3. margin = MarginOf(job)
    BY DEF margin, MarginOf
  <2> QED
    BY <1>5, <1>6, <2>1, <2>2, <2>3
<1> HIDE DEF d
<1>8. /\ EncFields(misc)
      /\ misc.dest_len = d /\ misc.src_len = n /\ misc.ni32_target = n
      /\ misc.ni32_perframe = SizeOf(job) /\ misc.samplebytes = job.samplebytes
      /\ misc.nchan = job.nchan /\ misc.aligned = TRUE
  <2>1. misc = EncMisc(d, n, n)
    BY DEF d
  <2> HIDE DEF misc
  <2> QED
    BY <2>1 DEF EncMisc, EncFields, NFlat, SizeOf
<1> HIDE DEF misc
<1>9. misc.aligned \in BOOLEAN
  BY <1>8, Zenon
<1>10. EncVerdict(misc) = "OK" => EncCallOK(job, c, user, ttabuf_len')
  <2>1. SUFFICES ASSUME EncVerdict(misc) = "OK" PROVE EncCallOK(job, c, user, ttabuf_len')
    OBVIOUS
  <2>2. /\ misc.dest_len \in Int /\ misc.src_len \in Int /\ misc.ni32_target \in Int
        /\ misc.src_len >= 0 /\ misc.ni32_target >= 0
    BY <1>7, <1>8
  <2>3. /\ c \in EncCalls(job) /\ Within(job, c, user) /\ misc.dest_len >= MarginOf(job)
    BY <1>4, <1>5, <1>8, <1>9, <2>1, <2>2, EncAccepted
  <2>4. c.misc = misc /\ job.caller # "cli"
    BY <1>2
  <2> HIDE DEF c
  <2> QED
    BY <2>3, <2>4 DEF EncCallOK
<1>11. EncCall(misc)
  BY <1>1 DEF misc
<1>12. ttabuf_len' \in Nat /\ ttabuf_len' >= ttabuf_len /\ job.caller # "cli"
  BY <1>2, <1>5
<1> QED
  BY <1>2, <1>3, <1>4, <1>8, <1>10, <1>11, <1>12, EncEnter

\* and one that is refused or cut short.
LEMMA RudeCall ==
  ASSUME IInv, RudeEncode
  PROVE  IInv'
<1> DEFINE ok == EncMisc(margin, job.nchan, job.nchan)
<1>1. PICK misc \in {[ok EXCEPT !.dest_len = @ - 1], [ok EXCEPT !.src_len = @ - 1],
                      [ok EXCEPT !.ni32_target = NFlat + job.nchan, !.src_len = 2 * NFlat],
                      [ok EXCEPT !.ni32_target = @ + 1, !.src_len = @ + 1],
                      [ok EXCEPT !.ni32_target = 0], [ok EXCEPT !.samplebytes = 4],
                      [ok EXCEPT !.aligned = FALSE]} :
           /\ EncVerdict(misc) # "OK"
           /\ EncCall(misc)
  BY DEF RudeEncode, EncVerdict
<1>2. /\ stage = "encode" /\ job.caller = "api" /\ call = Idle /\ status # "OK_DONE"
      /\ UNCHANGED callerVars /\ ttabuf_len' = ttabuf_len
  BY DEF RudeEncode, Encoding
<1>3. PICK g \in 0..GroupsOf(job) : EncInv(g)
  BY <1>2, EncStage
<1>4. BaseInv
  BY DEF IInv
<1>5. ttabuf_len \in Nat
  BY <1>3 DEF EncInv
<1>6. misc.nchan = job.nchan
  BY <1>1 DEF EncMisc
<1>7. ttabuf_len' \in Nat /\ ttabuf_len' >= ttabuf_len /\ job.caller # "cli"
  BY <1>2, <1>5
<1>8. EncVerdict(misc) # "OK" /\ EncCall(misc)
  BY <1>1
<1> HIDE DEF ok
<1> QED
  BY <1>2, <1>3, <1>4, <1>6, <1>7, <1>8, EncEnter

-----------------------------------------------------------------------------
(* A call of the encoder goes on *)

\* A call in progress belongs to its stage.
LEMMA CallStage ==
  ASSUME IInv, call # Idle
  PROVE  \/ call.op = "encode" /\ stage = "encode" /\ \E g \in 0..GroupsOf(job) : EncInv(g)
         \/ call.op = "decode" /\ stage = "decode" /\ \E g \in 0..GroupsOf(job) : DecInv(g)
<1>1. stage \in {"encode", "decode"}
  BY DEF IInv, BaseInv
<1>2. CASE stage = "encode"
  <2>1. PICK g \in 0..GroupsOf(job) : EncInv(g)
    BY <1>2, EncStage
  <2>2. call \in EncCalls(job)
    BY <2>1 DEF EncInv, EncCallOK
  <2>3. call.op = "encode"
    BY <2>2 DEF EncCalls
  <2> QED
    BY <1>2, <2>1, <2>3
<1>3. CASE stage = "decode"
  <2>1. PICK g \in 0..GroupsOf(job) : DecInv(g)
    BY <1>3 DEF IInv
  <2>2. call \in DecCalls(job)
    BY <2>1 DEF DecInv, DecCallOK
  <2>3. call.op = "decode"
    BY <2>2 DEF DecCalls
  <2> QED
    BY <1>3, <2>1, <2>3
<1> QED
  BY <1>1, <1>2, <1>3

\* The fields of a call of the encoder.
LEMMA EncCallIs ==
  ASSUME NEW j, NEW c \in EncCalls(j)
  PROVE  /\ c.op = "encode" /\ c.ni32 \in Nat /\ c.nbytes \in Nat
         /\ c.misc.dest_len \in Nat /\ c.misc.src_len \in Nat /\ c.misc.ni32_target \in Nat
         /\ c.misc.ni32_perframe = SizeOf(j) /\ c.misc.samplebytes = j.samplebytes
         /\ c.misc.nchan = j.nchan /\ c # Idle
BY DEF EncCalls, Idle

\* The user state with another checksum.
LEMMA UserCrc ==
  ASSUME NEW u \in Users, NEW s \in Seq(Byte), NEW v, v = [u EXCEPT !.crc = s]
  PROVE  /\ v \in Users /\ v.crc = s /\ v.fini = u.fini /\ v.ncalls_codec = u.ncalls_codec
         /\ v.ni32_total = u.ni32_total /\ v.nbytes_tta_total = u.nbytes_tta_total
BY DEF Users

\* The most a group of modest codes adds.
LEMMA GroupRoom ==
  ASSUME NEW j \in Jobs, NEW cs \in Seq(Code), Len(cs) = j.nchan, ModestIn(j, cs)
  PROVE  8 * MarginOf(j) >= Len(CodesBits(cs)) + 39 + KMax + 7
<1> DEFINE u == UnaryMaxBytes[j.samplebytes]
           n == j.nchan
           b == Len(CodesBits(cs))
           lim == 8 * u
<1>1. u \in Nat /\ n \in Nat \ {0}
  BY UnaryAssumption, JobIs DEF JobNumbers
<1>2. MarginOf(j) = (u + 15) * n
  BY MarginIs
<1>3. \A i \in 1..Len(cs) : cs[i].unary <= lim
  <2>1. DOMAIN cs = 1..Len(cs)
    BY ElementOfSeq
  <2> QED
    BY <2>1 DEF ModestIn
<1> HIDE DEF u, n, lim
<1>4. lim \in Nat
  BY <1>1 DEF lim
<1>5. b \in Nat /\ b <= Len(cs) * (lim + 1 + KMax)
  BY <1>3, <1>4, ModestBits
<1> HIDE DEF b
<1>6. Len(cs) = n
  BY DEF n
<1>7. KMax \in Nat /\ KMax <= 24
  BY WordAssumption
<1>8. b <= n * (8 * u + 25)
  <2>1. b <= n * (8 * u + 1 + KMax)
    BY <1>5, <1>6 DEF lim
  <2>2. n * (8 * u + 1 + KMax) <= n * (8 * u + 25)
    BY <1>1, <1>7
  <2>3. n * (8 * u + 1 + KMax) \in Int /\ n * (8 * u + 25) \in Int
    BY <1>1, <1>7
  <2> QED
    BY <1>5, <2>1, <2>2, <2>3
<1>9. n * (8 * u + 25) = 8 * ((u + 15) * n) - 95 * n /\ (u + 15) * n \in Nat
  BY <1>1
<1> DEFINE mg == (u + 15) * n
           bn == 95 * n
           t  == n * (8 * u + 25)
<1>10. mg \in Nat /\ t = 8 * mg - bn /\ bn >= 95 /\ bn \in Nat /\ b <= t /\ MarginOf(j) = mg
  BY <1>1, <1>2, <1>8, <1>9
<1> HIDE DEF mg, bn, t
<1>11. 8 * MarginOf(j) >= b + 39 + KMax + 7
  BY <1>5, <1>7, <1>10
<1> QED
  BY <1>11 DEF b

\* A burst stays one.
LEMMA BurstNext ==
  ASSUME NEW j, NEW g \in Nat, ~BurstIn(j, g + 1)
  PROVE  /\ ~BurstIn(j, g)
         /\ ~(Len(CodesBits(CodedOf(j)[g + 1].codes)) + 39 + KMax > 8 * (TTABUF_LEN_DEFAULT * j.nchan))
<1>1. g + 1 \in 1..(g + 1) /\ \A h \in 1..g : h \in 1..(g + 1)
  OBVIOUS
<1> QED
  BY <1>1 DEF BurstIn

\* The encoder codes a group.
LEMMA EncodesOn ==
  ASSUME IInv, EncStep, UNCHANGED <<callerVars, ttabuf_len>>
  PROVE  IInv'
<1> DEFINE n == job.nchan
           K == 39 + KMax
           at == user.ni32_total + call.ni32
           h == EncodeGroup(priv.codec, Writer, SubSeq(pcm, at + 1, at + call.misc.nchan),
                            call.misc.samplebytes)
           a == call.ni32 + n
           b == call.nbytes + Len(h.w.dest)
<1>1. /\ call.op = "encode" /\ call.ni32 < call.misc.ni32_target
      /\ call.nbytes <= call.misc.dest_len - Margin(call.misc)
      /\ EncGroup(h) /\ status' = status /\ pcm' = pcm /\ out' = out
  BY DEF EncStep, Looping, write_soft_limit
<1>2. /\ job' = job /\ stage' = stage /\ frame' = frame /\ damaged' = damaged /\ pad' = pad
      /\ ttabuf_len' = ttabuf_len
  BY DEF callerVars
<1>3. call # Idle
  BY <1>1 DEF Idle
<1>4. stage = "encode"
  BY <1>1, <1>3, CallStage
<1>5. PICK g \in 0..GroupsOf(job) : EncInv(g)
  BY <1>1, <1>3, CallStage
<1>6. BaseInv /\ job \in Jobs /\ user \in Users /\ pcm = SamplesOf(job) /\ status = "OK"
  BY <1>3 DEF IInv, BaseInv
<1>7. /\ out = <<>> /\ ~damaged /\ pad = 0 /\ priv \in Privs(job, K)
      /\ tta \in Seq(Byte) /\ Len(tta) = Taken /\ user.crc = tta
      /\ codes = AllCodes(CodedOf(job), g) /\ Done = g * n
      /\ EncCallOK(job, call, user, ttabuf_len) /\ (user.fini <=> status = "OK_DONE")
      /\ ttabuf_len \in Nat
  BY <1>3, <1>5 DEF EncInv
<1>8. EncodedTo(job, g, priv, tta, codes) /\ ~user.fini
  <2>1. Active
    BY <1>3 DEF Active
  <2> QED
    BY <1>5, <1>6, <1>7, <2>1 DEF EncInv
<1>9. /\ call \in EncCalls(job) /\ Within(job, call, user) /\ call.misc.dest_len >= MarginOf(job)
      /\ (job.caller = "cli" =>
            /\ user.nbytes_tta_total + call.misc.dest_len = ttabuf_len
            /\ user.ni32_total + call.misc.ni32_target = SizeOf(job))
  BY <1>7 DEF EncCallOK
<1>10. /\ call.ni32 \in Nat /\ call.nbytes \in Nat /\ call.misc.dest_len \in Nat
       /\ call.misc.ni32_target \in Nat /\ call.misc.samplebytes = job.samplebytes
       /\ call.misc.nchan = n
  BY <1>9, EncCallIs
<1>11. user.ni32_total \in Nat /\ user.nbytes_tta_total \in Nat /\ user.ncalls_codec \in Nat
  BY <1>6 DEF Users
<1>12. JobNumbers(job) /\ MarginOf(job) \in Nat /\ n \in Nat \ {0}
  BY <1>6, JobIs, MarginIs DEF JobNumbers
<1>13. at = g * n /\ Taken = user.nbytes_tta_total + call.nbytes
  BY <1>3, <1>7, <1>10, <1>11 DEF Done, Taken
<1>14. Margin(call.misc) = MarginOf(job)
  BY <1>10 DEF Margin, MarginOf
<1> HIDE DEF a
<1>15. /\ g < GroupsOf(job) /\ g + 1 \in 0..GroupsOf(job)
       /\ Divides(job.nchan, a) /\ a <= call.misc.ni32_target /\ a \in Nat
       /\ user.ni32_total + a = (g + 1) * job.nchan
  <2>1. user.ni32_total + call.ni32 = g * job.nchan /\ a = call.ni32 + job.nchan
    BY <1>13 DEF a
  <2> QED
    BY <1>1, <1>6, <1>9, <1>10, <1>11, <2>1, LoopRoom
<1> HIDE DEF K
<1>16. EncodeAdds(job, g, priv, tta, codes, h)
  <2> DEFINE w == [cache |-> priv.cache, dest |-> <<>>, crc |-> tta]
             p == g * job.nchan
  <2>1. h = EncodeGroup(priv.codec, w, SubSeq(SamplesOf(job), p + 1, p + job.nchan), job.samplebytes)
    <3>1. Writer = w
      BY <1>7 DEF Writer
    <3>2. at = p
      BY <1>13
    <3> HIDE DEF at, p, w
    <3> QED
      BY <1>6, <1>10, <3>1, <3>2
  <2>2. priv \in Privs(job, 39 + KMax)
    BY <1>7 DEF K
  <2>3. EncodeAdds(job, g, priv, tta, codes,
          EncodeGroup(priv.codec, w, SubSeq(SamplesOf(job), p + 1, p + job.nchan), job.samplebytes))
    BY <1>6, <1>7, <1>8, <1>15, <2>2, EncodeStepAdds
  <2> HIDE DEF h
  <2> QED
    BY <2>1, <2>3
<1> HIDE DEF h, at
<1> DEFINE q == [cache |-> h.w.cache, codec |-> h.codec]
           cb == Len(CodesBits(h.codes))
           dl == Len(h.w.dest)
<1>17. /\ q \in Privs(job, K) /\ EncodedTo(job, g + 1, q, tta \o h.w.dest, codes \o h.codes)
       /\ h.w.dest \in Seq(Byte) /\ h.w.crc = tta \o h.w.dest
       /\ h.codes = CodedOf(job)[g + 1].codes
       /\ h.codes \in Seq(Code) /\ Len(h.codes) = n
       /\ 8 * dl + Len(h.w.cache) = Len(priv.cache) + cb
  BY <1>16 DEF EncodeAdds, K
<1>18. dl \in Nat /\ b \in Nat /\ tta \o h.w.dest \in Seq(Byte)
       /\ Len(tta \o h.w.dest) = Len(tta) + dl /\ Len(tta) \in Nat
  <2>1. Len(tta) \in Nat /\ dl \in Nat
    BY <1>7, <1>17, LenProperties
  <2>2. tta \o h.w.dest \in Seq(Byte) /\ Len(tta \o h.w.dest) = Len(tta) + dl
    <3> DEFINE hd == h.w.dest
    <3>1. hd \in Seq(Byte) /\ tta \in Seq(Byte)
      BY <1>7, <1>17
    <3> HIDE DEF hd
    <3>2. tta \o hd \in Seq(Byte) /\ Len(tta \o hd) = Len(tta) + Len(hd)
      BY <3>1, ConcatIs
    <3> QED
      BY <3>2 DEF hd
  <2> QED
    BY <1>10, <2>1, <2>2
<1>19. /\ priv' = q /\ user' = [user EXCEPT !.crc = h.w.crc]
       /\ tta' = tta \o h.w.dest /\ codes' = codes \o h.codes
       /\ call' = [call EXCEPT !.ni32 = a, !.nbytes = b]
  <2>1. call' = [call EXCEPT !.ni32 = @ + call.misc.nchan, !.nbytes = @ + Len(h.w.dest)]
    BY <1>1 DEF EncGroup
  <2>2. call \in [op : {"encode"},
                  misc : [dest_len : Nat, src_len : Nat, ni32_target : Nat, ni32_perframe : {SizeOf(job)},
                          samplebytes : {job.samplebytes}, nchan : {job.nchan}, aligned : BOOLEAN],
                  ni32 : Nat, nbytes : Nat]
    BY <1>9 DEF EncCalls
  <2>3. call' = [call EXCEPT !.ni32 = call.ni32 + call.misc.nchan, !.nbytes = call.nbytes + Len(h.w.dest)]
    BY <2>1, <2>2
  <2>4. call' = [call EXCEPT !.ni32 = a, !.nbytes = b]
    BY <1>10, <2>3 DEF a
  <2> QED
    BY <1>1, <2>4 DEF EncGroup
<1> HIDE DEF b
<1>20. /\ call' \in EncCalls(job) /\ call'.ni32 = a /\ call'.nbytes = b /\ call'.misc = call.misc
       /\ call' # Idle
  <2> DEFINE d == call'
  <2>1. d = [call EXCEPT !.ni32 = a, !.nbytes = b]
    BY <1>19
  <2> HIDE DEF d
  <2>2. a \in Nat /\ b \in Nat
    BY <1>15, <1>18 DEF b
  <2>3. d \in EncCalls(job) /\ d.ni32 = a /\ d.nbytes = b /\ d.misc = call.misc /\ d # Idle
    BY <1>9, <2>1, <2>2 DEF EncCalls, Idle
  <2> QED
    BY <2>3 DEF d
<1>21. /\ user' \in Users /\ user'.crc = tta \o h.w.dest /\ user'.fini = user.fini
       /\ user'.ncalls_codec = user.ncalls_codec
       /\ user'.ni32_total = user.ni32_total /\ user'.nbytes_tta_total = user.nbytes_tta_total
  <2>1. user' = [user EXCEPT !.crc = tta \o h.w.dest]
    BY <1>17, <1>19
  <2> DEFINE s == tta \o h.w.dest
             v == user'
  <2>2. user \in Users /\ s \in Seq(Byte) /\ v = [user EXCEPT !.crc = s]
    BY <1>6, <1>18, <2>1
  <2> HIDE DEF s, v
  <2>3. /\ v \in Users /\ v.crc = s /\ v.fini = user.fini /\ v.ncalls_codec = user.ncalls_codec
        /\ v.ni32_total = user.ni32_total /\ v.nbytes_tta_total = user.nbytes_tta_total
    BY <2>2, UserCrc
  <2> QED
    BY <2>3 DEF s, v
<1>22. Done' = (g + 1) * n /\ Taken' = Len(tta')
  <2>1. call' # Idle'
    BY <1>20 DEF Idle
  <2>2. Done' = user'.ni32_total + call'.ni32 /\ Taken' = user'.nbytes_tta_total + call'.nbytes
    BY <2>1 DEF Done, Taken
  <2>3. Taken' = user.nbytes_tta_total + call.nbytes + dl
    BY <1>10, <1>11, <1>18, <1>20, <1>21, <2>2 DEF b
  <2>4. Len(tta') = Taken + dl
    BY <1>7, <1>18, <1>19
  <2> QED
    BY <1>13, <1>15, <1>20, <1>21, <2>2, <2>3, <2>4
<1>23. Within(job, call', user')
  <2> DEFINE c == call'
             u == user'
  <2>1. c.ni32 = a /\ c.misc = call.misc /\ u.ni32_total = user.ni32_total
    BY <1>20, <1>21
  <2> HIDE DEF c, u
  <2>2. Within(job, c, u)
    BY <1>9, <1>15, <2>1 DEF Within
  <2> QED
    BY <2>2 DEF c, u
<1>24. EncCallOK(job, call', user', ttabuf_len')
  BY <1>2, <1>9, <1>20, <1>21, <1>23 DEF EncCallOK
<1>25. Len(h.w.cache) \in Nat /\ Len(priv.cache) \in Nat /\ Len(priv.cache) <= K /\ cb \in Nat
       /\ K \in Nat /\ K <= 63 /\ K = 39 + KMax
  <2>1. Len(h.w.cache) \in Nat /\ Len(priv.cache) \in Nat /\ Len(priv.cache) <= K
    BY <1>7, <1>17, LenProperties DEF Privs
  <2>2. K \in Nat /\ K <= 63 /\ K = 39 + KMax
    BY WordAssumption DEF K
  <2>3. cb \in Nat
    <3>1. CodesBits(h.codes) \in Seq(Bit)
      BY <1>17, CodesBitsType
    <3> QED
      BY <3>1, LenProperties
  <2> QED
    BY <2>1, <2>2, <2>3
<1>26. ASSUME ModestIn(job, codes')
       PROVE  8 * call'.nbytes + Len(priv'.cache) + 7 <= 8 * call'.misc.dest_len
  <2>1. codes \in Seq(Code)
    <3>1. SoFar(CodedOf(job), n, g)
      BY <1>6, JobBitsIs DEF JobBits
    <3> QED
      BY <1>7, <3>1 DEF SoFar
  <2>2. ModestIn(job, h.codes)
    <3> DEFINE hc == h.codes
               s == codes \o hc
               m == Len(codes)
               k == Len(hc)
               L == 8 * UnaryMaxBytes[job.samplebytes]
    <3>1. /\ s \in Seq(Code) /\ Len(s) = m + k
          /\ \A i \in 1..(m + k) : s[i] = IF i <= m THEN codes[i] ELSE hc[i - m]
      BY <1>17, <2>1, ConcatIs
    <3>2. m \in Nat /\ k \in Nat /\ DOMAIN hc = 1..k /\ DOMAIN s = 1..(m + k)
      BY <1>17, <2>1, <3>1, LenProperties, ElementOfSeq
    <3>3. \A i \in DOMAIN s : s[i].unary <= L
      BY <1>19, <1>26 DEF ModestIn
    <3> HIDE DEF hc, s, m, k, L
    <3>4. ASSUME NEW i \in 1..k PROVE hc[i].unary <= L
      <4>1. m + i \in 1..(m + k) /\ ~(m + i <= m) /\ (m + i) - m = i
        BY <3>2
      <4>2. s[m + i] = hc[i]
        BY <3>1, <4>1
      <4> QED
        BY <3>2, <3>3, <4>1, <4>2
    <3> QED
      BY <3>2, <3>4 DEF ModestIn, hc, L
  <2>3. 8 * MarginOf(job) >= cb + K + 7
    <3>1. 8 * MarginOf(job) >= Len(CodesBits(h.codes)) + 39 + KMax + 7
      BY <1>6, <1>17, <2>2, GroupRoom
    <3>2. Len(CodesBits(h.codes)) = cb
      OBVIOUS
    <3> HIDE DEF cb
    <3> QED
      BY <1>25, <3>1, <3>2, WordAssumption
  <2>5. 8 * b + Len(h.w.cache) + 7 <= 8 * call.misc.dest_len
    <3> DEFINE mg == MarginOf(job)
               hc == Len(h.w.cache)
               pc == Len(priv.cache)
               dd == call.misc.dest_len
               nb == call.nbytes
    <3>1. /\ b = nb + dl /\ nb <= dd - mg /\ 8 * mg >= cb + K + 7 /\ 8 * dl + hc = pc + cb
          /\ pc <= K /\ b \in Nat /\ nb \in Nat /\ dl \in Nat /\ mg \in Nat /\ cb \in Nat
          /\ K \in Nat /\ hc \in Nat /\ pc \in Nat /\ dd \in Nat
      BY <1>1, <1>10, <1>12, <1>14, <1>17, <1>18, <1>25, <2>3 DEF b
    <3> HIDE DEF mg, hc, pc, dd, nb, cb, dl
    <3>2. 8 * b + hc + 7 <= 8 * dd
      BY <3>1
    <3> QED
      BY <3>2 DEF hc, dd
  <2>6. call'.nbytes = b /\ call'.misc.dest_len = call.misc.dest_len /\ priv'.cache = h.w.cache
    BY <1>19, <1>20
  <2> QED
    BY <2>5, <2>6
<1>27. RoomInv'
  <2>1. ASSUME ModestIn(job, codes'), job.caller = "cli" PROVE Len(tta') <= ttabuf_len
    <3>1. b <= call.misc.dest_len
      <4>1. 8 * b + Len(h.w.cache) + 7 <= 8 * call.misc.dest_len
        BY <1>19, <1>20, <1>26, <2>1
      <4> DEFINE hc == Len(h.w.cache)
                 dd == call.misc.dest_len
      <4>2. b \in Nat /\ hc \in Nat /\ dd \in Nat /\ 8 * b + hc + 7 <= 8 * dd
        BY <1>10, <1>18, <1>25, <4>1 DEF b
      <4> HIDE DEF hc, dd
      <4>3. b <= dd
        BY <4>2
      <4> QED
        BY <4>3 DEF dd
    <3>2. Len(tta') = user.nbytes_tta_total + b
      <4>1. Len(tta') = Len(tta) + dl /\ Len(tta) = user.nbytes_tta_total + call.nbytes
        BY <1>7, <1>13, <1>18, <1>19
      <4>2. b = call.nbytes + dl
        BY DEF b
      <4> DEFINE x == Len(tta)
                 y == Len(tta')
                 z == user.nbytes_tta_total
                 v == call.nbytes
                 u == dl
      <4>3. y = x + u /\ x = z + v /\ b = v + u /\ u \in Nat /\ v \in Nat /\ z \in Nat
        BY <1>10, <1>11, <1>18, <4>1, <4>2
      <4> HIDE DEF x, y, z, v, u
      <4>4. y = z + b
        BY <4>3
      <4> QED
        BY <4>4 DEF y, z
    <3>3. user.nbytes_tta_total + call.misc.dest_len = ttabuf_len
      BY <1>9, <2>1
    <3> QED
      BY <1>10, <1>11, <1>18, <3>1, <3>2, <3>3
  <2> QED
    BY <1>2, <1>26, <2>1 DEF RoomInv
<1>28. GrowthInv(g + 1)'
  <2>1. ASSUME ~BurstIn(job, g + 1)
        PROVE  b + MarginOf(job) <= call.misc.dest_len + TTABUF_LEN_DEFAULT * n
    <3> DEFINE D == TTABUF_LEN_DEFAULT * n
               mg == MarginOf(job)
               hc == Len(h.w.cache)
               pc == Len(priv.cache)
               dd == call.misc.dest_len
               nb == call.nbytes
    <3>1. ~(Len(CodesBits(CodedOf(job)[g + 1].codes)) + 39 + KMax > 8 * (TTABUF_LEN_DEFAULT * job.nchan))
      <4>1. g \in Nat
        BY <1>12 DEF JobNumbers
      <4> QED
        BY <2>1, <4>1, BurstNext
    <3>2. ~(cb + 39 + KMax > 8 * D)
      BY <1>17, <3>1
    <3>3. D \in Nat
      BY <1>12, BufferAssumption
    <3>4. /\ b = nb + dl /\ nb <= dd - mg /\ 8 * dl + hc = pc + cb
          /\ pc <= K /\ b \in Nat /\ nb \in Nat /\ dl \in Nat /\ mg \in Nat /\ cb \in Nat
          /\ K \in Nat /\ hc \in Nat /\ pc \in Nat /\ dd \in Nat /\ K = 39 + KMax
      BY <1>1, <1>10, <1>12, <1>14, <1>17, <1>18, <1>25 DEF b
    <3> HIDE DEF D, mg, hc, pc, dd, nb, cb, dl
    <3>5. cb + K <= 8 * D
      BY <3>2, <3>3, <3>4, WordAssumption
    <3>6. b + mg <= dd + D
      BY <3>3, <3>4, <3>5
    <3> QED
      BY <3>6 DEF D, mg, dd
  <2>2. ASSUME job.caller = "cli", ~BurstIn(job, g + 1)
        PROVE  /\ call'.nbytes + MarginOf(job) <= call'.misc.dest_len + TTABUF_LEN_DEFAULT * job.nchan
               /\ call' # Idle'
    BY <1>20, <2>1, <2>2 DEF Idle
  <2> QED
    BY <1>2, <1>4, <2>2 DEF GrowthInv
<1>29. BaseInv'
  BY <1>1, <1>2, <1>4, <1>6, <1>21 DEF BaseInv
<1>30. EncInv(g + 1)'
  <2>1. /\ out' = <<>> /\ ~damaged' /\ pad' = 0 /\ priv' \in Privs(job', 39 + KMax)
        /\ tta' \in Seq(Byte) /\ Len(tta') = Taken' /\ user'.crc = tta' /\ Done' = (g + 1) * job'.nchan
    BY <1>1, <1>2, <1>7, <1>17, <1>18, <1>19, <1>21, <1>22 DEF K
  <2>2. EncodedTo(job', g + 1, priv', tta', codes')
    BY <1>2, <1>17, <1>19
  <2>3. codes' = AllCodes(CodedOf(job'), g + 1)
    BY <2>2 DEF EncodedTo
  <2>4. ~user'.fini /\ status' = "OK" /\ call' # Idle' /\ Active'
    BY <1>1, <1>6, <1>8, <1>20, <1>21 DEF Active, Idle
  <2>5. ttabuf_len' \in Nat /\ stage' # "failed"
    BY <1>2, <1>4, <1>7
  <2>6. EncCallOK(job', call', user', ttabuf_len')
    BY <1>2, <1>24
  <2> QED
    BY <1>27, <1>28, <2>1, <2>2, <2>3, <2>4, <2>5, <2>6 DEF EncInv
<1> QED
  BY <1>2, <1>4, <1>15, <1>29, <1>30 DEF IInv

-----------------------------------------------------------------------------
(* A call of the encoder returns *)

\* What Counted leaves, with the checksum and the end marked before or after.
CountedTo(u, a, b, v) ==
  /\ v \in Users /\ v.ncalls_codec > 0 /\ v.crc = u.crc
  /\ v.ni32_total = u.ni32_total + a /\ v.nbytes_tta_total = u.nbytes_tta_total + b

\* The totals after a call.
LEMMA CountedIs ==
  ASSUME NEW u \in Users, NEW a \in Nat, NEW b \in Nat
  PROVE  CountedTo(u, a, b, Counted(u, a, b))
<1> DEFINE k == IF u.ncalls_codec = NCALLS_MAX THEN u.ncalls_codec ELSE u.ncalls_codec + 1
           s == u.ni32_total + a
           t == u.nbytes_tta_total + b
           v == Counted(u, a, b)
<1>1. u \in [ncalls_codec : 0..NCALLS_MAX, crc : Seq(Byte), fini : BOOLEAN, ni32 : Nat,
             ni32_total : Nat, nbytes_tta : Nat, nbytes_tta_total : Nat]
  BY DEF Users
<1>2. k \in 0..NCALLS_MAX /\ k > 0 /\ s \in Nat /\ t \in Nat
  BY <1>1, CallsAssumption
<1> HIDE DEF k, s, t
<1>3. v = [u EXCEPT !.ncalls_codec = k, !.ni32 = a, !.ni32_total = s, !.nbytes_tta = b,
                    !.nbytes_tta_total = t]
  BY <1>1 DEF Counted, k, s, t
<1> HIDE DEF v
<1>4. v \in Users /\ v.ncalls_codec = k /\ v.crc = u.crc
      /\ v.ni32_total = s /\ v.nbytes_tta_total = t
  BY <1>1, <1>2, <1>3 DEF Users
<1>5. CountedTo(u, a, b, v)
  BY <1>2, <1>4 DEF s, t, CountedTo
<1> QED
  BY <1>5 DEF v

\* A call of the encoder returns.
LEMMA EncodeReturns ==
  ASSUME IInv, EncReturn, UNCHANGED <<callerVars, ttabuf_len>>
  PROVE  IInv'
<1> DEFINE n == job.nchan
           m == GroupsOf(job)
           K == 39 + KMax
           done == user.ni32_total + call.ni32 = call.misc.ni32_perframe
           v == IF done THEN rice24_encode_cacheflush(Writer) ELSE Writer
           b == call.nbytes + Len(v.dest)
           u == [user EXCEPT !.crc = v.crc, !.fini = @ \/ done]
<1>1. /\ call.op = "encode" /\ call' = Idle
      /\ priv' = [priv EXCEPT !.cache = v.cache] /\ tta' = tta \o v.dest
      /\ user' = Counted(u, call.ni32, b)
      /\ status' = (IF done THEN "OK_DONE" ELSE "OK_AGAIN")
      /\ pcm' = pcm /\ out' = out /\ codes' = codes
  BY DEF EncReturn
<1>2. /\ job' = job /\ stage' = stage /\ frame' = frame /\ damaged' = damaged /\ pad' = pad
      /\ ttabuf_len' = ttabuf_len
  BY DEF callerVars
<1>3. call # Idle
  BY <1>1 DEF Idle
<1>4. stage = "encode"
  BY <1>1, <1>3, CallStage
<1>5. PICK g \in 0..GroupsOf(job) : EncInv(g)
  BY <1>1, <1>3, CallStage
<1>6. BaseInv /\ job \in Jobs /\ user \in Users /\ pcm = SamplesOf(job) /\ status = "OK"
  BY <1>3 DEF IInv, BaseInv
<1>7. /\ out = <<>> /\ ~damaged /\ pad = 0 /\ priv \in Privs(job, K)
      /\ tta \in Seq(Byte) /\ Len(tta) = Taken /\ user.crc = tta
      /\ codes = AllCodes(CodedOf(job), g) /\ Done = g * n
      /\ EncCallOK(job, call, user, ttabuf_len) /\ (user.fini <=> status = "OK_DONE")
      /\ ttabuf_len \in Nat /\ RoomInv /\ GrowthInv(g)
  BY <1>3, <1>5 DEF EncInv
<1>8. EncodedTo(job, g, priv, tta, codes) /\ ~user.fini
  <2>1. Active
    BY <1>3 DEF Active
  <2> QED
    BY <1>5, <1>6, <1>7, <2>1 DEF EncInv
<1>9. /\ call \in EncCalls(job) /\ Within(job, call, user)
      /\ (job.caller = "cli" => user.nbytes_tta_total + call.misc.dest_len = ttabuf_len)
  BY <1>7 DEF EncCallOK
<1>10. /\ call.ni32 \in Nat /\ call.nbytes \in Nat /\ call.misc.dest_len \in Nat
       /\ call.misc.ni32_perframe = SizeOf(job) /\ call.misc.ni32_target \in Nat
  BY <1>9, EncCallIs
<1>11. user.ni32_total \in Nat /\ user.nbytes_tta_total \in Nat
  BY <1>6 DEF Users
<1>12. JobNumbers(job) /\ MarginOf(job) \in Nat /\ n \in Nat \ {0} /\ m \in Nat /\ SizeOf(job) = m * n
  BY <1>6, JobIs, MarginIs DEF JobNumbers
<1>13. Done = user.ni32_total + call.ni32 /\ Taken = user.nbytes_tta_total + call.nbytes
  BY <1>3 DEF Done, Taken
<1>14. done <=> Done = SizeOf(job)
  BY <1>10, <1>13
<1>15. done => g = m
  <2>1. SUFFICES ASSUME g * n = m * n PROVE g = m
    BY <1>7, <1>12, <1>14
  <2>2. g \in Nat
    BY <1>12
  <2> HIDE DEF n, m
  <2>3. g < m => g * n + n <= m * n
    <3>1. SUFFICES ASSUME g + 1 <= m PROVE g * n + n <= m * n
      BY <1>12, <2>2
    <3>2. (g + 1) * n <= m * n
      BY <1>12, <2>2, <3>1
    <3> QED
      BY <1>12, <2>2, <3>2
  <2>4. g <= m
    BY <1>12 DEF m
  <2> QED
    BY <1>12, <2>1, <2>2, <2>3, <2>4
<1>16. Writer = [cache |-> priv.cache, dest |-> <<>>, crc |-> tta]
  BY <1>7 DEF Writer
<1>17. priv.cache \in Seq(Bit) /\ Len(priv.cache) \in Nat /\ Len(priv.cache) <= K
       /\ priv.codec \in Seq(Channel) /\ Len(priv.codec) = job.nchan
       /\ priv = [cache |-> priv.cache, codec |-> priv.codec]
  BY <1>7, LenProperties DEF Privs
<1>18. /\ v.dest \in Seq(Byte) /\ Len(v.dest) \in Nat /\ v.crc = tta \o v.dest
       /\ 8 * Len(v.dest) <= Len(priv.cache) + 7
       /\ (done => v.cache = <<>> /\ tta \o v.dest = FrameOf(job))
       /\ (~done => v.cache = priv.cache /\ tta \o v.dest = tta /\ Len(v.dest) = 0)
  <2>1. CASE done
    <3> DEFINE w == [cache |-> priv.cache, dest |-> <<>>, crc |-> tta]
               x == rice24_encode_cacheflush(w)
    <3>1. v = x
      BY <1>16, <2>1
    <3>2. priv \in Privs(job, 39 + KMax)
      BY <1>7
    <3>3. /\ x.cache = <<>> /\ x.dest \in Seq(Byte) /\ Len(x.dest) \in Nat
          /\ x.crc = tta \o x.dest
          /\ 8 * Len(x.dest) <= Len(priv.cache) + 7
          /\ EncodedTo(job, GroupsOf(job), priv, tta, codes) => tta \o x.dest = FrameOf(job)
      <4>1. EndedWith(job, priv, tta, codes, x)
        BY <1>6, <1>7, <3>2, EncodeEnds
      <4> HIDE DEF x
      <4> QED
        BY <4>1 DEF EndedWith
    <3>4. EncodedTo(job, GroupsOf(job), priv, tta, codes)
      BY <1>8, <1>15, <2>1
    <3> HIDE DEF v, x
    <3> QED
      BY <2>1, <3>1, <3>3, <3>4
  <2>2. CASE ~done
    <3>1. v.cache = priv.cache /\ v.dest = <<>> /\ v.crc = tta
      BY <1>16, <2>2
    <3>2. <<>> \in Seq(Byte) /\ Len(<<>>) = 0 /\ tta \o <<>> = tta
      BY <1>7, ConcatEmptySeq
    <3> HIDE DEF v
    <3> QED
      BY <1>17, <2>2, <3>1, <3>2
  <2> QED
    BY <2>1, <2>2
<1> HIDE DEF v
<1>19. b \in Nat /\ tta \o v.dest \in Seq(Byte) /\ Len(tta) \in Nat
       /\ Len(tta \o v.dest) = Len(tta) + Len(v.dest)
  <2> DEFINE vd == v.dest
  <2>1. vd \in Seq(Byte) /\ Len(vd) \in Nat /\ Len(tta) \in Nat
    BY <1>7, <1>18, LenProperties
  <2> HIDE DEF vd
  <2>2. tta \o vd \in Seq(Byte) /\ Len(tta \o vd) = Len(tta) + Len(vd)
    BY <1>7, <2>1, ConcatIs
  <2> QED
    BY <1>10, <2>1, <2>2 DEF vd
<1>20. /\ user' \in Users /\ user'.ncalls_codec > 0 /\ user'.crc = tta \o v.dest
       /\ (user'.fini <=> done)
       /\ user'.ni32_total = user.ni32_total + call.ni32
       /\ user'.nbytes_tta_total = user.nbytes_tta_total + b
  <2> DEFINE f == user.fini \/ done
             s == v.crc
             w == user'
  <2>1. s \in Seq(Byte) /\ s = tta \o v.dest /\ b \in Nat
    BY <1>18, <1>19
  <2>2. user \in [ncalls_codec : 0..NCALLS_MAX, crc : Seq(Byte), fini : BOOLEAN, ni32 : Nat,
                  ni32_total : Nat, nbytes_tta : Nat, nbytes_tta_total : Nat]
    BY <1>6 DEF Users
  <2>3. u = [user EXCEPT !.crc = s, !.fini = f]
    BY <2>2
  <2>4. f \in BOOLEAN
    BY <2>2
  <2>5. f <=> done
    BY <1>8
  <2> HIDE DEF u, s, f, w, b
  <2>6. /\ u \in Users /\ u.crc = s /\ u.fini = f
        /\ u.ni32_total = user.ni32_total /\ u.nbytes_tta_total = user.nbytes_tta_total
    BY <2>1, <2>2, <2>3, <2>4 DEF Users
  <2>7. u \in Users /\ b \in Nat /\ w = Counted(u, call.ni32, b)
    BY <1>1, <2>1, <2>6 DEF w
  <2>8. /\ w \in Users /\ w.ncalls_codec > 0 /\ w.crc = u.crc
        /\ w.ni32_total = u.ni32_total + call.ni32
        /\ w.nbytes_tta_total = u.nbytes_tta_total + b
    <3>1. CountedTo(u, call.ni32, b, Counted(u, call.ni32, b))
      BY <1>10, <2>7, CountedIs
    <3>2. CountedTo(u, call.ni32, b, w)
      BY <2>7, <3>1
    <3> QED
      BY <3>2 DEF CountedTo
  <2>9. w.fini = f
    <3>1. u \in [ncalls_codec : 0..NCALLS_MAX, crc : Seq(Byte), fini : BOOLEAN, ni32 : Nat,
                 ni32_total : Nat, nbytes_tta : Nat, nbytes_tta_total : Nat]
      BY <2>6 DEF Users
    <3>2. w.fini = u.fini
      BY <2>7, <3>1 DEF Counted
    <3> QED
      BY <2>6, <3>2
  <2>10. w.fini <=> done
    BY <2>5, <2>9
  <2> QED
    BY <2>1, <2>6, <2>8, <2>10 DEF w
<1>21. /\ priv'.cache = v.cache /\ priv'.codec = priv.codec
       /\ priv' = [cache |-> v.cache, codec |-> priv.codec]
  BY <1>1, <1>17
<1>22. priv' \in Privs(job, K)
  <2>1. v.cache \in Seq(Bit) /\ Len(v.cache) <= K
    <3>1. <<>> \in Seq(Bit) /\ Len(<<>>) <= K
      BY WordAssumption
    <3> QED
      BY <1>17, <1>18, <3>1
  <2> QED
    BY <1>17, <1>21, <2>1 DEF Privs
<1>23. ~done => EncodedTo(job, g, priv', tta', codes')
  <2>1. SUFFICES ASSUME ~done PROVE EncodedTo(job, g, priv', tta', codes')
    OBVIOUS
  <2>2. priv'.cache = priv.cache /\ priv'.codec = priv.codec /\ tta' = tta /\ codes' = codes
    BY <1>1, <1>18, <1>21, <2>1
  <2> QED
    BY <1>8, <2>2 DEF EncodedTo
<1> HIDE DEF done, b
<1>24. Done' = Done /\ Taken' = Len(tta')
  <2>1. Done' = user'.ni32_total + 0 /\ Taken' = user'.nbytes_tta_total + 0
    BY <1>1 DEF Done, Taken, Idle
  <2>2. b = call.nbytes + Len(v.dest)
    BY DEF b
  <2> DEFINE l == Len(v.dest)
             lt == Len(tta)
  <2>3. /\ Len(tta') = lt + l /\ lt = Taken /\ b = call.nbytes + l
        /\ l \in Nat /\ lt \in Nat /\ b \in Nat
    BY <1>1, <1>7, <1>18, <1>19, <2>2 DEF b
  <2> HIDE DEF l, lt
  <2>4. Taken' = Len(tta')
    BY <1>10, <1>11, <1>13, <1>20, <2>1, <2>3
  <2>5. Done' = Done
    BY <1>10, <1>11, <1>13, <1>20, <2>1
  <2> QED
    BY <2>4, <2>5
<1>25. Active'
  BY <1>20 DEF Active
<1>26. Done <= SizeOf(job)
  BY <1>9, <1>10, <1>11, <1>12, <1>13 DEF Within
<1>27. RoomInv'
  <2>1. ASSUME ModestIn(job, codes), job.caller = "cli" PROVE Len(tta') <= ttabuf_len
    <3> DEFINE l == Len(v.dest)
               pc == Len(priv.cache)
               nb == call.nbytes
               dd == call.misc.dest_len
               ut == user.nbytes_tta_total
               lt == Len(tta)
    <3>1. 8 * nb + pc + 7 <= 8 * dd
      BY <1>3, <1>7, <2>1 DEF RoomInv
    <3>2. /\ 8 * l <= pc + 7 /\ l \in Nat /\ pc \in Nat /\ nb \in Nat /\ dd \in Nat /\ ut \in Nat
          /\ lt \in Nat /\ lt = ut + nb /\ ut + dd = ttabuf_len
      BY <1>7, <1>9, <1>10, <1>11, <1>13, <1>17, <1>18, <1>19, <2>1
    <3>3. Len(tta') = lt + l
      BY <1>1, <1>19
    <3> HIDE DEF l, pc, nb, dd, ut, lt
    <3>4. nb + l <= dd
      BY <3>1, <3>2
    <3>5. lt + l <= ttabuf_len
      BY <1>7, <3>2, <3>4
    <3> QED
      BY <3>3, <3>5
  <2>2. call' = Idle'
    BY <1>1 DEF Idle
  <2> QED
    BY <1>1, <1>2, <2>1, <2>2 DEF RoomInv
<1>28. GrowthInv(g)'
  <2>1. ASSUME job.caller = "cli", ~BurstIn(job, g), status' = "OK_AGAIN"
        PROVE  Len(tta') + MarginOf(job) <= ttabuf_len + TTABUF_LEN_DEFAULT * n
    <3> DEFINE D == TTABUF_LEN_DEFAULT * n
    <3>1. call.nbytes + MarginOf(job) <= call.misc.dest_len + D
      BY <1>3, <1>7, <2>1 DEF GrowthInv
    <3>2. ~done
      BY <1>1, <2>1
    <3>3. Len(tta') = user.nbytes_tta_total + call.nbytes
      BY <1>1, <1>7, <1>13, <1>18, <3>2
    <3>4. user.nbytes_tta_total + call.misc.dest_len = ttabuf_len
      BY <1>9, <2>1
    <3>5. D \in Nat
      BY <1>12, BufferAssumption
    <3> HIDE DEF D
    <3>6. Len(tta') + MarginOf(job) <= ttabuf_len + D
      BY <1>10, <1>11, <1>12, <3>1, <3>3, <3>4, <3>5
    <3> QED
      BY <3>6 DEF D
  <2>2. call' = Idle'
    BY <1>1 DEF Idle
  <2>3. status' \in {"OK_AGAIN", "OK_DONE"}
    BY <1>1
  <2> QED
    BY <1>2, <1>4, <2>1, <2>2, <2>3 DEF GrowthInv
<1>29. BaseInv'
  <2>1. call' = Idle'
    BY <1>1 DEF Idle
  <2> QED
    BY <1>1, <1>2, <1>4, <1>6, <1>20, <2>1 DEF BaseInv
<1>30. EncInv(g)'
  <2>1. /\ out' = <<>> /\ ~damaged' /\ pad' = 0 /\ priv' \in Privs(job', 39 + KMax)
        /\ tta' \in Seq(Byte) /\ Len(tta') = Taken' /\ user'.crc = tta' /\ Done' = g * job'.nchan
        /\ codes' = AllCodes(CodedOf(job'), g)
    BY <1>1, <1>2, <1>7, <1>19, <1>20, <1>22, <1>24
  <2>2. (user'.fini <=> status' = "OK_DONE")
    BY <1>1, <1>20
  <2>3. user'.fini => g = GroupsOf(job') /\ tta' = FrameOf(job') /\ priv'.cache = <<>>
    BY <1>1, <1>2, <1>15, <1>18, <1>20, <1>21
  <2>4. ~user'.fini /\ Active' => EncodedTo(job', g, priv', tta', codes')
    BY <1>2, <1>20, <1>23
  <2>5. ttabuf_len' \in Nat /\ stage' # "failed" /\ call' = Idle'
    BY <1>1, <1>2, <1>4, <1>7 DEF Idle
  <2>6. status' # "none" /\ (status' = "OK_AGAIN" => Done' < SizeOf(job') /\ Active')
    <3>1. status' # "none" /\ (status' = "OK_AGAIN" => ~done)
      BY <1>1
    <3>2. ~done => Done < SizeOf(job)
      BY <1>10, <1>11, <1>12, <1>13, <1>14, <1>26
    <3> QED
      BY <1>2, <1>24, <1>25, <3>1, <3>2
  <2> QED
    BY <1>25, <1>27, <1>28, <2>1, <2>2, <2>3, <2>4, <2>5, <2>6 DEF EncInv
<1> QED
  BY <1>2, <1>4, <1>12, <1>29, <1>30 DEF IInv

-----------------------------------------------------------------------------
(* The frame is stored and loaded *)

\* The larger of two numbers.
LEMMA LargerIs ==
  ASSUME NEW a \in Nat, NEW b \in Nat
  PROVE  Max({a, b}) \in Nat /\ a <= Max({a, b}) /\ b <= Max({a, b})
<1> DEFINE T == {a, b}
<1>1. \E x \in T : \A y \in T : x >= y
  <2>1. CASE a >= b
    BY <2>1
  <2>2. CASE ~(a >= b)
    BY <2>2
  <2> QED
    BY <2>1, <2>2
<1>2. Max(T) \in T /\ \A y \in T : Max(T) >= y
  BY <1>1 DEF Max
<1> QED
  BY <1>2

\* The length of the decoder's buffer.
LEMMA BufferIs ==
  ASSUME job \in Jobs, NEW l \in Nat, NEW len, len = decbuf_check_adjust(job.nchan, l)
  PROVE  len \in Nat /\ l + MarginOf(job) <= len /\ len - l \in Nat
<1> DEFINE D == TTABUF_LEN_DEFAULT * job.nchan
<1>1. D \in Nat /\ MarginOf(job) \in Nat
  BY BufferAssumption, JobIs, MarginIs DEF JobNumbers
<1>2. Max({D, l}) \in Nat /\ l <= Max({D, l})
  BY <1>1, LargerIs
<1>3. len = Max({D, l}) + MarginOf(job)
  BY DEF decbuf_check_adjust, margin, MarginOf
<1> HIDE DEF D
<1> QED
  BY <1>1, <1>2, <1>3

\* Damaged bytes are bytes, as many as before.
LEMMA DamagedType ==
  ASSUME NEW s \in Seq(Byte), NEW t \in {s} \cup Damage(s)
  PROVE  t \in Seq(Byte) /\ Len(t) = Len(s)
<1>1. Ones(8) \in Byte /\ Zeros(8) \in Byte
  BY OnesAndZeros DEF Byte
<1> DEFINE n == Len(s)
           o == Ones(8)
           z == Zeros(8)
<1>2. n \in Nat /\ DOMAIN s = 1..n /\ s \in [1..n -> Byte]
  BY LenProperties, ElementOfSeq
<1> HIDE DEF n, o, z
<1>3. o \in Byte /\ z \in Byte
  BY <1>1 DEF o, z
<1>4. t \in [1..n -> Byte]
  <2>1. CASE t = s
    BY <1>2, <2>1
  <2>2. CASE t = [i \in DOMAIN s |-> o]
    BY <1>2, <1>3, <2>2
  <2>3. CASE \E i \in DOMAIN s, b \in {o, z} : t = [s EXCEPT ![i] = b]
    <3>1. PICK i \in DOMAIN s, b \in {o, z} : t = [s EXCEPT ![i] = b]
      BY <2>3
    <3>2. b \in Byte
      BY <1>3
    <3> QED
      BY <1>2, <3>1, <3>2
  <2> QED
    BY <2>1, <2>2, <2>3 DEF Damage, o, z
<1>5. t \in Seq(Byte)
  BY <1>2, <1>4
<1>6. Len(t) = n
  BY <1>2, <1>4, <1>5
<1> QED
  BY <1>5, <1>6 DEF n

\* The frame is written, perhaps damaged, and read.
LEMMA StoreLoad ==
  ASSUME IInv, StoreAndLoad
  PROVE  IInv'
<1> DEFINE L == Len(tta)
           len == decbuf_check_adjust(job.nchan, L)
<1>1. /\ stage = "encode" /\ call = Idle /\ status = "OK_DONE" /\ stage' = "decode"
      /\ frame' = [bytes |-> tta, crc |-> user.crc] /\ ttabuf_len' = len
      /\ user' = LIBTTAr_CODECSTATE_USER_INIT /\ status' = "none"
      /\ priv' = priv /\ call' = call /\ pcm' = pcm /\ out' = out /\ codes' = codes /\ job' = job
      /\ pad' = pad
  BY DEF StoreAndLoad
<1>2. PICK bytes \in {tta} \cup Damage(tta), stale \in {Ones(8), Zeros(8)} :
        /\ damaged' = (bytes # tta)
        /\ tta' = bytes \o [i \in 1..(ttabuf_len' - L) |-> stale]
  BY DEF StoreAndLoad
<1>3. PICK g \in 0..GroupsOf(job) : EncInv(g)
  BY <1>1, EncStage
<1>4. job \in Jobs /\ pcm = SamplesOf(job)
  BY DEF IInv, BaseInv
<1>5. /\ g = GroupsOf(job) /\ tta = FrameOf(job) /\ user.crc = tta /\ tta \in Seq(Byte)
      /\ priv \in Privs(job, 39 + KMax) /\ priv.cache = <<>>
      /\ codes = AllCodes(CodedOf(job), GroupsOf(job)) /\ out = <<>> /\ pad = 0
  BY <1>1, <1>3 DEF EncInv
<1>6. JobNumbers(job) /\ L \in Nat
  BY <1>4, <1>5, JobIs, LenProperties
<1>7. len \in Nat /\ len - L \in Nat
  BY <1>4, <1>6, BufferIs
<1> HIDE DEF len
<1>8. bytes \in Seq(Byte) /\ Len(bytes) = L
  BY <1>5, DamagedType
<1> DEFINE k == len - L
           old == [i \in 1..k |-> stale]
<1>9. stale \in Byte
  BY <1>2, OnesAndZeros DEF Byte
<1> HIDE DEF k, L
<1>10. old \in Seq(Byte) /\ Len(old) = k /\ k \in Nat
  <2>1. k \in Nat /\ old \in [1..k -> Byte]
    BY <1>7, <1>9 DEF k
  <2> QED
    BY <2>1
<1>11. tta' = bytes \o old
  BY <1>1, <1>2 DEF k
<1> HIDE DEF old
<1>12. /\ tta' \in Seq(Byte) /\ Len(tta') = L + k
       /\ \A i \in 1..(L + k) : tta'[i] = IF i <= L THEN bytes[i] ELSE old[i - L]
  BY <1>8, <1>10, <1>11, ConcatIs
<1>13. L + k = ttabuf_len' /\ L <= L + k
  BY <1>1, <1>6, <1>7 DEF k
<1>14. ~damaged' => SubSeq(tta', 1, L) = tta
  <2>1. SUFFICES ASSUME bytes = tta PROVE SubSeq(tta', 1, L) = tta
    BY <1>2
  <2>2. SubSeq(bytes \o old, 1, Len(bytes)) = bytes
    BY <1>8, <1>10, Halves
  <2> QED
    BY <1>8, <1>11, <2>1, <2>2
<1>15. user' \in Users /\ user'.ni32_total = 0 /\ user'.nbytes_tta_total = 0
       /\ user'.ncalls_codec = 0 /\ user'.crc = <<>>
  <2>1. 0 \in 0..NCALLS_MAX
    BY CallsAssumption
  <2>2. <<>> \in Seq(Byte)
    OBVIOUS
  <2> QED
    BY <1>1, <2>1, <2>2 DEF LIBTTAr_CODECSTATE_USER_INIT, Users
<1>16. call' = Idle' /\ call' = Idle
  BY <1>1 DEF Idle
<1>17. Done' = 0 /\ Taken' = 0 /\ ~Active'
  BY <1>15, <1>16 DEF Done, Taken, Active
<1>18. BaseInv'
  BY <1>1, <1>4, <1>15, <1>16 DEF BaseInv
<1>19. priv' \in Privs(job', 7)
  BY <1>1, <1>5 DEF Privs
<1>20. user'.crc = BytesUpTo(tta', Taken')
  <2>1. BytesUpTo(tta', 0) = <<>>
    BY DEF BytesUpTo
  <2> QED
    BY <1>15, <1>17, <2>1
<1>21. out' \in Seq(Int32) /\ Len(out') = 0 * job'.nchan /\ Done' = 0 * job'.nchan
       /\ user'.ni32_total <= SizeOf(job')
  <2>1. 0 * job.nchan = 0 /\ 0 <= SizeOf(job)
    BY <1>6 DEF JobNumbers
  <2>2. out = <<>> /\ <<>> \in Seq(Int32) /\ Len(<<>>) = 0
    BY <1>5
  <2> QED
    BY <1>1, <1>15, <1>17, <2>1, <2>2
<1>22. EndedInv'
  BY <1>1, <1>16, <1>17 DEF EndedInv
<1>23. DecInv(0)'
  <2>1. codes' = AllCodes(CodedOf(job'), GroupsOf(job'))
    BY <1>1, <1>5
  <2>2. frame' = [bytes |-> FrameOf(job'), crc |-> FrameOf(job')]
    BY <1>1, <1>5
  <2>3. tta' \in Seq(Byte) /\ Len(tta') = ttabuf_len'
    BY <1>12, <1>13
  <2>4. ttabuf_len' = decbuf_check_adjust(job.nchan, Len(FrameOf(job)))'
    BY <1>1, <1>5 DEF len, L, decbuf_check_adjust, margin
  <2>5. ~damaged' => SubSeq(tta', 1, Len(FrameOf(job'))) = FrameOf(job')
    BY <1>1, <1>5, <1>14 DEF L
  <2>6. stage' # "end" /\ pad' = 0
    BY <1>1, <1>5
  <2>7. user' = LIBTTAr_CODECSTATE_USER_INIT'
    BY <1>1 DEF LIBTTAr_CODECSTATE_USER_INIT
  <2> QED
    BY <1>16, <1>17, <1>19, <1>20, <1>21, <1>22, <2>1, <2>2, <2>3, <2>4, <2>5, <2>6, <2>7 DEF DecInv
<1>24. 0 \in 0..GroupsOf(job')
  BY <1>1, <1>6 DEF JobNumbers
<1> QED
  BY <1>1, <1>18, <1>23, <1>24 DEF IInv

-----------------------------------------------------------------------------
(* A call of the decoder *)

DecVerdict(misc) == IF BaseCheck(misc) = "OK" THEN DecParamChecks(misc) ELSE BaseCheck(misc)

\* A call that is let in passed all checks.
LEMMA DecVerdictIs ==
  ASSUME NEW misc
  PROVE  /\ DecVerdict(misc) \in Refused \cup {"OK"}
         /\ DecVerdict(misc) = "OK" => BaseCheck(misc) = "OK" /\ DecParamChecks(misc) = "OK"
         /\ DecVerdict(misc) \notin {"none", "OK_AGAIN", "OK_DONE", "FAIL_DECODE"}
BY DEF DecVerdict, BaseCheck, DecParamChecks, Refused

DecStart(misc) == [op |-> "decode", misc |-> misc, ni32 |-> 0, nbytes |-> 0]

\* What DecInv says of the state apart from the call.
LEMMA DecIdle ==
  ASSUME job \in Jobs, user \in Users, NEW g \in 0..GroupsOf(job), DecInv(g), call = Idle,
         stage = "decode"
  PROVE  /\ Done = user.ni32_total /\ Taken = user.nbytes_tta_total
         /\ Active <=> user.ncalls_codec > 0
         /\ user.ni32_total = g * job.nchan /\ user.ni32_total <= SizeOf(job)
         /\ ~Active => g = 0 /\ out = <<>> /\ user.ni32_total = 0 /\ user.nbytes_tta_total = 0
<1>1. JobNumbers(job)
  BY JobIs
<1>2. user.ni32_total \in Nat /\ user.nbytes_tta_total \in Nat
  BY DEF Users
<1>3. Done = user.ni32_total /\ Taken = user.nbytes_tta_total
  BY <1>2 DEF Done, Taken
<1>4. Active <=> user.ncalls_codec > 0
  BY DEF Active
<1>5. /\ out \in Seq(Int32) /\ Len(out) = g * job.nchan /\ Done = g * job.nchan
      /\ user.ni32_total <= SizeOf(job) /\ (~Active => user = LIBTTAr_CODECSTATE_USER_INIT)
  BY DEF DecInv
<1>6. ASSUME ~Active
      PROVE  /\ user.ni32_total = 0 /\ user.nbytes_tta_total = 0 /\ g = 0 /\ out = <<>>
  <2>1. user.ni32_total = 0 /\ user.nbytes_tta_total = 0
    BY <1>5, <1>6 DEF LIBTTAr_CODECSTATE_USER_INIT
  <2>2. out = <<>>
    BY <1>3, <1>5, <2>1, EmptySeq
  <2>3. g = 0
    <3> DEFINE n == job.nchan
    <3>1. g * n = 0
      BY <1>3, <1>5, <2>1
    <3>2. n \in Nat \ {0} /\ GroupsOf(job) \in Nat
      BY <1>1 DEF JobNumbers
    <3>3. g \in Nat
      BY <3>2
    <3> HIDE DEF n
    <3>4. g > 0 => g * n >= n
      BY <3>2, <3>3
    <3> QED
      BY <3>1, <3>2, <3>3, <3>4
  <2> QED
    BY <2>1, <2>2, <2>3
<1> QED
  BY <1>3, <1>4, <1>5, <1>6

\* In the stages of the decoder its invariant holds.
LEMMA DecStage ==
  ASSUME IInv, stage \in {"decode", "end"}
  PROVE  \E g \in 0..GroupsOf(job) : DecInv(g)
BY DEF IInv

\* A call of the decoder, refused or not.
LEMMA DecEnter ==
  ASSUME BaseInv, stage = "decode", call = Idle, status \notin {"OK_DONE", "FAIL_DECODE"},
         NEW g \in 0..GroupsOf(job), DecInv(g),
         NEW misc, misc.nchan = job.nchan,
         DecCall(misc), UNCHANGED <<callerVars, ttabuf_len>>,
         DecVerdict(misc) = "OK" => DecCallOK(job, DecStart(misc), user),
         job.caller = "cli" => DecVerdict(misc) = "OK"
  PROVE  IInv'
<1> DEFINE c == DecStart(misc)
<1>1. /\ job' = job /\ stage' = stage /\ frame' = frame /\ damaged' = damaged /\ pad' = pad
      /\ user' = user /\ pcm' = pcm /\ tta' = tta /\ out' = out /\ codes' = codes
      /\ ttabuf_len' = ttabuf_len
  BY DEF DecCall, Enter, callerVars
<1>2. /\ priv' = (IF BaseCheck(misc) = "OK" /\ user.ncalls_codec = 0
                    THEN state_priv_init(misc.nchan) ELSE priv)
      /\ status' = DecVerdict(misc)
      /\ call' = (IF DecVerdict(misc) = "OK" THEN c ELSE Idle)
  BY DEF DecCall, Enter, DecVerdict, DecStart
<1>3. job \in Jobs /\ user \in Users /\ pcm = SamplesOf(job)
  BY DEF BaseInv
<1>4. /\ Done = user.ni32_total /\ Taken = user.nbytes_tta_total
      /\ Active <=> user.ncalls_codec > 0
      /\ ~Active => g = 0 /\ out = <<>> /\ Taken = 0
  BY <1>3, DecIdle
<1>5. /\ codes = AllCodes(CodedOf(job), GroupsOf(job))
      /\ frame = [bytes |-> FrameOf(job), crc |-> FrameOf(job)]
      /\ tta \in Seq(Byte) /\ Len(tta) = ttabuf_len
      /\ ttabuf_len = decbuf_check_adjust(job.nchan, Len(FrameOf(job)))
      /\ (~damaged => SubSeq(tta, 1, Len(FrameOf(job))) = FrameOf(job))
      /\ priv \in Privs(job, 7) /\ user.crc = BytesUpTo(tta, Taken)
      /\ out \in Seq(Int32) /\ Len(out) = g * job.nchan
      /\ Done = g * job.nchan /\ pad = 0
      /\ user.ni32_total <= SizeOf(job)
      /\ (~Active => user = LIBTTAr_CODECSTATE_USER_INIT)
      /\ (Sound /\ Active => DecodedTo(job, g, priv, tta, Taken, out))
      /\ EndedInv
  BY DEF DecInv
<1>6. c # Idle /\ c.ni32 = 0 /\ c.nbytes = 0 /\ c.misc = misc /\ c.op = "decode"
  BY DEF Idle, DecStart
<1>7. /\ DecVerdict(misc) \in Refused \cup {"OK"}
      /\ DecVerdict(misc) = "OK" => BaseCheck(misc) = "OK"
      /\ DecVerdict(misc) \notin {"none", "OK_AGAIN", "OK_DONE", "FAIL_DECODE"}
  BY DecVerdictIs
<1> HIDE DEF c
<1>8. user.ni32_total \in Nat /\ user.nbytes_tta_total \in Nat /\ user.ncalls_codec \in Nat
  BY <1>3 DEF Users
<1>9. Done' = Done /\ Taken' = Taken
  BY <1>1, <1>2, <1>4, <1>6, <1>8 DEF Done, Taken
<1>10. BaseInv'
  <2>1. call' # Idle' => status' = "OK"
    BY <1>2 DEF Idle
  <2> QED
    BY <1>1, <1>3, <2>1 DEF BaseInv
<1>11. priv' \in Privs(job, 7)
  <2>1. state_priv_init(job.nchan) \in Privs(job, 7)
    BY <1>3, EncodeStarts
  <2> QED
    BY <1>2, <1>5, <2>1
<1>12. Sound' = Sound
  BY <1>1 DEF Sound, Acceptable
<1>13. Sound /\ Active' => DecodedTo(job, g, priv', tta, Taken, out)
  <2>1. CASE Active
    <3>1. priv' = priv
      BY <1>2, <1>4, <1>8, <2>1
    <3> QED
      BY <1>5, <2>1, <3>1
  <2>2. CASE ~Active /\ DecVerdict(misc) = "OK"
    <3>1. priv' = state_priv_init(job.nchan)
      BY <1>2, <1>4, <1>7, <1>8, <2>2
    <3>2. DecodedTo(job, 0, state_priv_init(job.nchan), tta, 0, <<>>)
      BY <1>3, <1>5, DecodeStarts
    <3> QED
      BY <1>4, <2>2, <3>1, <3>2
  <2>3. CASE ~Active /\ DecVerdict(misc) # "OK"
    <3>1. call' = Idle
      BY <1>2, <2>3
    <3>2. ~Active'
      BY <1>1, <1>4, <1>8, <2>3, <3>1 DEF Active, Idle
    <3> QED
      BY <3>2
  <2> QED
    BY <2>1, <2>2, <2>3
<1>14. ~Active' => user' = LIBTTAr_CODECSTATE_USER_INIT'
  <2>1. ~Active' => ~Active
    BY <1>1, <1>4 DEF Active
  <2> QED
    BY <1>1, <1>5, <2>1 DEF LIBTTAr_CODECSTATE_USER_INIT
<1>15. call' = Idle' \/ DecCallOK(job', call', user')
  BY <1>1, <1>2 DEF c, Idle
<1>16. EndedInv'
  <2>1. status' \notin {"none", "OK_AGAIN", "OK_DONE", "FAIL_DECODE"} /\ stage' # "end"
    BY <1>1, <1>2, <1>7
  <2>2. job'.caller = "cli" => call' # Idle'
    BY <1>1, <1>2, <1>6 DEF Idle
  <2> QED
    BY <2>1, <2>2 DEF EndedInv
<1>17. DecInv(g)'
  <2>1. ttabuf_len' = decbuf_check_adjust(job.nchan, Len(FrameOf(job)))'
    BY <1>1, <1>5 DEF decbuf_check_adjust, margin
  <2>2. /\ codes' = AllCodes(CodedOf(job'), GroupsOf(job'))
        /\ frame' = [bytes |-> FrameOf(job'), crc |-> FrameOf(job')]
        /\ tta' \in Seq(Byte) /\ Len(tta') = ttabuf_len'
        /\ (~damaged' => SubSeq(tta', 1, Len(FrameOf(job'))) = FrameOf(job'))
        /\ priv' \in Privs(job', 7) /\ user'.crc = BytesUpTo(tta', Taken')
        /\ out' \in Seq(Int32) /\ Len(out') = g * job'.nchan
        /\ Done' = g * job'.nchan /\ pad' = 0
        /\ user'.ni32_total <= SizeOf(job') /\ stage' # "end"
    BY <1>1, <1>5, <1>9, <1>11
  <2>3. Sound' /\ Active' => DecodedTo(job', g, priv', tta', Taken', out')
    BY <1>1, <1>9, <1>12, <1>13
  <2> QED
    BY <1>14, <1>15, <1>16, <2>1, <2>2, <2>3 DEF DecInv
<1> QED
  BY <1>1, <1>10, <1>17 DEF IInv

-----------------------------------------------------------------------------
\* What a call that is not refused asks for, apart from the margin.
LEMMA DecAccepted ==
  ASSUME job \in Jobs, user \in Users, frame.bytes = FrameOf(job),
         user.ni32_total <= SizeOf(job), NEW d \in Nat, NEW s \in Nat, NEW t \in Nat, NEW b \in Nat,
         DecVerdict(DecMisc(d, s, t, b)) = "OK",
         read_soft_limit(DecMisc(d, s, t, b)) \in Nat,
         read_soft_limit(DecMisc(d, s, t, b)) + MarginOf(job) <= s,
         job.caller = "cli" =>
           /\ user.ncalls_codec = 0 /\ user.ni32_total = 0 /\ user.nbytes_tta_total = 0
           /\ t = SizeOf(job) /\ Len(FrameOf(job)) <= read_soft_limit(DecMisc(d, s, t, b))
  PROVE  DecCallOK(job, DecStart(DecMisc(d, s, t, b)), user)
<1> DEFINE misc == DecMisc(d, s, t, b)
           c == DecStart(misc)
<1>1. BaseCheck(misc) = "OK" /\ DecParamChecks(misc) = "OK"
  BY DecVerdictIs
<1>2. /\ misc = [dest_len |-> d, src_len |-> s, ni32_target |-> t, nbytes_tta_target |-> b,
                 ni32_perframe |-> SizeOf(job), nbytes_tta_perframe |-> Len(FrameOf(job)),
                 samplebytes |-> job.samplebytes, nchan |-> job.nchan, aligned |-> TRUE]
  BY DEF DecMisc, NFlat, SizeOf
<1>3. /\ misc.dest_len = d /\ misc.src_len = s /\ misc.ni32_target = t /\ misc.nbytes_tta_target = b
      /\ misc.ni32_perframe = SizeOf(job) /\ misc.nbytes_tta_perframe = Len(FrameOf(job))
      /\ misc.samplebytes = job.samplebytes /\ misc.nchan = job.nchan
  BY <1>2
<1>4. misc \in [dest_len : Nat, src_len : Nat, ni32_target : Nat, nbytes_tta_target : Nat,
                ni32_perframe : {SizeOf(job)}, nbytes_tta_perframe : {Len(FrameOf(job))},
                samplebytes : {job.samplebytes}, nchan : {job.nchan}, aligned : BOOLEAN]
  BY <1>2
<1> HIDE DEF misc
<1>5. t % job.nchan = 0 /\ ~(t > SizeOf(job) - user.ni32_total)
  BY <1>1, <1>3 DEF DecParamChecks, ExceedsRest
<1>6. JobNumbers(job) /\ user.ni32_total \in Nat /\ SizeOf(job) \in Nat /\ job.nchan \in Nat \ {0}
  BY JobIs DEF Users, JobNumbers
<1>7. c.ni32 = 0 /\ c.nbytes = 0 /\ c.misc = misc /\ c \in DecCalls(job)
  <2>1. c = [op |-> "decode", misc |-> misc, ni32 |-> 0, nbytes |-> 0]
    BY DEF DecStart
  <2> HIDE DEF c
  <2> QED
    BY <1>4, <2>1 DEF DecCalls
<1> HIDE DEF c
<1>8. Within(job, c, user)
  <2>1. Divides(job.nchan, 0)
    <3>1. 0 = job.nchan * 0 /\ 0 \in Int
      BY <1>6
    <3>2. \E p \in Int : 0 = job.nchan * p
      BY <3>1, Zenon
    <3> QED
      BY <1>6, <3>1, <3>2, DividesIs
  <2>2. Divides(job.nchan, t)
    BY <1>5 DEF Divides
  <2>3. 0 <= t /\ user.ni32_total + t <= SizeOf(job)
    BY <1>5, <1>6
  <2> QED
    BY <1>3, <1>7, <2>1, <2>2, <2>3 DEF Within
<1>9. DecCallOK(job, c, user)
  <2>1. read_soft_limit(misc) \in Nat /\ read_soft_limit(misc) + MarginOf(job) <= s
    BY DEF misc
  <2>2. job.caller = "cli" =>
           /\ user.ncalls_codec = 0 /\ user.ni32_total = 0 /\ user.nbytes_tta_total = 0
           /\ t = SizeOf(job) /\ Len(FrameOf(job)) <= read_soft_limit(misc)
    BY DEF misc
  <2> QED
    BY <1>3, <1>7, <1>8, <2>1, <2>2 DEF DecCallOK
<1> QED
  BY <1>9 DEF c, misc

-----------------------------------------------------------------------------
(* The callers of the decoder *)

\* Where the loop of the decoder ends.
LEMMA SoftLimitIs ==
  ASSUME job \in Jobs, NEW d, NEW s \in Nat, NEW t, NEW b \in Nat, b + MarginOf(job) <= s,
         NEW l, l = read_soft_limit(DecMisc(d, s, t, b))
  PROVE  l \in Nat /\ l + MarginOf(job) <= s /\ (l = s - MarginOf(job) \/ l = b)
<1> DEFINE misc == DecMisc(d, s, t, b)
<1>1. /\ misc.src_len = s /\ misc.nbytes_tta_target = b
      /\ misc.samplebytes = job.samplebytes /\ misc.nchan = job.nchan
  BY DEF DecMisc
<1>2. Margin(misc) = MarginOf(job) /\ MarginOf(job) \in Nat
  BY <1>1, MarginIs DEF Margin, MarginOf
<1> HIDE DEF misc
<1>3. l = IF b < MarginOf(job) THEN s - MarginOf(job) ELSE b
  BY <1>1, <1>2 DEF read_soft_limit, misc
<1> QED
  BY <1>2, <1>3

\* dec_frame_decode calls the decoder.
LEMMA FrameCall ==
  ASSUME IInv, dec_frame_decode
  PROVE  IInv'
<1> DEFINE N == SizeOf(job)
           L == Len(FrameOf(job))
           len == ttabuf_len
           misc == DecMisc(N, len, N, L)
<1>1. /\ stage = "decode" /\ job.caller = "cli" /\ call = Idle /\ status = "none"
      /\ DecCall(DecMisc(NFlat, ttabuf_len, NFlat, Len(frame.bytes)))
      /\ UNCHANGED <<callerVars, ttabuf_len>>
  BY DEF dec_frame_decode, Decoding
<1>2. PICK g \in 0..GroupsOf(job) : DecInv(g)
  BY <1>1, DecStage
<1>3. BaseInv /\ job \in Jobs /\ user \in Users
  BY DEF IInv, BaseInv
<1>4. /\ frame.bytes = FrameOf(job) /\ ttabuf_len = decbuf_check_adjust(job.nchan, L)
      /\ EndedInv
  BY <1>2 DEF DecInv
<1>5. ~Active
  BY <1>1, <1>4 DEF EndedInv
<1>6. user.ncalls_codec = 0 /\ user.ni32_total = 0 /\ user.nbytes_tta_total = 0
  BY <1>1, <1>2, <1>3, <1>5, DecIdle DEF Users
<1>7. /\ JobNumbers(job) /\ N \in Nat \ {0} /\ L \in Nat \ {0} /\ MarginOf(job) \in Nat
      /\ MarginOf(job) >= 16 /\ job.nchan \in Nat \ {0}
  BY <1>3, JobIs, JobFrameIs, MarginIs DEF JobNumbers, JobFrame
<1> HIDE DEF N, L
<1>8. len \in Nat /\ L + MarginOf(job) <= len
  BY <1>3, <1>4, <1>7, BufferIs
<1>9. /\ misc.dest_len = N /\ misc.src_len = len /\ misc.ni32_target = N
      /\ misc.nbytes_tta_target = L /\ misc.ni32_perframe = N /\ misc.nbytes_tta_perframe = L
      /\ misc.samplebytes = job.samplebytes /\ misc.nchan = job.nchan /\ misc.aligned = TRUE
  BY <1>4 DEF DecMisc, NFlat, SizeOf, N, L
<1>10. DecCall(misc)
  BY <1>1, <1>4 DEF NFlat, SizeOf, N, L
<1> HIDE DEF misc
<1>11. Divides(job.nchan, N)
  BY <1>3, JobsAssumption DEF Divides, N, SizeOf
<1>12. DecVerdict(misc) = "OK"
  <2>1. BaseCheck(misc) = "OK"
    BY <1>7, <1>9 DEF BaseCheck, JobNumbers
  <2>2. Margin(misc) = MarginOf(job)
    BY <1>9 DEF Margin, MarginOf
  <2>3. 0 \notin {misc.dest_len, misc.src_len, misc.ni32_target, misc.nbytes_tta_target,
                  misc.ni32_perframe, misc.nbytes_tta_perframe, misc.nchan}
    BY <1>7, <1>8, <1>9
  <2>4. misc.ni32_target % misc.nchan = 0
    BY <1>9, <1>11 DEF Divides
  <2>5. ~ \/ misc.ni32_target > misc.dest_len
          \/ ExceedsRest(misc.ni32_target, misc.ni32_perframe, user.ni32_total)
          \/ misc.src_len < Margin(misc)
          \/ misc.src_len < misc.nbytes_tta_target
          \/ misc.nbytes_tta_perframe < user.nbytes_tta_total
          \/ misc.nbytes_tta_target > misc.nbytes_tta_perframe - user.nbytes_tta_total
    BY <1>6, <1>7, <1>8, <1>9, <2>2 DEF ExceedsRest
  <2>6. DecParamChecks(misc) = "OK"
    BY <2>3, <2>4, <2>5, Zenon DEF DecParamChecks
  <2> QED
    BY <2>1, <2>6 DEF DecVerdict
<1> DEFINE l == read_soft_limit(misc)
<1>13. l \in Nat /\ l + MarginOf(job) <= len /\ L <= l
  <2>1. L \in Nat /\ l = read_soft_limit(DecMisc(N, len, N, L))
    BY <1>7 DEF misc
  <2> HIDE DEF l
  <2>2. l \in Nat /\ l + MarginOf(job) <= len /\ (l = len - MarginOf(job) \/ l = L)
    BY <1>3, <1>8, <2>1, SoftLimitIs
  <2> QED
    BY <1>7, <1>8, <2>2
<1>14. DecCallOK(job, DecStart(misc), user)
  <2>1. N \in Nat /\ L \in Nat
    BY <1>7
  <2>2. DecVerdict(DecMisc(N, len, N, L)) = "OK"
    BY <1>12 DEF misc
  <2>3. /\ read_soft_limit(DecMisc(N, len, N, L)) \in Nat
        /\ read_soft_limit(DecMisc(N, len, N, L)) + MarginOf(job) <= len
        /\ L <= read_soft_limit(DecMisc(N, len, N, L))
    BY <1>13 DEF misc
  <2>4. user.ni32_total <= SizeOf(job)
    BY <1>6, <1>7 DEF N
  <2>5. DecCallOK(job, DecStart(DecMisc(N, len, N, L)), user)
    BY <1>3, <1>4, <1>6, <1>8, <2>1, <2>2, <2>3, <2>4, DecAccepted DEF L, N
  <2> QED
    BY <2>5 DEF misc
<1>15. status \notin {"OK_DONE", "FAIL_DECODE"}
  BY <1>1
<1> QED
  BY <1>1, <1>2, <1>3, <1>9, <1>10, <1>12, <1>14, <1>15, DecEnter

\* A call of another user of the library,
LEMMA ApiDecCall ==
  ASSUME IInv, ApiDecode
  PROVE  IInv'
<1> DEFINE L == Len(FrameOf(job))
           left == Len(frame.bytes) - user.nbytes_tta_total
<1>1. PICK n \in Chunks, t \in {1, left} : left > 0 /\ DecCall(DecMisc(n, t + margin, n, t))
  BY DEF ApiDecode
<1> DEFINE s == t + margin
           misc == DecMisc(n, s, n, t)
<1>2. /\ stage = "decode" /\ job.caller = "api" /\ call = Idle
      /\ status \in {"none", "OK_AGAIN"} \cup Refused /\ UNCHANGED <<callerVars, ttabuf_len>>
  BY DEF ApiDecode, Decoding
<1>3. PICK g \in 0..GroupsOf(job) : DecInv(g)
  BY <1>2, DecStage
<1>4. BaseInv /\ job \in Jobs /\ user \in Users
  BY DEF IInv, BaseInv
<1>5. frame.bytes = FrameOf(job) /\ user.ni32_total <= SizeOf(job)
  BY <1>3 DEF DecInv
<1>6. /\ JobNumbers(job) /\ SizeOf(job) \in Nat /\ L \in Nat /\ MarginOf(job) \in Nat
      /\ job.nchan \in Nat /\ user.ni32_total \in Nat /\ user.nbytes_tta_total \in Nat
  BY <1>4, JobIs, JobFrameIs, MarginIs DEF JobNumbers, JobFrame, Users
<1>7. n \in Nat /\ t \in Nat /\ s = t + MarginOf(job) /\ s \in Nat
  <2>1. n = job.nchan \/ n = SizeOf(job) - user.ni32_total
    BY DEF Chunks, NFlat, SizeOf
  <2>2. t \in Nat
    BY <1>1, <1>5, <1>6
  <2>3. margin = MarginOf(job)
    BY DEF margin, MarginOf
  <2> QED
    BY <1>5, <1>6, <2>1, <2>2, <2>3
<1> HIDE DEF s
<1>8. misc.nchan = job.nchan
  BY DEF DecMisc
<1>9. DecCall(misc)
  BY <1>1 DEF s
<1> HIDE DEF misc
<1>10. DecVerdict(misc) = "OK" => DecCallOK(job, DecStart(misc), user)
  <2>1. SUFFICES ASSUME DecVerdict(misc) = "OK" PROVE DecCallOK(job, DecStart(misc), user)
    OBVIOUS
  <2> DEFINE l == read_soft_limit(misc)
  <2>2. l \in Nat /\ l + MarginOf(job) <= s
    <3>1. t + MarginOf(job) <= s /\ l = read_soft_limit(DecMisc(n, s, n, t))
      BY <1>6, <1>7 DEF misc
    <3> HIDE DEF l
    <3> QED
      BY <1>4, <1>7, <3>1, SoftLimitIs
  <2>3. job.caller # "cli"
    BY <1>2
  <2>4. /\ DecVerdict(DecMisc(n, s, n, t)) = "OK" /\ read_soft_limit(DecMisc(n, s, n, t)) \in Nat
        /\ read_soft_limit(DecMisc(n, s, n, t)) + MarginOf(job) <= s
    BY <2>1, <2>2 DEF misc
  <2>5. DecCallOK(job, DecStart(DecMisc(n, s, n, t)), user)
    BY <1>4, <1>5, <1>7, <2>3, <2>4, DecAccepted
  <2> QED
    BY <2>5 DEF misc
<1>11. status \notin {"OK_DONE", "FAIL_DECODE"} /\ job.caller # "cli"
  BY <1>2 DEF Refused
<1> QED
  BY <1>2, <1>3, <1>4, <1>8, <1>9, <1>10, <1>11, DecEnter

\* and one that is refused or cut short.
LEMMA RudeDecCall ==
  ASSUME IInv, RudeDecode
  PROVE  IInv'
<1> DEFINE ok == DecMisc(job.nchan, 1 + margin, job.nchan, 1)
<1>1. PICK misc \in {[ok EXCEPT !.src_len = margin - 1], [ok EXCEPT !.dest_len = @ - 1],
                      [ok EXCEPT !.nbytes_tta_target = Len(frame.bytes) + 1,
                                 !.src_len = Len(frame.bytes) + 1 + margin],
                      [ok EXCEPT !.nbytes_tta_target = 0], [ok EXCEPT !.samplebytes = 0],
                      [ok EXCEPT !.aligned = FALSE]} :
           DecCall(misc)
  BY DEF RudeDecode
<1>2. /\ stage = "decode" /\ job.caller = "api" /\ call = Idle
      /\ status \in {"none", "OK_AGAIN"} /\ UNCHANGED <<callerVars, ttabuf_len>>
  BY DEF RudeDecode, Decoding
<1>3. PICK g \in 0..GroupsOf(job) : DecInv(g)
  BY <1>2, DecStage
<1>4. BaseInv /\ job \in Jobs /\ user \in Users
  BY DEF IInv, BaseInv
<1>5. frame.bytes = FrameOf(job)
  BY <1>3 DEF DecInv
<1>6. /\ JobNumbers(job) /\ Len(frame.bytes) \in Nat /\ MarginOf(job) \in Nat /\ MarginOf(job) >= 16
      /\ job.nchan \in Nat \ {0} /\ user.nbytes_tta_total \in Nat /\ margin = MarginOf(job)
  BY <1>4, <1>5, JobIs, JobFrameIs, MarginIs DEF JobNumbers, JobFrame, Users, margin, MarginOf
<1>7. misc.nchan = job.nchan
  BY <1>1 DEF DecMisc
<1>8. ok = [dest_len |-> job.nchan, src_len |-> 1 + margin, ni32_target |-> job.nchan,
            nbytes_tta_target |-> 1, ni32_perframe |-> NFlat,
            nbytes_tta_perframe |-> Len(frame.bytes), samplebytes |-> job.samplebytes,
            nchan |-> job.nchan, aligned |-> TRUE]
  BY DEF DecMisc
<1> HIDE DEF ok
<1>9. \/ misc.samplebytes \notin 1..3
      \/ misc.aligned = FALSE
      \/ misc.nbytes_tta_target = 0
      \/ misc.ni32_target > misc.dest_len
      \/ /\ misc.samplebytes = job.samplebytes /\ misc.src_len < MarginOf(job)
      \/ misc.nbytes_tta_target > misc.nbytes_tta_perframe - user.nbytes_tta_total
  <2>1. CASE misc = [ok EXCEPT !.src_len = margin - 1]
    BY <1>6, <1>8, <2>1
  <2>2. CASE misc = [ok EXCEPT !.dest_len = @ - 1]
    BY <1>6, <1>8, <2>2
  <2>3. CASE misc = [ok EXCEPT !.nbytes_tta_target = Len(frame.bytes) + 1,
                               !.src_len = Len(frame.bytes) + 1 + margin]
    BY <1>6, <1>8, <2>3
  <2>4. CASE misc = [ok EXCEPT !.nbytes_tta_target = 0]
    BY <1>8, <2>4
  <2>5. CASE misc = [ok EXCEPT !.samplebytes = 0]
    BY <1>8, <2>5
  <2>6. CASE misc = [ok EXCEPT !.aligned = FALSE]
    BY <1>8, <2>6
  <2> QED
    BY <1>1, <2>1, <2>2, <2>3, <2>4, <2>5, <2>6
<1>10. DecVerdict(misc) # "OK"
  <2>1. BaseCheck(misc) = "OK" => misc.samplebytes \in 1..3 /\ misc.aligned
    BY DEF BaseCheck
  <2>2. DecParamChecks(misc) = "OK" =>
          /\ misc.nbytes_tta_target # 0 /\ ~(misc.ni32_target > misc.dest_len)
          /\ ~(misc.src_len < Margin(misc))
          /\ ~(misc.nbytes_tta_target > misc.nbytes_tta_perframe - user.nbytes_tta_total)
    BY DEF DecParamChecks
  <2>3. misc.samplebytes = job.samplebytes => Margin(misc) = MarginOf(job)
    BY <1>7 DEF Margin, MarginOf
  <2> QED
    BY <1>9, <2>1, <2>2, <2>3, DecVerdictIs
<1>11. status \notin {"OK_DONE", "FAIL_DECODE"} /\ job.caller # "cli"
  BY <1>2
<1>12. DecCall(misc)
  BY <1>1
<1> QED
  BY <1>2, <1>3, <1>4, <1>7, <1>10, <1>11, <1>12, DecEnter

-----------------------------------------------------------------------------
(* What is left of a frame, and a call of the decoder that goes on *)

\* The codes behind the g-th group, and their bits.
TailOf(j, g, rs) ==
  /\ rs \in Seq(Code) /\ CodesBits(rs) \in Seq(Bit)
  /\ AllCodes(CodedOf(j), GroupsOf(j)) = AllCodes(CodedOf(j), g) \o rs
  /\ Bits(CodedOf(j), GroupsOf(j)) = Bits(CodedOf(j), g) \o CodesBits(rs)

\* The codes from a group on.
LEMMA TailCodes ==
  ASSUME NEW j \in Jobs, NEW g \in 0..GroupsOf(j)
  PROVE  \E rs \in Seq(Code) : TailOf(j, g, rs)
<1> DEFINE n == j.nchan
           sb == j.samplebytes
           m == GroupsOf(j)
           x == SamplesOf(j)
           F == CodedOf(j)
<1>1. n \in Nat \ {0} /\ m \in Nat /\ CodedWell(sb, n, m, x, F) /\ g \in 0..m
  BY JobIs, JobSamplesIs DEF JobNumbers, JobSamples
<1>2. SoFar(F, n, g) /\ SoFar(F, n, m)
  <2>1. \A h \in 0..m : SoFar(F, n, h)
    BY JobBitsIs DEF JobBits
  <2>2. m \in 0..m
    BY <1>1
  <2> QED
    BY <1>1, <2>1, <2>2
<1> HIDE DEF n, sb, m, x, F
<1>3. Extended(F, g, m)
  <2>1. m \in g..m
    BY <1>1
  <2> QED
    BY <1>1, <2>1, AllExtended
<1>4. PICK rs \in Seq(Code) : AllCodes(F, m) = AllCodes(F, g) \o rs
  BY <1>3 DEF Extended
<1>5. CodesBits(rs) \in Seq(Bit)
  BY CodesBitsType
<1>6. Bits(F, m) = Bits(F, g) \o CodesBits(rs)
  <2> DEFINE a == AllCodes(F, g)
  <2>1. a \in Seq(Code) /\ CodesBits(a) = Bits(F, g) /\ CodesBits(a \o rs) = Bits(F, m)
    BY <1>2, <1>4 DEF SoFar
  <2> HIDE DEF a
  <2>2. CodesBits(a \o rs) = CodesBits(a) \o CodesBits(rs)
    BY <2>1, CodesBitsConcat
  <2> QED
    BY <2>1, <2>2
<1>7. TailOf(j, g, rs)
  BY <1>4, <1>5, <1>6 DEF TailOf, F, m
<1> QED
  BY <1>7, Zenon

\* The bits of a buffer that starts with the frame.
LEMMA SoundBits ==
  ASSUME NEW j \in Jobs, NEW src \in Seq(Byte), Len(FrameOf(j)) <= Len(src),
         SubSeq(src, 1, Len(FrameOf(j))) = FrameOf(j)
  PROVE  \E y \in Seq(Bit) : FlattenSeq(src) = Bits(CodedOf(j), GroupsOf(j)) \o y
<1> DEFINE f == FrameOf(j)
           l == Len(f)
           k == Len(src)
           b == Bits(CodedOf(j), GroupsOf(j))
           rest == SubSeq(src, l + 1, k)
<1>1. f \in Seq(Byte) /\ l \in Nat /\ b \in Seq(Bit) /\ \E z \in Seq(Bit) : FlattenSeq(f) = b \o z
  BY JobFrameIs DEF JobFrame
<1>2. PICK z \in Seq(Bit) : FlattenSeq(f) = b \o z
  BY <1>1
<1>3. k \in Nat /\ l <= k
  BY LenProperties
<1>4. rest \in Seq(Byte)
  <2> HIDE DEF l, k
  <2>1. l + 1 \in Nat \ {0} /\ k \in Int /\ k <= Len(src)
    BY <1>1, <1>3 DEF k
  <2> QED
    BY <2>1, SubSeqIs
<1>5. f \o rest = src
  <2>1. SubSeq(src, 1, l) \o SubSeq(src, l + 1, k) = SubSeq(src, 1, k)
    <3> HIDE DEF l, k
    <3>1. l \in Nat /\ k \in Nat /\ l <= k /\ k <= Len(src)
      BY <1>1, <1>3 DEF k
    <3> QED
      BY <3>1, PrefixJoined
  <2>2. SubSeq(src, 1, k) = src
    OBVIOUS
  <2> QED
    BY <2>1, <2>2
<1> HIDE DEF f, l, k, b, rest
<1>6. FlattenSeq(src) = FlattenSeq(f) \o FlattenSeq(rest)
  <2>1. f \in Seq(Seq(Bit)) /\ rest \in Seq(Seq(Bit))
    BY <1>1, <1>4, ByteIs
  <2> QED
    BY <1>5, <2>1, FlattenConcat
<1> DEFINE fr == FlattenSeq(rest)
<1>7. fr \in Seq(Bit)
  BY <1>4, BytesFlat
<1> HIDE DEF fr
<1>8. (b \o z) \o fr = b \o (z \o fr) /\ z \o fr \in Seq(Bit)
  BY <1>1, <1>7, BitsConcat, ConcatProperties
<1>9. FlattenSeq(src) = b \o (z \o fr)
  BY <1>2, <1>6, <1>8 DEF fr
<1>10. \E y \in Seq(Bit) : FlattenSeq(src) = b \o y
  BY <1>8, <1>9, Zenon
<1> QED
  BY <1>10 DEF b

\* The bits the decoder took are those of the groups and those in its cache.
LEMMA TakenBits ==
  ASSUME NEW j \in Jobs, NEW g \in 0..GroupsOf(j), NEW l \in Nat, NEW p \in Privs(j, l),
         NEW src \in Seq(Byte), NEW k \in Nat, NEW s, DecodedTo(j, g, p, src, k, s)
  PROVE  /\ 8 * k = Len(Bits(CodedOf(j), g)) + Len(p.cache)
         /\ Len(Bits(CodedOf(j), g)) \in Nat /\ Len(p.cache) \in Nat
<1> DEFINE b == Bits(CodedOf(j), g)
           c == p.cache
           e == Len(src)
           t == SubSeq(src, k + 1, e)
           ft == FlattenSeq(t)
<1>1. b \in Seq(Bit)
  <2>1. SoFar(CodedOf(j), j.nchan, g)
    BY JobBitsIs DEF JobBits
  <2> QED
    BY <2>1 DEF SoFar
<1>2. c \in Seq(Bit)
  BY DEF Privs
<1>3. e \in Nat /\ k <= e
  BY LenProperties DEF DecodedTo
<1>4. t \in Seq(Byte) /\ Len(t) = e - k
  <2> DEFINE a == k + 1
  <2>1. a \in Nat \ {0} /\ e \in Int /\ e <= Len(src)
    BY <1>3
  <2> HIDE DEF a, e
  <2>2. SubSeq(src, a, e) \in Seq(Byte) /\ Len(SubSeq(src, a, e)) = (IF a <= e THEN e - a + 1 ELSE 0)
    BY <2>1, SubSeqIs
  <2>3. (IF a <= e THEN e - a + 1 ELSE 0) = e - k
    BY <1>3 DEF a
  <2> QED
    BY <2>2, <2>3 DEF a
<1>5. b \o (c \o ft) = FlattenSeq(src)
  BY DEF DecodedTo
<1>6. Len(FlattenSeq(src)) = 8 * e
  BY BytesFlat
<1> HIDE DEF t
<1>7. ft \in Seq(Bit) /\ Len(ft) = 8 * (e - k)
  BY <1>4, BytesFlat
<1> HIDE DEF b, c, e, ft
<1>8. /\ Len(b \o (c \o ft)) = Len(b) + (Len(c) + Len(ft))
      /\ Len(b) \in Nat /\ Len(c) \in Nat
  <2>1. c \o ft \in Seq(Bit) /\ Len(c \o ft) = Len(c) + Len(ft)
    BY <1>2, <1>7, ConcatProperties
  <2> DEFINE d == c \o ft
  <2> HIDE DEF d
  <2>2. d \in Seq(Bit) /\ Len(d) = Len(c) + Len(ft)
    BY <2>1 DEF d
  <2>3. Len(b \o d) = Len(b) + Len(d)
    BY <1>1, <2>2, ConcatProperties
  <2> QED
    BY <1>1, <1>2, <2>2, <2>3, LenProperties DEF d
<1> DEFINE lb == Len(b)
           lc == Len(c)
           lf == Len(ft)
<1>9. lb + (lc + lf) = 8 * e /\ lf = 8 * (e - k) /\ lb \in Nat /\ lc \in Nat
  BY <1>5, <1>6, <1>7, <1>8
<1> HIDE DEF lb, lc, lf
<1>10. 8 * k = lb + lc
  BY <1>3, <1>9
<1> QED
  BY <1>9, <1>10 DEF lb, lc, b, c

-----------------------------------------------------------------------------
(* A call of the decoder goes on *)

\* The fields of a call of the decoder.
LEMMA DecCallIs ==
  ASSUME NEW j, NEW c \in DecCalls(j)
  PROVE  /\ c.op = "decode" /\ c.ni32 \in Nat /\ c.nbytes \in Nat
         /\ c.misc.src_len \in Nat /\ c.misc.ni32_target \in Nat
         /\ c.misc.ni32_perframe = SizeOf(j) /\ c.misc.nbytes_tta_perframe = Len(FrameOf(j))
         /\ c.misc.samplebytes = j.samplebytes /\ c.misc.nchan = j.nchan /\ c # Idle
BY DEF DecCalls, Idle

\* A sound frame is in the buffer, and all its codes are acceptable.
LEMMA SoundIs ==
  ASSUME BaseInv, NEW g, DecInv(g), Sound
  PROVE  /\ AcceptableIn(job, AllCodes(CodedOf(job), GroupsOf(job)))
         /\ \E y \in Seq(Bit) : FlattenSeq(tta) = Bits(CodedOf(job), GroupsOf(job)) \o y
<1>1. job \in Jobs
  BY DEF BaseInv
<1>2. /\ codes = AllCodes(CodedOf(job), GroupsOf(job)) /\ tta \in Seq(Byte) /\ Len(tta) = ttabuf_len
      /\ ttabuf_len = decbuf_check_adjust(job.nchan, Len(FrameOf(job)))
      /\ SubSeq(tta, 1, Len(FrameOf(job))) = FrameOf(job)
  BY DEF DecInv, Sound
<1>3. AcceptableIn(job, AllCodes(CodedOf(job), GroupsOf(job)))
  BY <1>2 DEF Sound, Acceptable, AcceptableIn
<1>4. Len(FrameOf(job)) <= Len(tta)
  <2>1. Len(FrameOf(job)) \in Nat /\ MarginOf(job) \in Nat
    BY <1>1, JobFrameIs, MarginIs DEF JobFrame
  <2>2. ttabuf_len \in Nat /\ Len(FrameOf(job)) + MarginOf(job) <= ttabuf_len
    BY <1>1, <1>2, <2>1, BufferIs
  <2> QED
    BY <1>2, <2>1, <2>2
<1>5. \E y \in Seq(Bit) : FlattenSeq(tta) = Bits(CodedOf(job), GroupsOf(job)) \o y
  BY <1>1, <1>2, <1>4, SoundBits
<1> QED
  BY <1>3, <1>5

\* The decoder decodes a group.
LEMMA DecodesOn ==
  ASSUME IInv, DecStep, UNCHANGED <<callerVars, ttabuf_len>>
  PROVE  IInv'
<1> DEFINE n == job.nchan
           sb == job.samplebytes
           k == Taken
           r == [cache |-> priv.cache, src |-> tta, crc |-> BytesUpTo(tta, Taken), nbytes |-> Taken]
           h == DecodeGroup(priv.codec, r, sb)
           a == call.ni32 + n
           b == h.r.nbytes - user.nbytes_tta_total
           q == [cache |-> h.r.cache, codec |-> h.codec]
<1>1. /\ call.op = "decode" /\ call.ni32 < call.misc.ni32_target
      /\ call.nbytes <= read_soft_limit(call.misc)
      /\ DecGroup(DecodeGroup(priv.codec, Reader, call.misc.samplebytes))
      /\ status' = status /\ pcm' = pcm /\ tta' = tta /\ codes' = codes
  BY DEF DecStep, Looping
<1>2. /\ job' = job /\ stage' = stage /\ frame' = frame /\ damaged' = damaged /\ pad' = pad
      /\ ttabuf_len' = ttabuf_len
  BY DEF callerVars
<1>3. call # Idle
  BY <1>1 DEF Idle
<1>4. stage = "decode"
  BY <1>1, <1>3, CallStage
<1>5. PICK g \in 0..GroupsOf(job) : DecInv(g)
  BY <1>1, <1>3, CallStage
<1>6. BaseInv /\ job \in Jobs /\ user \in Users /\ pcm = SamplesOf(job) /\ status = "OK"
  BY <1>3 DEF IInv, BaseInv
<1>7. /\ codes = AllCodes(CodedOf(job), GroupsOf(job))
      /\ frame = [bytes |-> FrameOf(job), crc |-> FrameOf(job)]
      /\ tta \in Seq(Byte) /\ Len(tta) = ttabuf_len
      /\ ttabuf_len = decbuf_check_adjust(job.nchan, Len(FrameOf(job)))
      /\ (~damaged => SubSeq(tta, 1, Len(FrameOf(job))) = FrameOf(job))
      /\ priv \in Privs(job, 7) /\ user.crc = BytesUpTo(tta, Taken)
      /\ out \in Seq(Int32) /\ Len(out) = g * n
      /\ DecCallOK(job, call, user)
      /\ Done = g * n /\ pad = 0 /\ user.ni32_total <= SizeOf(job)
  BY <1>3, <1>4, <1>5 DEF DecInv
<1>8. Sound => DecodedTo(job, g, priv, tta, Taken, out)
  BY <1>3, <1>5 DEF DecInv, Active
<1>9. /\ call \in DecCalls(job) /\ Within(job, call, user)
      /\ read_soft_limit(call.misc) \in Nat
      /\ read_soft_limit(call.misc) + MarginOf(job) <= call.misc.src_len
      /\ (job.caller = "cli" =>
            /\ user.ncalls_codec = 0 /\ user.ni32_total = 0 /\ user.nbytes_tta_total = 0
            /\ call.misc.ni32_target = SizeOf(job)
            /\ Len(FrameOf(job)) <= read_soft_limit(call.misc))
  BY <1>7 DEF DecCallOK
<1>10. /\ call.ni32 \in Nat /\ call.nbytes \in Nat /\ call.misc.src_len \in Nat
       /\ call.misc.ni32_target \in Nat /\ call.misc.samplebytes = sb /\ call.misc.nchan = n
  BY <1>9, DecCallIs
<1>11. user.ni32_total \in Nat /\ user.nbytes_tta_total \in Nat
  BY <1>6 DEF Users
<1>12. JobNumbers(job) /\ MarginOf(job) \in Nat /\ n \in Nat \ {0}
       /\ n * ValueBytes(sb) \in Nat /\ n * ValueBytes(sb) <= MarginOf(job)
  BY <1>6, JobIs, MarginIs DEF JobNumbers
<1>13. Done = user.ni32_total + call.ni32 /\ Taken = user.nbytes_tta_total + call.nbytes
       /\ Taken \in Nat
  BY <1>3, <1>10, <1>11 DEF Done, Taken
<1>14. Reader = r
  BY <1>7, <1>13 DEF Reader
<1> HIDE DEF k, r, a
<1>15. /\ g < GroupsOf(job) /\ g + 1 \in 0..GroupsOf(job)
       /\ Divides(job.nchan, a) /\ a <= call.misc.ni32_target /\ a \in Nat
       /\ user.ni32_total + a = (g + 1) * job.nchan
  <2>1. user.ni32_total + call.ni32 = g * job.nchan /\ a = call.ni32 + job.nchan
    BY <1>7, <1>13 DEF a
  <2> QED
    BY <1>1, <1>6, <1>9, <1>10, <1>11, <2>1, LoopRoom
<1>16. DecodeReads(job, tta, Taken, h)
  <2> DEFINE t == Taken
  <2>1. t \in Nat /\ r = [cache |-> priv.cache, src |-> tta, crc |-> BytesUpTo(tta, t), nbytes |-> t]
    BY <1>13 DEF r
  <2> HIDE DEF t
  <2>2. DecodeReads(job, tta, t, DecodeGroup(priv.codec, r, job.samplebytes))
    BY <1>6, <1>7, <2>1, DecodeStepReads
  <2> QED
    BY <2>2 DEF t
<1>17. DecGroup(h)
  <2>1. DecodeGroup(priv.codec, Reader, call.misc.samplebytes) = h
    BY <1>10, <1>14
  <2> HIDE DEF h
  <2> QED
    BY <1>1, <2>1
<1>18. Sound => DecodedTo(job, g + 1, q, tta, h.r.nbytes, out \o Correlated(h.x))
  <2>1. SUFFICES ASSUME Sound
                 PROVE  DecodedTo(job, g + 1, q, tta, h.r.nbytes, out \o Correlated(h.x))
    OBVIOUS
  <2>2. AcceptableIn(job, AllCodes(CodedOf(job), GroupsOf(job)))
    BY <1>5, <1>6, <2>1, SoundIs
  <2>3. PICK y \in Seq(Bit) : FlattenSeq(tta) = Bits(CodedOf(job), GroupsOf(job)) \o y
    BY <1>5, <1>6, <2>1, SoundIs
  <2> DEFINE t == Taken
  <2>4. t \in Nat /\ r = [cache |-> priv.cache, src |-> tta, crc |-> BytesUpTo(tta, t), nbytes |-> t]
    BY <1>13 DEF r
  <2>5. DecodedTo(job, g, priv, tta, t, out)
    BY <1>8, <2>1
  <2>6. h = DecodeGroup(priv.codec, r, job.samplebytes)
    OBVIOUS
  <2> HIDE DEF t, h
  <2>7. DecodedTo(job, g + 1, [cache |-> h.r.cache, codec |-> h.codec], tta, h.r.nbytes,
                  out \o Correlated(h.x))
    BY <1>6, <1>7, <1>15, <2>2, <2>3, <2>4, <2>5, <2>6, DecodeStepBack
  <2> QED
    BY <2>7
<1> HIDE DEF h
<1>19. /\ q \in Privs(job, 7) /\ h.r.crc = BytesUpTo(tta, h.r.nbytes)
       /\ h.r.nbytes \in Taken..(Taken + n * ValueBytes(sb))
       /\ Correlated(h.x) \in Seq(Int32) /\ Len(Correlated(h.x)) = n
  BY <1>16 DEF DecodeReads
<1> DEFINE x == Correlated(h.x)
           nb == h.r.nbytes
<1>20. /\ priv' = q /\ user' = [user EXCEPT !.crc = h.r.crc] /\ out' = out \o x
       /\ call' = [call EXCEPT !.ni32 = @ + call.misc.nchan, !.nbytes = h.r.nbytes - user.nbytes_tta_total]
  BY <1>17 DEF DecGroup
<1> HIDE DEF x
<1>21. nb \in Nat /\ b \in Nat /\ user.nbytes_tta_total + b = nb /\ b <= call.misc.src_len
  <2> DEFINE v == n * ValueBytes(sb)
             t == Taken
             ut == user.nbytes_tta_total
             l == read_soft_limit(call.misc)
             sl == call.misc.src_len
             mg == MarginOf(job)
             cn == call.nbytes
  <2>1. /\ nb \in t..(t + v) /\ v \in Nat /\ t = ut + cn /\ ut \in Nat /\ cn \in Nat /\ cn <= l
        /\ l \in Nat /\ l + mg <= sl /\ v <= mg /\ mg \in Nat /\ sl \in Nat /\ b = nb - ut
    BY <1>1, <1>9, <1>10, <1>11, <1>12, <1>13, <1>19
  <2> HIDE DEF v, t, ut, l, sl, mg, cn, nb, b
  <2>2. nb \in Nat /\ b \in Nat /\ ut + b = nb /\ b <= sl
    BY <2>1
  <2> QED
    BY <2>2 DEF ut, sl
<1> HIDE DEF b, nb
<1>22. /\ call' \in DecCalls(job) /\ call'.ni32 = a /\ call'.nbytes = b /\ call'.misc = call.misc
       /\ call' # Idle
  <2> DEFINE d == call'
  <2>1. call \in [op : {"decode"},
           misc : [dest_len : Nat, src_len : Nat, ni32_target : Nat, nbytes_tta_target : Nat,
           ni32_perframe : {SizeOf(job)}, nbytes_tta_perframe : {Len(FrameOf(job))},
           samplebytes : {job.samplebytes}, nchan : {job.nchan}, aligned : BOOLEAN],
           ni32 : Nat, nbytes : Nat]
    BY <1>9 DEF DecCalls
  <2>2. d = [call EXCEPT !.ni32 = call.ni32 + call.misc.nchan,
                         !.nbytes = h.r.nbytes - user.nbytes_tta_total]
    BY <1>20, <2>1
  <2>3. d = [call EXCEPT !.ni32 = a, !.nbytes = b]
    BY <1>10, <2>2 DEF a, b
  <2> HIDE DEF d
  <2>4. a \in Nat /\ b \in Nat
    BY <1>15, <1>21
  <2>5. d \in DecCalls(job) /\ d.ni32 = a /\ d.nbytes = b /\ d.misc = call.misc /\ d # Idle
    BY <1>9, <2>3, <2>4 DEF DecCalls, Idle
  <2> QED
    BY <2>5 DEF d
<1>23. /\ user' \in Users /\ user'.crc = BytesUpTo(tta, nb) /\ user'.fini = user.fini
       /\ user'.ncalls_codec = user.ncalls_codec
       /\ user'.ni32_total = user.ni32_total /\ user'.nbytes_tta_total = user.nbytes_tta_total
  <2> DEFINE s == BytesUpTo(tta, nb)
  <2>1. s \in Seq(Byte) /\ user' = [user EXCEPT !.crc = s]
    BY <1>7, <1>19, <1>20, <1>21, WriteAll DEF nb
  <2> HIDE DEF s
  <2>2. /\ user' \in Users /\ user'.crc = s /\ user'.fini = user.fini
        /\ user'.ncalls_codec = user.ncalls_codec
        /\ user'.ni32_total = user.ni32_total /\ user'.nbytes_tta_total = user.nbytes_tta_total
    BY <1>6, <2>1, UserCrc
  <2> QED
    BY <2>2 DEF s
<1>24. Done' = (g + 1) * n /\ Taken' = nb
  <2>1. call' # Idle'
    BY <1>22 DEF Idle
  <2>2. Done' = user'.ni32_total + call'.ni32 /\ Taken' = user'.nbytes_tta_total + call'.nbytes
    BY <2>1 DEF Done, Taken
  <2> QED
    BY <1>15, <1>21, <1>22, <1>23, <2>2
<1>25. out' \in Seq(Int32) /\ Len(out') = (g + 1) * n
  <2>1. x \in Seq(Int32) /\ Len(x) = n
    BY <1>19 DEF x
  <2>2. out \o x \in Seq(Int32) /\ Len(out \o x) = Len(out) + Len(x)
    BY <1>7, <2>1, ConcatIs
  <2>3. g * n + n = (g + 1) * n
    BY <1>12
  <2> QED
    BY <1>7, <1>20, <2>1, <2>2, <2>3
<1>26. DecCallOK(job, call', user')
  <2> DEFINE c == call'
             u == user'
  <2>1. /\ c.ni32 = a /\ c.nbytes = b /\ c.misc = call.misc /\ c \in DecCalls(job)
        /\ u.ni32_total = user.ni32_total /\ u.ncalls_codec = user.ncalls_codec
        /\ u.nbytes_tta_total = user.nbytes_tta_total
    BY <1>22, <1>23
  <2> HIDE DEF c, u
  <2>2. Within(job, c, u)
    BY <1>9, <1>15, <2>1 DEF Within
  <2>3. DecCallOK(job, c, u)
    BY <1>9, <1>21, <2>1, <2>2 DEF DecCallOK
  <2> QED
    BY <2>3 DEF c, u
<1>27. BaseInv'
  BY <1>1, <1>2, <1>4, <1>6, <1>23 DEF BaseInv
<1>28. Sound' = Sound
  BY <1>1, <1>2 DEF Sound, Acceptable
<1>29. EndedInv'
  <2>1. status' = "OK" /\ stage' = "decode" /\ call' # Idle'
    BY <1>1, <1>2, <1>4, <1>6, <1>22 DEF Idle
  <2> QED
    BY <2>1 DEF EndedInv
<1>30. DecInv(g + 1)'
  <2>1. ttabuf_len' = decbuf_check_adjust(job.nchan, Len(FrameOf(job)))'
    BY <1>2, <1>7 DEF decbuf_check_adjust, margin
  <2>2. /\ codes' = AllCodes(CodedOf(job'), GroupsOf(job'))
        /\ frame' = [bytes |-> FrameOf(job'), crc |-> FrameOf(job')]
        /\ tta' \in Seq(Byte) /\ Len(tta') = ttabuf_len'
        /\ (~damaged' => SubSeq(tta', 1, Len(FrameOf(job'))) = FrameOf(job'))
        /\ priv' \in Privs(job', 7) /\ user'.crc = BytesUpTo(tta', Taken')
        /\ out' \in Seq(Int32) /\ Len(out') = (g + 1) * job'.nchan
        /\ Done' = (g + 1) * job'.nchan /\ pad' = 0
        /\ user'.ni32_total <= SizeOf(job') /\ stage' # "end"
    BY <1>1, <1>2, <1>4, <1>7, <1>19, <1>20, <1>23, <1>24, <1>25
  <2>3. Sound' => DecodedTo(job', g + 1, priv', tta', Taken', out')
    BY <1>1, <1>2, <1>18, <1>20, <1>24, <1>28 DEF nb, x
  <2>4. Active' /\ call' # Idle'
    BY <1>22 DEF Active, Idle
  <2>5. DecCallOK(job', call', user')
    BY <1>2, <1>26
  <2> QED
    BY <1>29, <2>1, <2>2, <2>3, <2>4, <2>5 DEF DecInv
<1> QED
  BY <1>2, <1>4, <1>15, <1>27, <1>30 DEF IInv

-----------------------------------------------------------------------------
(* A call of the decoder returns *)

\* The decoder never took more bytes of a sound frame than the frame has, and
\* behind its last group it took them all.
LEMMA TakenOfFrame ==
  ASSUME NEW j \in Jobs, NEW g \in 0..GroupsOf(j), NEW p \in Privs(j, 7),
         NEW src \in Seq(Byte), NEW k \in Nat, NEW s, DecodedTo(j, g, p, src, k, s)
  PROVE  /\ k <= Len(FrameOf(j))
         /\ g = GroupsOf(j) => k = Len(FrameOf(j))
<1> DEFINE L == Len(FrameOf(j))
           m == GroupsOf(j)
           bg == Bits(CodedOf(j), g)
           bm == Bits(CodedOf(j), m)
           lg == Len(bg)
           lm == Len(bm)
           lc == Len(p.cache)
<1>1. L \in Nat /\ bm \in Seq(Bit) /\ 8 * L \in lm..(lm + 7) /\ lm \in Nat
  BY JobFrameIs, LenProperties DEF JobFrame
<1>2. 8 * k = lg + lc /\ lg \in Nat /\ lc \in Nat
  BY TakenBits
<1>3. lc <= 7
  BY DEF Privs
<1>4. bg \in Seq(Bit)
  <2>1. SoFar(CodedOf(j), j.nchan, g)
    BY JobBitsIs DEF JobBits
  <2> QED
    BY <2>1 DEF SoFar
<1>5. lg <= lm
  <2>1. PICK rs \in Seq(Code) : TailOf(j, g, rs)
    BY TailCodes
  <2> DEFINE t == CodesBits(rs)
  <2>2. t \in Seq(Bit) /\ bm = bg \o t
    BY <2>1 DEF TailOf
  <2> HIDE DEF t, bm, bg
  <2>3. Len(bm) = Len(bg) + Len(t) /\ Len(t) \in Nat
    BY <1>4, <2>2, ConcatProperties, LenProperties
  <2> QED
    BY <1>1, <1>2, <2>3
<1>6. g = m => lg = lm
  OBVIOUS
<1> HIDE DEF L, m, bg, bm, lg, lm, lc
<1>7. k <= L
  BY <1>1, <1>2, <1>3, <1>5
<1>8. g = m => k = L
  BY <1>1, <1>2, <1>3, <1>6
<1> QED
  BY <1>7, <1>8 DEF L, m

\* A call of the decoder returns.
LEMMA DecodeReturns ==
  ASSUME IInv, DecReturn, UNCHANGED <<callerVars, ttabuf_len>>
  PROVE  IInv'
<1> DEFINE n == job.nchan
           m == GroupsOf(job)
           N == SizeOf(job)
           L == Len(FrameOf(job))
           u == Counted(user, call.ni32, call.nbytes)
           ended == \/ u.ni32_total >= call.misc.ni32_perframe
                    \/ u.nbytes_tta_total >= call.misc.nbytes_tta_perframe
           exact == /\ u.ni32_total = call.misc.ni32_perframe
                    /\ u.nbytes_tta_total = call.misc.nbytes_tta_perframe
<1>1. /\ call.op = "decode" /\ call' = Idle
      /\ user' = [u EXCEPT !.fini = @ \/ ended]
      /\ status' = (IF ~ended THEN "OK_AGAIN" ELSE IF exact THEN "OK_DONE" ELSE "FAIL_DECODE")
      /\ priv' = priv /\ pcm' = pcm /\ tta' = tta /\ out' = out /\ codes' = codes
  BY DEF DecReturn
<1>2. ~(call.ni32 < call.misc.ni32_target /\ call.nbytes <= read_soft_limit(call.misc))
  BY DEF DecReturn, Looping
<1>3. /\ job' = job /\ stage' = stage /\ frame' = frame /\ damaged' = damaged /\ pad' = pad
      /\ ttabuf_len' = ttabuf_len
  BY DEF callerVars
<1>4. call # Idle
  BY <1>1 DEF Idle
<1>5. stage = "decode"
  BY <1>1, <1>4, CallStage
<1>6. PICK g \in 0..GroupsOf(job) : DecInv(g)
  BY <1>1, <1>4, CallStage
<1>7. BaseInv /\ job \in Jobs /\ user \in Users /\ pcm = SamplesOf(job) /\ status = "OK"
  BY <1>4 DEF IInv, BaseInv
<1>8. /\ codes = AllCodes(CodedOf(job), GroupsOf(job))
      /\ frame = [bytes |-> FrameOf(job), crc |-> FrameOf(job)]
      /\ tta \in Seq(Byte) /\ Len(tta) = ttabuf_len
      /\ ttabuf_len = decbuf_check_adjust(job.nchan, Len(FrameOf(job)))
      /\ (~damaged => SubSeq(tta, 1, Len(FrameOf(job))) = FrameOf(job))
      /\ priv \in Privs(job, 7) /\ user.crc = BytesUpTo(tta, Taken)
      /\ out \in Seq(Int32) /\ Len(out) = g * n
      /\ DecCallOK(job, call, user)
      /\ Done = g * n /\ pad = 0
  BY <1>4, <1>5, <1>6 DEF DecInv
<1>9. Sound => DecodedTo(job, g, priv, tta, Taken, out)
  BY <1>4, <1>6 DEF DecInv, Active
<1>10. /\ call \in DecCalls(job) /\ Within(job, call, user)
       /\ read_soft_limit(call.misc) \in Nat
       /\ (job.caller = "cli" =>
             /\ user.ncalls_codec = 0 /\ user.ni32_total = 0 /\ user.nbytes_tta_total = 0
             /\ call.misc.ni32_target = SizeOf(job)
             /\ Len(FrameOf(job)) <= read_soft_limit(call.misc))
  BY <1>8 DEF DecCallOK
<1>11. /\ call.ni32 \in Nat /\ call.nbytes \in Nat /\ call.misc.ni32_target \in Nat
       /\ call.misc.ni32_perframe = N /\ call.misc.nbytes_tta_perframe = L
  BY <1>10, DecCallIs
<1>12. user.ni32_total \in Nat /\ user.nbytes_tta_total \in Nat
  BY <1>7 DEF Users
<1>13. JobNumbers(job) /\ n \in Nat \ {0} /\ m \in Nat /\ N \in Nat /\ N = m * n /\ L \in Nat
  BY <1>7, JobIs, JobFrameIs DEF JobNumbers, JobFrame
<1>14. Done = user.ni32_total + call.ni32 /\ Taken = user.nbytes_tta_total + call.nbytes
       /\ Done \in Nat /\ Taken \in Nat
  BY <1>4, <1>11, <1>12 DEF Done, Taken
<1>15. CountedTo(user, call.ni32, call.nbytes, u)
  BY <1>7, <1>11, CountedIs
<1>16. /\ u \in Users /\ u.ncalls_codec > 0 /\ u.crc = user.crc
       /\ u.ni32_total = Done /\ u.nbytes_tta_total = Taken
  BY <1>14, <1>15 DEF CountedTo
<1>17. (ended <=> Done >= N \/ Taken >= L) /\ (exact <=> Done = N /\ Taken = L)
  BY <1>11, <1>16
<1> DEFINE v == user'
<1>18. /\ v \in Users /\ v.ncalls_codec > 0 /\ v.crc = user.crc
       /\ v.ni32_total = Done /\ v.nbytes_tta_total = Taken
       /\ (ended => v.fini)
  <2> DEFINE f == u.fini \/ ended
  <2> HIDE DEF u, ended
  <2>1. u \in [ncalls_codec : 0..NCALLS_MAX, crc : Seq(Byte), fini : BOOLEAN, ni32 : Nat,
               ni32_total : Nat, nbytes_tta : Nat, nbytes_tta_total : Nat]
    BY <1>16 DEF Users
  <2>2. f \in BOOLEAN
    BY <2>1, Zenon
  <2>3. v = [u EXCEPT !.fini = f]
    BY <1>1, <2>1
  <2>4. ended => f
    OBVIOUS
  <2> HIDE DEF f, v
  <2>5. /\ v \in Users /\ v.fini = f /\ v.ncalls_codec = u.ncalls_codec /\ v.crc = u.crc
        /\ v.ni32_total = u.ni32_total /\ v.nbytes_tta_total = u.nbytes_tta_total
    BY <2>1, <2>2, <2>3 DEF Users
  <2> QED
    BY <1>16, <2>4, <2>5
<1>19. Done <= N
  <2>1. call.ni32 <= call.misc.ni32_target /\ user.ni32_total + call.misc.ni32_target <= N
    BY <1>10 DEF Within
  <2> QED
    BY <1>11, <1>12, <1>13, <1>14, <2>1
<1> HIDE DEF u, ended, exact, v, N, L
<1>20. job.caller = "cli" => Done >= N \/ Taken > L
  <2>1. SUFFICES ASSUME job.caller = "cli" PROVE Done >= N \/ Taken > L
    OBVIOUS
  <2>2. /\ user.ni32_total = 0 /\ user.nbytes_tta_total = 0 /\ call.misc.ni32_target = N
        /\ L <= read_soft_limit(call.misc)
    BY <1>10, <2>1 DEF N, L
  <2>3. Done = call.ni32 /\ Taken = call.nbytes
    BY <1>11, <1>14, <2>2
  <2>4. read_soft_limit(call.misc) \in Nat
    BY <1>10
  <2> DEFINE l == read_soft_limit(call.misc)
  <2> HIDE DEF l
  <2>5. ~(Done < N /\ Taken <= l) /\ L <= l /\ l \in Nat
    BY <1>2, <2>2, <2>3, <2>4 DEF l
  <2> QED
    BY <1>13, <1>14, <2>5
<1>21. Sound /\ job.caller = "cli" => exact
  <2>1. SUFFICES ASSUME Sound, job.caller = "cli" PROVE exact
    OBVIOUS
  <2>2. Taken <= L /\ (g = m => Taken = L)
    <3> DEFINE k == Taken
    <3>1. k \in Nat /\ DecodedTo(job, g, priv, tta, k, out)
      BY <1>9, <1>14, <2>1
    <3> HIDE DEF k
    <3>2. k <= Len(FrameOf(job)) /\ (g = GroupsOf(job) => k = Len(FrameOf(job)))
      BY <1>7, <1>8, <3>1, TakenOfFrame
    <3> QED
      BY <3>2 DEF k, L
  <2>3. Done = N
    BY <1>13, <1>14, <1>19, <1>20, <2>1, <2>2
  <2>4. g = m
    <3>1. g * n = m * n /\ g \in Nat /\ g <= m
      BY <1>8, <1>13, <2>3
    <3> HIDE DEF n, m
    <3>2. g < m => g * n + n <= m * n
      <4>1. SUFFICES ASSUME g + 1 <= m PROVE g * n + n <= m * n
        BY <1>13, <3>1
      <4>2. (g + 1) * n <= m * n
        BY <1>13, <3>1, <4>1
      <4> QED
        BY <1>13, <3>1, <4>2
    <3> QED
      BY <1>13, <3>1, <3>2
  <2> QED
    BY <1>17, <2>2, <2>3, <2>4
<1>22. call' = Idle' /\ call' = Idle
  BY <1>1 DEF Idle
<1>23. Done' = Done /\ Taken' = Taken /\ Active'
  <2>1. Done' = user'.ni32_total + 0 /\ Taken' = user'.nbytes_tta_total + 0
    BY <1>22 DEF Done, Taken
  <2> QED
    BY <1>14, <1>18, <2>1 DEF Active, v
<1>24. BaseInv'
  BY <1>1, <1>3, <1>5, <1>7, <1>18, <1>22 DEF BaseInv, v
<1>25. Sound' = Sound
  BY <1>1, <1>3 DEF Sound, Acceptable
<1>26. EndedInv'
  <2>1. status' \in {"OK_DONE", "FAIL_DECODE", "OK_AGAIN"} /\ user'.ncalls_codec > 0
    BY <1>1, <1>18 DEF v
  <2>2. user'.ni32_total = Done /\ user'.nbytes_tta_total = Taken /\ (ended => user'.fini)
    BY <1>18 DEF v
  <2>3. /\ status' = "OK_DONE" => ended /\ exact
        /\ status' = "FAIL_DECODE" => ended /\ ~exact
        /\ status' = "OK_AGAIN" => ~ended
    BY <1>1
  <2>4. status' = "OK_DONE" =>
          /\ call' = Idle' /\ user'.fini
          /\ user'.ni32_total = SizeOf(job') /\ user'.nbytes_tta_total = Len(FrameOf(job'))
          /\ Len(out') = SizeOf(job')
    BY <1>1, <1>3, <1>8, <1>17, <1>22, <2>2, <2>3 DEF N, L
  <2>5. status' = "FAIL_DECODE" =>
          /\ call' = Idle'
          /\ \/ user'.ni32_total # SizeOf(job')
             \/ user'.nbytes_tta_total # Len(FrameOf(job'))
          /\ \/ user'.ni32_total >= SizeOf(job')
             \/ user'.nbytes_tta_total >= Len(FrameOf(job'))
    BY <1>3, <1>17, <1>22, <2>2, <2>3 DEF N, L
  <2>6. job'.caller = "cli" =>
          /\ Sound' => status' # "FAIL_DECODE"
          /\ status' \in {"none", "OK_DONE", "FAIL_DECODE"}
    <3>1. job.caller = "cli" => ended
      BY <1>13, <1>14, <1>17, <1>20
    <3> QED
      BY <1>3, <1>21, <1>25, <2>1, <2>3, <3>1
  <2>7. status' # "none" /\ stage' # "end"
    BY <1>3, <1>5, <2>1
  <2> QED
    BY <2>1, <2>4, <2>5, <2>6, <2>7 DEF EndedInv
<1>27. DecInv(g)'
  <2>1. ttabuf_len' = decbuf_check_adjust(job.nchan, Len(FrameOf(job)))'
    BY <1>3, <1>8 DEF decbuf_check_adjust, margin
  <2>2. /\ codes' = AllCodes(CodedOf(job'), GroupsOf(job'))
        /\ frame' = [bytes |-> FrameOf(job'), crc |-> FrameOf(job')]
        /\ tta' \in Seq(Byte) /\ Len(tta') = ttabuf_len'
        /\ (~damaged' => SubSeq(tta', 1, Len(FrameOf(job'))) = FrameOf(job'))
        /\ priv' \in Privs(job', 7) /\ user'.crc = BytesUpTo(tta', Taken')
        /\ out' \in Seq(Int32) /\ Len(out') = g * job'.nchan
        /\ Done' = g * job'.nchan /\ pad' = 0
        /\ user'.ni32_total <= SizeOf(job') /\ stage' # "end"
    BY <1>1, <1>3, <1>5, <1>8, <1>18, <1>19, <1>23 DEF v, N
  <2>3. Sound' => DecodedTo(job', g, priv', tta', Taken', out')
    BY <1>1, <1>3, <1>9, <1>23, <1>25
  <2> QED
    BY <1>22, <1>23, <1>26, <2>1, <2>2, <2>3 DEF DecInv
<1> QED
  BY <1>3, <1>5, <1>13, <1>24, <1>27 DEF IInv

-----------------------------------------------------------------------------
(* The end of the frame, and every step *)

\* dec_frame_decode fills up what is missing.
LEMMA FrameReturns ==
  ASSUME IInv, dec_frame_decode_returns
  PROVE  IInv'
<1>1. /\ stage = "decode" /\ job.caller = "cli" /\ call = Idle /\ status # "none" /\ stage' = "end"
      /\ IF status = "FAIL_DECODE"
           THEN pad' = NFlat - user.ni32_total /\ user' = [user EXCEPT !.ni32_total = NFlat]
           ELSE pad' = pad /\ user' = user
      /\ priv' = priv /\ call' = call /\ status' = status /\ pcm' = pcm /\ tta' = tta /\ out' = out
      /\ codes' = codes /\ job' = job /\ ttabuf_len' = ttabuf_len /\ frame' = frame
      /\ damaged' = damaged
  BY DEF dec_frame_decode_returns, Decoding
<1>2. PICK g \in 0..GroupsOf(job) : DecInv(g)
  BY <1>1, DecStage
<1>3. BaseInv /\ job \in Jobs /\ user \in Users
  BY DEF IInv, BaseInv
<1>4. /\ Done = user.ni32_total /\ Taken = user.nbytes_tta_total
      /\ Active <=> user.ncalls_codec > 0
  BY <1>1, <1>2, <1>3, DecIdle
<1>5. /\ codes = AllCodes(CodedOf(job), GroupsOf(job))
      /\ frame = [bytes |-> FrameOf(job), crc |-> FrameOf(job)]
      /\ tta \in Seq(Byte) /\ Len(tta) = ttabuf_len
      /\ ttabuf_len = decbuf_check_adjust(job.nchan, Len(FrameOf(job)))
      /\ (~damaged => SubSeq(tta, 1, Len(FrameOf(job))) = FrameOf(job))
      /\ priv \in Privs(job, 7) /\ user.crc = BytesUpTo(tta, Taken)
      /\ out \in Seq(Int32) /\ Len(out) = g * job.nchan
      /\ Done = g * job.nchan /\ pad = 0
      /\ user.ni32_total <= SizeOf(job)
      /\ (Sound /\ Active => DecodedTo(job, g, priv, tta, Taken, out))
      /\ EndedInv
  BY <1>1, <1>2 DEF DecInv
<1>6. status \in {"OK_DONE", "FAIL_DECODE"} /\ user.ncalls_codec > 0 /\ Active
  BY <1>1, <1>4, <1>5 DEF EndedInv
<1>7. SizeOf(job) \in Nat /\ NFlat = SizeOf(job) /\ user.ni32_total \in Nat
  BY <1>3, JobIs DEF JobNumbers, NFlat, SizeOf, Users
<1>8. /\ user' \in Users /\ user'.crc = user.crc /\ user'.ncalls_codec = user.ncalls_codec
      /\ user'.nbytes_tta_total = user.nbytes_tta_total
      /\ user'.ni32_total <= SizeOf(job) /\ user'.fini = user.fini
      /\ (status # "FAIL_DECODE" => user'.ni32_total = user.ni32_total)
  <2> DEFINE N == NFlat
             v == user'
  <2>1. N \in Nat /\ N = SizeOf(job) /\ (v = [user EXCEPT !.ni32_total = N] \/ v = user)
        /\ (status # "FAIL_DECODE" => v = user)
    BY <1>1, <1>7
  <2> HIDE DEF N, v
  <2>2. user \in [ncalls_codec : 0..NCALLS_MAX, crc : Seq(Byte), fini : BOOLEAN, ni32 : Nat,
                  ni32_total : Nat, nbytes_tta : Nat, nbytes_tta_total : Nat]
    BY <1>3 DEF Users
  <2>3. CASE v = [user EXCEPT !.ni32_total = N]
    <3>1. /\ v \in Users /\ v.crc = user.crc /\ v.ncalls_codec = user.ncalls_codec
          /\ v.nbytes_tta_total = user.nbytes_tta_total
          /\ v.ni32_total <= SizeOf(job) /\ v.fini = user.fini
      BY <1>7, <2>1, <2>2, <2>3 DEF Users
    <3> QED
      BY <2>1, <3>1 DEF v
  <2>4. CASE v = user
    BY <1>3, <1>5, <2>4 DEF v
  <2> QED
    BY <2>1, <2>3, <2>4
<1>9. Len(out') + pad' = SizeOf(job)
  <2>1. CASE status = "FAIL_DECODE"
    <3>1. pad' = SizeOf(job) - user.ni32_total /\ Len(out') = user.ni32_total
      BY <1>1, <1>4, <1>5, <1>7, <2>1
    <3> QED
      BY <1>7, <3>1
  <2>2. CASE status # "FAIL_DECODE"
    <3>1. pad' = 0 /\ Len(out') = user.ni32_total
      BY <1>1, <1>4, <1>5, <2>2
    <3>2. user.ni32_total = SizeOf(job)
      BY <1>5, <1>6, <2>2 DEF EndedInv
    <3> QED
      BY <1>7, <3>1, <3>2
  <2> QED
    BY <2>1, <2>2
<1>10. call' = Idle' /\ call' = Idle
  BY <1>1 DEF Idle
<1>11. Taken' = Taken /\ Active'
  <2>1. user.nbytes_tta_total \in Nat
    BY <1>3 DEF Users
  <2>2. Taken' = user'.nbytes_tta_total + 0
    BY <1>10 DEF Taken
  <2> QED
    BY <1>4, <1>6, <1>8, <2>1, <2>2 DEF Active
<1>12. Sound' = Sound
  BY <1>1 DEF Sound, Acceptable
<1>13. BaseInv'
  BY <1>1, <1>3, <1>8, <1>10 DEF BaseInv
<1>14. EndedInv'
  <2>1. status' = "OK_DONE" =>
          /\ call' = Idle' /\ user'.fini
          /\ user'.ni32_total = SizeOf(job') /\ user'.nbytes_tta_total = Len(FrameOf(job'))
          /\ Len(out') = SizeOf(job')
    BY <1>1, <1>5, <1>8, <1>10 DEF EndedInv
  <2>2. stage' = "end" /\ job'.caller = "cli" /\ status' = status /\ user'.ncalls_codec > 0
    BY <1>1, <1>6, <1>8
  <2>3. Sound => status # "FAIL_DECODE"
    BY <1>1, <1>5 DEF EndedInv
  <2> QED
    BY <1>6, <1>12, <2>1, <2>2, <2>3 DEF EndedInv
<1>15. DecInv(g)'
  <2>1. ttabuf_len' = decbuf_check_adjust(job.nchan, Len(FrameOf(job)))'
    BY <1>1, <1>5 DEF decbuf_check_adjust, margin
  <2>2. /\ codes' = AllCodes(CodedOf(job'), GroupsOf(job'))
        /\ frame' = [bytes |-> FrameOf(job'), crc |-> FrameOf(job')]
        /\ tta' \in Seq(Byte) /\ Len(tta') = ttabuf_len'
        /\ (~damaged' => SubSeq(tta', 1, Len(FrameOf(job'))) = FrameOf(job'))
        /\ priv' \in Privs(job', 7) /\ user'.crc = BytesUpTo(tta', Taken')
        /\ out' \in Seq(Int32) /\ Len(out') = g * job'.nchan
        /\ user'.ni32_total <= SizeOf(job')
    BY <1>1, <1>5, <1>8, <1>11
  <2>3. Sound' => DecodedTo(job', g, priv', tta', Taken', out')
    BY <1>1, <1>5, <1>6, <1>11, <1>12
  <2>4. stage' = "end" /\ job'.caller = "cli" /\ Len(out') + pad' = SizeOf(job')
    BY <1>1, <1>9
  <2> QED
    BY <1>10, <1>11, <1>14, <2>1, <2>2, <2>3, <2>4 DEF DecInv
<1> QED
  BY <1>1, <1>13, <1>15 DEF IInv

\* Another user stops at the verdict.
LEMMA CallerEnds ==
  ASSUME IInv, ApiDecoded
  PROVE  IInv'
<1>1. /\ stage = "decode" /\ job.caller = "api" /\ call = Idle /\ status \in {"OK_DONE", "FAIL_DECODE"}
      /\ stage' = "end"
      /\ priv' = priv /\ user' = user /\ call' = call /\ status' = status /\ pcm' = pcm /\ tta' = tta
      /\ out' = out /\ codes' = codes /\ job' = job /\ ttabuf_len' = ttabuf_len /\ frame' = frame
      /\ damaged' = damaged /\ pad' = pad
  BY DEF ApiDecoded, Decoding, codecVars
<1>2. PICK g \in 0..GroupsOf(job) : DecInv(g)
  BY <1>1, DecStage
<1>3. Done' = Done /\ Taken' = Taken /\ (Active' <=> Active) /\ (Sound' <=> Sound) /\ call' = Idle'
  BY <1>1 DEF Done, Taken, Active, Sound, Acceptable, Idle
<1>4. BaseInv'
  BY <1>1, <1>3 DEF IInv, BaseInv
<1>5. EndedInv
  BY <1>2 DEF DecInv
<1>6. EndedInv'
  BY <1>1, <1>3, <1>5 DEF EndedInv
<1>7. DecInv(g)'
  <2>1. ttabuf_len' = decbuf_check_adjust(job.nchan, Len(FrameOf(job)))'
    BY <1>1, <1>2 DEF DecInv, decbuf_check_adjust, margin
  <2>2. job'.caller # "cli" /\ pad' = 0
    BY <1>1, <1>2 DEF DecInv
  <2> QED
    BY <1>1, <1>2, <1>3, <1>6, <2>1, <2>2 DEF DecInv, LIBTTAr_CODECSTATE_USER_INIT
<1> QED
  BY <1>1, <1>4, <1>7 DEF IInv

\* A step that changes nothing.
LEMMA Unchanged ==
  ASSUME IInv, UNCHANGED vars
  PROVE  IInv'
<1>1. /\ priv' = priv /\ user' = user /\ call' = call /\ status' = status /\ pcm' = pcm /\ tta' = tta
      /\ out' = out /\ codes' = codes /\ job' = job /\ stage' = stage /\ ttabuf_len' = ttabuf_len
      /\ frame' = frame /\ damaged' = damaged /\ pad' = pad
  BY DEF vars, codecVars
<1>2. Done' = Done /\ Taken' = Taken /\ (Active' <=> Active) /\ (Sound' <=> Sound)
  BY <1>1 DEF Done, Taken, Active, Sound, Acceptable, Idle
<1>3. BaseInv'
  BY <1>1 DEF IInv, BaseInv, Idle
<1>4. CASE stage \in {"encode", "failed"}
  <2>1. PICK g \in 0..GroupsOf(job) : EncInv(g)
    BY <1>4, EncStage
  <2>2. RoomInv' /\ GrowthInv(g)'
    BY <1>1, <2>1 DEF EncInv, RoomInv, GrowthInv, Idle
  <2>3. EncInv(g)'
    BY <1>1, <1>2, <2>1, <2>2 DEF EncInv, Idle, LIBTTAr_CODECSTATE_USER_INIT, encbuf_init, margin
  <2> QED
    BY <1>1, <1>3, <1>4, <2>3 DEF IInv
<1>5. CASE stage \notin {"encode", "failed"}
  <2>1. PICK g \in 0..GroupsOf(job) : DecInv(g)
    BY <1>5 DEF IInv
  <2>2. EndedInv'
    BY <1>1, <1>2, <2>1 DEF DecInv, EndedInv, Idle
  <2>3. DecInv(g)'
    BY <1>1, <1>2, <2>1, <2>2 DEF DecInv, Idle, LIBTTAr_CODECSTATE_USER_INIT, decbuf_check_adjust, margin
  <2> QED
    BY <1>1, <1>3, <1>5, <2>3 DEF IInv
<1> QED
  BY <1>4, <1>5

\* Every step keeps the invariant.
LEMMA NextInv ==
  ASSUME IInv, Next
  PROVE  IInv'
<1>1. ASSUME Working PROVE IInv'
  <2>1. CodecStep /\ UNCHANGED <<callerVars, ttabuf_len>>
    BY <1>1 DEF Working
  <2> QED
    BY <2>1, EncodesOn, EncodeReturns, DecodesOn, DecodeReturns DEF CodecStep
<1> QED
  BY <1>1, FirstCall, NextCall, GivesUp, ApiCall, RudeCall, StoreLoad, FrameCall, FrameReturns,
     ApiDecCall, RudeDecCall, CallerEnds DEF Next

\* IInv is an inductive invariant.
THEOREM Inductive == Spec => []IInv
<1>1. Init => IInv
  BY InitInv
<1>2. IInv /\ [Next \/ Stopped]_vars => IInv'
  <2>1. SUFFICES ASSUME IInv, [Next \/ Stopped]_vars PROVE IInv'
    OBVIOUS
  <2>2. CASE Next
    BY <2>1, <2>2, NextInv
  <2>3. CASE UNCHANGED vars
    BY <2>1, <2>3, Unchanged
  <2> QED
    BY <2>1, <2>2, <2>3 DEF Stopped
<1> QED
  BY <1>1, <1>2, PTL DEF Spec

-----------------------------------------------------------------------------
(* What the inductive invariant implies *)

\* The facts about the samples and the state that both halves share.
LEMMA GroupsLeft ==
  ASSUME NEW j \in Jobs, NEW g \in 0..GroupsOf(j)
  PROVE  /\ g * j.nchan \in Nat /\ g * j.nchan <= SizeOf(j)
         /\ g * j.nchan = SizeOf(j) => g = GroupsOf(j)
<1> DEFINE n == j.nchan
           m == GroupsOf(j)
<1>1. n \in Nat \ {0} /\ m \in Nat /\ SizeOf(j) = m * n /\ g \in 0..m
  BY JobIs DEF JobNumbers
<1> HIDE DEF n, m
<1>2. g * n <= m * n /\ g * n \in Nat
  BY <1>1
<1>3. g < m => g * n + n <= m * n
  <2>1. SUFFICES ASSUME g + 1 <= m PROVE g * n + n <= m * n
    BY <1>1
  <2>2. (g + 1) * n <= m * n
    BY <1>1, <2>1
  <2> QED
    BY <1>1, <2>2
<1>4. g * n = m * n => g = m
  BY <1>1, <1>2, <1>3
<1> QED
  BY <1>1, <1>2, <1>4 DEF n, m

\* The user state and the input.
LEMMA UserIs ==
  ASSUME BaseInv
  PROVE  /\ job \in Jobs /\ pcm = SamplesOf(job) /\ user \in Users
         /\ user.ncalls_codec \in 0..NCALLS_MAX /\ user.ncalls_codec \in Nat
         /\ user.ni32_total \in Nat /\ user.nbytes_tta_total \in Nat /\ NFlat = SizeOf(job)
         /\ Len(pcm) = SizeOf(job) /\ pcm \in Seq(Int32) /\ SizeOf(job) \in Nat
<1>1. job \in Jobs /\ pcm = SamplesOf(job) /\ user \in Users
  BY DEF BaseInv
<1>2. user.ncalls_codec \in 0..NCALLS_MAX /\ user.ni32_total \in Nat /\ user.nbytes_tta_total \in Nat
  BY <1>1 DEF Users
<1>3. Len(pcm) = SizeOf(job) /\ pcm \in Seq(Int32) /\ SizeOf(job) \in Nat
  BY <1>1, JobSamplesIs, JobIs DEF JobSamples, JobNumbers
<1> QED
  BY <1>1, <1>2, <1>3, CallsAssumption DEF NFlat, SizeOf

\* In either half Done is a multiple of the channels, and no more than a frame.
LEMMA DoneIs ==
  ASSUME BaseInv, NEW g \in 0..GroupsOf(job), EncInv(g)
  PROVE  Done = g * job.nchan /\ Done \in Nat /\ Done <= SizeOf(job) /\ user.ni32_total <= Done
<1>1. Done = g * job.nchan /\ Done \in Nat /\ Done <= SizeOf(job)
  BY UserIs, GroupsLeft DEF EncInv
<1>2. user.ni32_total <= Done
  <2>1. CASE call = Idle
    BY <2>1, UserIs DEF Done
  <2>2. CASE call # Idle
    <3>1. call.ni32 \in Nat
      BY <2>2, EncCallIs DEF EncInv, EncCallOK
    <3> QED
      BY <2>2, <3>1, UserIs DEF Done
  <2> QED
    BY <2>1, <2>2
<1> QED
  BY <1>1, <1>2

\* The private state.
LEMMA PrivIs ==
  ASSUME NEW j, NEW l, NEW p \in Privs(j, l)
  PROVE  /\ p.cache \in Seq(Bit) /\ Len(p.cache) <= l /\ p.codec \in Seq(Channel)
         /\ \A i \in DOMAIN p.codec :
              /\ p.codec[i] \in Channel
              /\ \A k \in 0..1 : p.codec[i].rice.k[k] \in 0..KMax
                                 /\ p.codec[i].rice.sum[k] \in 0..UINT32_MAX
<1>1. p.cache \in Seq(Bit) /\ Len(p.cache) <= l /\ p.codec \in Seq(Channel)
  BY DEF Privs
<1>2. ASSUME NEW i \in DOMAIN p.codec
      PROVE  /\ p.codec[i] \in Channel
             /\ \A k \in 0..1 : p.codec[i].rice.k[k] \in 0..KMax
                                /\ p.codec[i].rice.sum[k] \in 0..UINT32_MAX
  <2> DEFINE c == p.codec
  <2>1. DOMAIN c = 1..Len(c) /\ c \in Seq(Channel)
    BY <1>1
  <2>2. c[i] \in Channel
    BY <2>1, ElementOfSeq
  <2> DEFINE r == c[i].rice
  <2>3. r \in RiceState
    BY <2>2 DEF Channel
  <2> HIDE DEF r
  <2>4. \A k \in 0..1 : r.k[k] \in 0..KMax /\ r.sum[k] \in 0..UINT32_MAX
    BY <2>3 DEF RiceState, UInt32
  <2> QED
    BY <2>2, <2>4 DEF r
<1> QED
  BY <1>1, <1>2

\* The types.
LEMMA TypesHold == ASSUME IInv PROVE TypeOK
<1>1. BaseInv /\ stage \in {"encode", "failed", "decode", "end"}
  BY DEF IInv, BaseInv
<1>2. user.ncalls_codec \in 0..NCALLS_MAX /\ NFlat = SizeOf(job) /\ user.ni32_total \in Nat
      /\ SizeOf(job) \in Nat /\ job \in Jobs
  BY <1>1, UserIs
<1>3. CASE stage \in {"encode", "failed"}
  <2>1. PICK g \in 0..GroupsOf(job) : EncInv(g)
    BY <1>3, EncStage
  <2>2. user.ni32_total \in 0..NFlat
    <3>1. Done \in Nat /\ Done <= SizeOf(job) /\ user.ni32_total <= Done
      BY <1>1, <2>1, DoneIs
    <3> QED
      BY <1>2, <3>1
  <2>3. Len(out) <= NFlat
    <3>1. out = <<>>
      BY <2>1 DEF EncInv
    <3> QED
      BY <1>2, <3>1
  <2>4. priv \in Privs(job, 39 + KMax)
    BY <2>1 DEF EncInv
  <2>5. /\ priv.cache \in Seq(Bit) /\ Len(priv.cache) <= 39 + KMax
        /\ \A i \in DOMAIN priv.codec :
             \A k \in 0..1 : priv.codec[i].rice.k[k] \in 0..KMax
                             /\ priv.codec[i].rice.sum[k] \in 0..UINT32_MAX
    BY <2>4, PrivIs
  <2> QED
    BY <1>1, <1>2, <1>3, <2>2, <2>3, <2>5 DEF TypeOK
<1>4. CASE stage \in {"decode", "end"}
  <2>1. PICK g \in 0..GroupsOf(job) : DecInv(g)
    BY <1>4, DecStage
  <2>2. user.ni32_total \in 0..NFlat
    BY <1>2, <2>1 DEF DecInv
  <2>3. Len(out) <= NFlat
    BY <1>2, <2>1, GroupsLeft DEF DecInv
  <2>4. priv \in Privs(job, 7)
    BY <2>1 DEF DecInv
  <2>5. /\ priv.cache \in Seq(Bit) /\ Len(priv.cache) <= 7
        /\ \A i \in DOMAIN priv.codec :
             \A k \in 0..1 : priv.codec[i].rice.k[k] \in 0..KMax
                             /\ priv.codec[i].rice.sum[k] \in 0..UINT32_MAX
    BY <2>4, PrivIs
  <2> QED
    BY <1>1, <1>2, <1>4, <2>2, <2>3, <2>5 DEF TypeOK
<1> QED
  BY <1>1, <1>3, <1>4

\* The bits written are those of the codes.
LEMMA StreamHolds == ASSUME IInv PROVE StreamHoldsCodes
<1>1. BaseInv /\ job \in Jobs /\ user.ncalls_codec \in Nat
  BY UserIs DEF IInv
<1>2. SUFFICES ASSUME stage = "encode", ~user.fini, user.ncalls_codec + Len(codes) > 0
               PROVE  BitsIn(tta) \o priv.cache = CodesBits(codes)
  BY DEF StreamHoldsCodes, CodesBits
<1>3. PICK g \in 0..GroupsOf(job) : EncInv(g)
  BY <1>2, EncStage
<1>3a. BitsIn(tta) = FlattenSeq(tta)
  <2>1. tta \in Seq(Byte) /\ Len(tta) \in Nat
    BY <1>3, LenProperties DEF EncInv
  <2> QED
    BY <2>1, BytesAreFlat DEF BitsIn
<1>4. Active
  <2>1. SUFFICES ASSUME ~Active PROVE FALSE
    OBVIOUS
  <2>2. call = Idle /\ ~(user.ncalls_codec > 0)
    BY <2>1 DEF Active
  <2>3. codes = <<>>
    BY <1>1, <1>3, <2>1, <2>2, EncIdle DEF BaseInv
  <2>4. Len(codes) = 0
    BY <2>3
  <2> QED
    BY <1>1, <1>2, <2>2, <2>4
<1>5. EncodedTo(job, g, priv, tta, codes)
  BY <1>2, <1>3, <1>4 DEF EncInv
<1>6. SoFar(CodedOf(job), job.nchan, g)
  BY <1>1, JobBitsIs DEF JobBits
<1> QED
  BY <1>3a, <1>5, <1>6 DEF EncodedTo, SoFar

\* The frame coded by one call on an endless buffer is the frame of the job.
LEMMA OneCallIs ==
  ASSUME BaseInv
  PROVE  OneCallFrame = FrameOf(job)
<1> DEFINE m == GroupsOf(job)
           F == CodedOf(job)
           w == F[m].w
<1>1. OneCallFrame
        = rice24_encode_cacheflush(FrameCoded(job.samplebytes, job.nchan, NFlat \div job.nchan,
                                              pcm)[NFlat \div job.nchan].w).dest
  BY DEF OneCallFrame, FrameCoded
<1>2. NFlat \div job.nchan = m /\ pcm = SamplesOf(job) /\ job \in Jobs
  BY UserIs DEF GroupsOf
<1>3. OneCallFrame = rice24_encode_cacheflush(w).dest
  BY <1>1, <1>2 DEF CodedOf
<1>4. w \in Fed(<<>>)
  <2>1. CodedWell(job.samplebytes, job.nchan, m, SamplesOf(job), F) /\ m \in 0..m
    BY <1>2, JobSamplesIs, JobIs DEF JobSamples, JobNumbers
  <2>2. F[m] \in EncGroups(<<>>)
    BY <2>1 DEF CodedWell
  <2> HIDE DEF F, m
  <2> QED
    BY <2>2 DEF EncGroups
<1> HIDE DEF w
<1> DEFINE v == rice24_encode_cacheflush(w)
<1>5. v.dest = w.dest \o FrameBytes(w.cache)
  BY <1>4, FlushIs DEF Flushes
<1>6. w.dest \in Seq(Byte) /\ w.cache \in Seq(Bit)
  BY <1>4, FedIs
<1>7. Bits(F, m) = FlattenSeq(w.dest) \o w.cache
  BY DEF Bits, Written, w
<1>8. FrameBytes(Bits(F, m)) = w.dest \o FrameBytes(w.cache)
  <2> DEFINE b == Bits(F, m)
  <2>1. b = FlattenSeq(w.dest) \o w.cache
    BY <1>7
  <2> HIDE DEF b
  <2> QED
    BY <1>6, <2>1, FlushedBytes DEF b
<1> HIDE DEF v
<1>9. FrameOf(job) = FrameBytes(Bits(F, m))
  BY DEF FrameOf
<1> QED
  BY <1>3, <1>5, <1>8, <1>9 DEF v

\* The frame is the same for every cut of the calls.
LEMMA ChunksMeet == ASSUME IInv PROVE ChunksAgree
<1>1. BaseInv
  BY DEF IInv
<1>2. SUFFICES ASSUME stage = "encode", status = "OK_DONE"
               PROVE  tta = OneCallFrame /\ user.crc = tta /\ user.fini
  BY DEF ChunksAgree
<1>3. PICK g \in 0..GroupsOf(job) : EncInv(g)
  BY <1>2, EncStage
<1>4. user.fini /\ tta = FrameOf(job) /\ user.crc = tta
  BY <1>2, <1>3 DEF EncInv
<1> QED
  BY <1>1, <1>4, OneCallIs

\* Nothing is read or written outside the buffers.
LEMMA BuffersHold == ASSUME IInv PROVE WithinBuffers
<1>1. BaseInv /\ job \in Jobs
  BY UserIs DEF IInv
<1>2. ModestCodes => ModestIn(job, codes)
  BY DEF ModestCodes, ModestIn
<1>3. ASSUME ModestCodes, call.op = "encode"
      PROVE  call.nbytes + (Len(priv.cache) + 7) \div 8 <= call.misc.dest_len
  <2>1. call # Idle
    BY <1>3 DEF Idle
  <2>2. PICK g \in 0..GroupsOf(job) : EncInv(g)
    BY <1>3, <2>1, CallStage
  <2>3. 8 * call.nbytes + Len(priv.cache) + 7 <= 8 * call.misc.dest_len
    BY <1>2, <1>3, <2>1, <2>2 DEF EncInv, RoomInv
  <2>4. call.nbytes \in Nat /\ call.misc.dest_len \in Nat
    BY <2>1, <2>2, EncCallIs DEF EncInv, EncCallOK
  <2> DEFINE c == Len(priv.cache)
             n == call.nbytes
             d == call.misc.dest_len
             q == (c + 7) \div 8
  <2>5. c \in Nat
    BY <2>2, LenProperties DEF EncInv, Privs
  <2>6. n \in Nat /\ d \in Nat /\ 8 * n + c + 7 <= 8 * d
    BY <2>3, <2>4
  <2> HIDE DEF c, n, d
  <2>7. q \in Nat /\ 8 * q <= c + 7
    BY <2>5
  <2> HIDE DEF q
  <2>8. n + q <= d
    BY <2>5, <2>6, <2>7
  <2> QED
    BY <2>8 DEF c, n, d, q
<1>4. ASSUME ModestCodes, job.caller = "cli", stage = "encode" PROVE Len(tta) <= ttabuf_len
  <2>1. PICK g \in 0..GroupsOf(job) : EncInv(g)
    BY <1>4, EncStage
  <2> QED
    BY <1>2, <1>4, <2>1 DEF EncInv, RoomInv
<1>5. ASSUME call.op = "decode" PROVE call.nbytes <= call.misc.src_len
  <2>1. call # Idle
    BY <1>5 DEF Idle
  <2>2. PICK g \in 0..GroupsOf(job) : DecInv(g)
    BY <1>5, <2>1, CallStage
  <2> QED
    BY <2>1, <2>2 DEF DecInv, DecCallOK
<1> QED
  BY <1>3, <1>4, <1>5 DEF WithinBuffers

\* The command line program needs one call per frame.
LEMMA OneCallEnough == ASSUME IInv PROVE OneCallDecodes
<1>1. SUFFICES ASSUME stage = "end", job.caller = "cli"
               PROVE  status \in {"OK_DONE", "FAIL_DECODE"} /\ Len(out) + pad = NFlat
  BY DEF OneCallDecodes
<1>2. PICK g \in 0..GroupsOf(job) : DecInv(g)
  BY <1>1, DecStage
<1>3. NFlat = SizeOf(job)
  BY UserIs DEF IInv
<1> QED
  BY <1>1, <1>2, <1>3 DEF DecInv, EndedInv

-----------------------------------------------------------------------------
(* From PCM to PCM *)

\* In a frame that ended the codec was called.
LEMMA EndIs ==
  ASSUME IInv, stage = "end"
  PROVE  \E g \in 0..GroupsOf(job) :
           /\ DecInv(g) /\ call = Idle /\ Active /\ status \in {"OK_DONE", "FAIL_DECODE"}
           /\ Taken = user.nbytes_tta_total
<1>1. PICK g \in 0..GroupsOf(job) : DecInv(g)
  BY DecStage
<1>2. call = Idle
  BY DEF IInv, BaseInv
<1>3. status \in {"OK_DONE", "FAIL_DECODE"} /\ user.ncalls_codec > 0
  BY <1>1 DEF DecInv, EndedInv
<1>4. user.nbytes_tta_total \in Nat
  BY UserIs DEF IInv
<1>5. Active /\ Taken = user.nbytes_tta_total
  BY <1>2, <1>3, <1>4 DEF Active, Taken
<1> QED
  BY <1>1, <1>2, <1>3, <1>5, Zenon

\* The checksum over the first bytes of a buffer is that of what is there.
LEMMA FirstBytes ==
  ASSUME NEW src \in Seq(Byte), NEW k \in Nat, k <= Len(src)
  PROVE  BytesUpTo(src, k) = SubSeq(src, 1, k)
<1> DEFINE t == SubSeq(src, 1, k)
<1>1. t = [i \in 1..k |-> src[i]]
  BY SubSeqProperties
<1>2. \A i \in 1..k : ByteAt(src, i) = src[i]
  BY DEF ByteAt
<1>3. BytesUpTo(src, k) = [i \in 1..k |-> ByteAt(src, i)]
  BY DEF BytesUpTo
<1> HIDE DEF t
<1> QED
  BY <1>1, <1>2, <1>3 DEF t

\* A sound frame comes back.
LEMMA ComesBack == ASSUME IInv PROVE Lossless
<1>1. SUFFICES ASSUME stage = "end", Sound
               PROVE  /\ job.caller = "cli" => status = "OK_DONE"
                      /\ status = "OK_DONE" =>
                           /\ libttaR_pcm_write(out, NFlat, job.samplebytes) = job.bytes
                           /\ user.crc = frame.crc /\ user.fini
  BY DEF Lossless
<1>2. PICK g \in 0..GroupsOf(job) :
             /\ DecInv(g) /\ call = Idle /\ Active /\ status \in {"OK_DONE", "FAIL_DECODE"}
             /\ Taken = user.nbytes_tta_total
  BY <1>1, EndIs
<1>3. job.caller = "cli" => status = "OK_DONE"
  BY <1>1, <1>2 DEF DecInv, EndedInv
<1>4. ASSUME status = "OK_DONE"
      PROVE  /\ libttaR_pcm_write(out, NFlat, job.samplebytes) = job.bytes
             /\ user.crc = frame.crc /\ user.fini
  <2> DEFINE N == SizeOf(job)
             S == SamplesOf(job)
             n == job.nchan
             m == GroupsOf(job)
             L == Len(FrameOf(job))
  <2>1. job \in Jobs /\ NFlat = N /\ N \in Nat
    BY UserIs DEF IInv
  <2>2. user.fini /\ user.nbytes_tta_total = L /\ Len(out) = N
    BY <1>2, <1>4 DEF DecInv, EndedInv
  <2>3. /\ frame = [bytes |-> FrameOf(job), crc |-> FrameOf(job)]
        /\ tta \in Seq(Byte) /\ Len(tta) = ttabuf_len
        /\ ttabuf_len = decbuf_check_adjust(job.nchan, L)
        /\ SubSeq(tta, 1, L) = FrameOf(job)
        /\ user.crc = BytesUpTo(tta, Taken) /\ Len(out) = g * n
        /\ DecodedTo(job, g, priv, tta, Taken, out)
    BY <1>1, <1>2 DEF DecInv, Sound
  <2>4. g * n = N
    BY <2>2, <2>3
  <2>5. out = S
    <3>1. out = SubSeq(S, 1, g * n)
      BY <2>3 DEF DecodedTo
    <3>2. S \in Seq(Int32) /\ Len(S) = N
      BY <2>1, JobSamplesIs DEF JobSamples
    <3> HIDE DEF S, n, N
    <3>3. SubSeq(S, 1, N) = S
      BY <3>2
    <3> QED
      BY <2>4, <3>1, <3>3
  <2>6. libttaR_pcm_write(S, N, job.samplebytes) = job.bytes
    BY <2>1, JobSamplesIs DEF JobSamples
  <2>7. user.crc = frame.crc
    <3>1. L \in Nat
      BY <2>1, JobFrameIs DEF JobFrame
    <3>2. L <= Len(tta)
      <4>1. MarginOf(job) \in Nat
        BY <2>1, MarginIs
      <4>2. ttabuf_len \in Nat /\ L + MarginOf(job) <= ttabuf_len
        BY <2>1, <2>3, <3>1, BufferIs
      <4> QED
        BY <2>3, <3>1, <4>1, <4>2
    <3> HIDE DEF L
    <3>3. BytesUpTo(tta, L) = SubSeq(tta, 1, L)
      BY <2>3, <3>1, <3>2, FirstBytes
    <3>4. Taken = L
      BY <1>2, <2>2
    <3>5. user.crc = FrameOf(job)
      BY <2>3, <3>3, <3>4
    <3> QED
      BY <2>3, <3>5
  <2> QED
    BY <2>1, <2>2, <2>5, <2>6, <2>7
<1> QED
  BY <1>3, <1>4

\* A part of a sequence from its start.
LEMMA PrefixIs ==
  ASSUME NEW S, NEW t \in Seq(S), NEW k \in 0..Len(t), NEW s, s = SubSeq(t, 1, k)
  PROVE  IsPrefix(s, t) /\ Len(s) = k
<1>1. Len(s) = k /\ s \in Seq(S) /\ k \in Nat /\ Len(t) \in Nat /\ k <= Len(t)
  BY Cut
<1>2. SubSeq(s, 1, Len(s)) = s
  BY <1>1
<1>3. SubSeq(t, 1, Len(s)) = s
  BY <1>1
<1> QED
  BY <1>1, <1>2, <1>3 DEF IsPrefix

-----------------------------------------------------------------------------
(* A sound frame that fails *)

\* What the decoder has before it when the bytes of a sound frame are all
\* taken: the bits of the codes to come, and of the flush.
LEMMA TailCached ==
  ASSUME NEW j \in Jobs, NEW g \in 0..GroupsOf(j), NEW l \in Nat, NEW p \in Privs(j, l),
         NEW src \in Seq(Byte), NEW s, NEW k, k = Len(FrameOf(j)), k <= Len(src),
         SubSeq(src, 1, k) = FrameOf(j),
         DecodedTo(j, g, p, src, k, s),
         NEW rs, TailOf(j, g, rs)
  PROVE  IsPrefix(CodesBits(rs), p.cache)
<1> DEFINE b == Bits(CodedOf(j), g)
           c == p.cache
           d == CodesBits(rs)
           f == FlattenSeq(FrameOf(j))
           e == Len(src)
           t == SubSeq(src, k + 1, e)
           ft == FlattenSeq(t)
<1>1. FrameOf(j) \in Seq(Byte) /\ k \in Nat /\ \E z \in Seq(Bit) : f = Bits(CodedOf(j), GroupsOf(j)) \o z
  BY JobFrameIs DEF JobFrame
<1>2. PICK z \in Seq(Bit) : f = Bits(CodedOf(j), GroupsOf(j)) \o z
  BY <1>1
<1>3. d \in Seq(Bit) /\ Bits(CodedOf(j), GroupsOf(j)) = b \o d
  BY DEF TailOf
<1>4. b \in Seq(Bit)
  <2>1. SoFar(CodedOf(j), j.nchan, g)
    BY JobBitsIs DEF JobBits
  <2> QED
    BY <2>1 DEF SoFar
<1>5. c \in Seq(Bit)
  BY PrivIs
<1>6. t \in Seq(Byte) /\ src = FrameOf(j) \o t
  <2>1. k \in 0..Len(src) /\ src \in Seq(Byte)
    BY <1>1
  <2>2. SubSeq(src, k + 1, Len(src)) \in Seq(Byte)
        /\ src = SubSeq(src, 1, k) \o SubSeq(src, k + 1, Len(src))
    BY <2>1, Cut
  <2> QED
    BY <2>2
<1>7. b \o (c \o ft) = FlattenSeq(src)
  BY DEF DecodedTo
<1> HIDE DEF b, c, d, f, e, t, ft
<1>8. FlattenSeq(src) = f \o ft /\ ft \in Seq(Bit)
  <2>1. FrameOf(j) \in Seq(Seq(Bit)) /\ t \in Seq(Seq(Bit))
    BY <1>1, <1>6, ByteIs
  <2>2. FlattenSeq(FrameOf(j) \o t) = f \o ft
    BY <2>1, FlattenConcat DEF f, ft
  <2>3. ft \in Seq(Bit)
    BY <1>6, BytesFlat DEF ft
  <2> QED
    BY <1>6, <2>2, <2>3
<1>9. d \o z \in Seq(Bit) /\ (d \o z) \o ft \in Seq(Bit) /\ c \o ft \in Seq(Bit)
  BY <1>3, <1>5, <1>8, ConcatProperties
<1>10. f \o ft = b \o ((d \o z) \o ft)
  <2>1. f = (b \o d) \o z
    BY <1>2, <1>3
  <2>2. (b \o d) \o z = b \o (d \o z)
    BY <1>3, <1>4, BitsConcat
  <2>3. (b \o (d \o z)) \o ft = b \o ((d \o z) \o ft)
    BY <1>4, <1>8, <1>9, BitsConcat
  <2> QED
    BY <2>1, <2>2, <2>3
<1>11. b \o (c \o ft) = b \o ((d \o z) \o ft)
  BY <1>7, <1>8, <1>10
<1>12. c \o ft = (d \o z) \o ft
  BY <1>4, <1>9, <1>11, LeftCancel
<1>13. c = d \o z
  BY <1>5, <1>8, <1>9, <1>12, RightCancel
<1>14. SubSeq(d \o z, 1, Len(d)) = d
  BY <1>3, Halves
<1>15. Len(d) \in 0..Len(d \o z)
  BY <1>3, ConcatProperties
<1>16. IsPrefix(d, d \o z)
  BY <1>9, <1>14, <1>15, PrefixIs
<1> QED
  BY <1>13, <1>16 DEF c, d

\* If a sound frame is refused, its last bits were cached.
LEMMA FailsLate == ASSUME IInv PROVE FailsOnlyOnCachedTail
<1> DEFINE n == job.nchan
           m == GroupsOf(job)
           L == Len(FrameOf(job))
           N == SizeOf(job)
           rest == SubSeq(codes, Len(out) + 1, Len(codes))
<1>1. SUFFICES ASSUME stage = "end", Sound, status = "FAIL_DECODE"
               PROVE  /\ user.nbytes_tta_total = Len(frame.bytes)
                      /\ IsStrictPrefix(out, pcm)
                      /\ IsPrefix(CodesBits(rest), priv.cache)
  BY DEF FailsOnlyOnCachedTail, CodesBits
<1>2. PICK g \in 0..GroupsOf(job) :
             /\ DecInv(g) /\ call = Idle /\ Active /\ status \in {"OK_DONE", "FAIL_DECODE"}
             /\ Taken = user.nbytes_tta_total
  BY <1>1, EndIs
<1>3. /\ job \in Jobs /\ pcm = SamplesOf(job) /\ user.ni32_total \in Nat
      /\ user.nbytes_tta_total \in Nat /\ Len(pcm) = N /\ pcm \in Seq(Int32) /\ N \in Nat
  BY UserIs DEF IInv
<1>4. job.caller = "api"
  <2>1. job.caller # "cli"
    BY <1>1, <1>2 DEF DecInv, EndedInv
  <2> QED
    BY <1>3, <2>1, JobIs DEF JobNumbers
<1>5. /\ codes = AllCodes(CodedOf(job), m)
      /\ frame = [bytes |-> FrameOf(job), crc |-> FrameOf(job)]
      /\ tta \in Seq(Byte) /\ Len(tta) = ttabuf_len
      /\ ttabuf_len = decbuf_check_adjust(job.nchan, L)
      /\ SubSeq(tta, 1, L) = FrameOf(job)
      /\ priv \in Privs(job, 7) /\ Len(out) = g * n
      /\ DecodedTo(job, g, priv, tta, Taken, out)
      /\ Done = g * n /\ user.ni32_total <= N
      /\ EndedInv
  BY <1>1, <1>2, <1>4 DEF DecInv, Sound
<1>6. /\ user.ni32_total # N \/ user.nbytes_tta_total # L
      /\ user.ni32_total >= N \/ user.nbytes_tta_total >= L
  BY <1>1, <1>4, <1>5 DEF EndedInv
<1>7. user.ni32_total = g * n
  BY <1>2, <1>3, <1>5 DEF Done
<1>8. Taken <= L /\ (g = m => Taken = L)
  <2> DEFINE k == Taken
  <2>1. k \in Nat /\ DecodedTo(job, g, priv, tta, k, out)
    BY <1>2, <1>3, <1>5
  <2> HIDE DEF k
  <2>2. k <= Len(FrameOf(job)) /\ (g = GroupsOf(job) => k = Len(FrameOf(job)))
    BY <1>3, <1>5, <2>1, TakenOfFrame
  <2> QED
    BY <2>2 DEF k
<1>9. g * n \in Nat /\ g * n <= N /\ (g * n = N => g = m)
  BY <1>3, GroupsLeft
<1>10. L \in Nat
  BY <1>3, JobFrameIs DEF JobFrame
<1>11. user.nbytes_tta_total = L /\ g * n < N
  <2> DEFINE a == g * n
             b == user.nbytes_tta_total
             i == user.ni32_total
  <2>1. /\ a \in Nat /\ a <= N /\ i = a /\ b \in Nat /\ b <= L /\ N \in Nat /\ L \in Nat
        /\ (a = N => b = L) /\ (i # N \/ b # L) /\ (i >= N \/ b >= L)
    BY <1>2, <1>3, <1>6, <1>7, <1>8, <1>9, <1>10
  <2> HIDE DEF a, b, i, N, L
  <2>2. b = L /\ a < N
    BY <2>1
  <2> QED
    BY <2>2 DEF a, b
<1>12. IsStrictPrefix(out, pcm)
  <2> DEFINE a == g * n
  <2>1. a \in 0..Len(pcm) /\ out = SubSeq(pcm, 1, a) /\ a < Len(pcm)
    BY <1>3, <1>5, <1>9, <1>11 DEF DecodedTo
  <2> HIDE DEF a
  <2>2. IsPrefix(out, pcm) /\ Len(out) = a
    BY <1>3, <2>1, PrefixIs
  <2>3. out # pcm
    BY <2>1, <2>2
  <2> QED
    BY <2>2, <2>3 DEF IsStrictPrefix
<1>13. PICK rs \in Seq(Code) : TailOf(job, g, rs)
  BY <1>3, TailCodes
<1>14. rest = rs
  <2> DEFINE a == AllCodes(CodedOf(job), g)
  <2>1. codes = a \o rs
    BY <1>5, <1>13 DEF TailOf
  <2>2. a \in Seq(Code) /\ Len(a) = Len(out)
    <3>1. SoFar(CodedOf(job), n, g)
      BY <1>3, JobBitsIs DEF JobBits
    <3> QED
      BY <1>5, <3>1 DEF SoFar
  <2> HIDE DEF a
  <2>3. SubSeq(a \o rs, Len(a) + 1, Len(a \o rs)) = rs
    BY <2>2, Halves
  <2> QED
    BY <2>1, <2>2, <2>3
<1>15. L <= Len(tta)
  <2>1. MarginOf(job) \in Nat
    BY <1>3, MarginIs
  <2>2. ttabuf_len \in Nat /\ L + MarginOf(job) <= ttabuf_len
    BY <1>3, <1>5, <1>10, BufferIs
  <2> QED
    BY <1>5, <1>10, <2>1, <2>2
<1>16. IsPrefix(CodesBits(rs), priv.cache)
  <2> DEFINE k == L
  <2>1. /\ k = Len(FrameOf(job)) /\ k <= Len(tta) /\ SubSeq(tta, 1, k) = FrameOf(job)
        /\ DecodedTo(job, g, priv, tta, k, out) /\ 7 \in Nat
    BY <1>2, <1>5, <1>11, <1>15
  <2> HIDE DEF k, L
  <2> QED
    BY <1>3, <1>5, <1>13, <2>1, TailCached
<1> QED
  BY <1>5, <1>11, <1>12, <1>14, <1>16

-----------------------------------------------------------------------------
(* Giving up *)

\* The bits of a group are those of the codes written for it.
LEMMA GroupBitsAre ==
  ASSUME job \in Jobs, NEW g \in 0..GroupsOf(job), NEW h \in 1..g, codes = AllCodes(CodedOf(job), g)
  PROVE  /\ GroupBits(h) = CodesBits(CodedOf(job)[h].codes)
         /\ Len(codes) = g * job.nchan
<1> DEFINE F == CodedOf(job)
           n == job.nchan
           m == GroupsOf(job)
           cs == F[h].codes
<1>1. n \in Nat \ {0} /\ m \in Nat /\ g \in 0..m /\ h \in 1..m
      /\ CodedWell(job.samplebytes, n, m, SamplesOf(job), F)
  BY JobIs, JobSamplesIs DEF JobNumbers, JobSamples
<1>2. SoFar(F, n, g) /\ GroupAdds(F, n, h)
  BY <1>1, JobBitsIs DEF JobBits
<1>3. Len(codes) = g * n
  BY <1>2 DEF SoFar
<1>4. cs \in Seq(Code) /\ Len(cs) = n
  BY <1>2 DEF GroupAdds
<1> HIDE DEF F, n, m
<1>5. \A j \in 1..n : codes[(h - 1) * n + j] = cs[j]
  <2>1. SUFFICES ASSUME NEW j \in 1..n PROVE codes[(h - 1) * n + j] = cs[j]
    OBVIOUS
  <2>2. CodeInPlace(F, n, g, h, j)
    BY <1>1, CodesInPlace
  <2>3. AllCodes(F, g)[(h - 1) * n + j] = cs[j]
    BY <2>2 DEF CodeInPlace
  <2> QED
    BY <2>3 DEF F
<1>6. GroupBits(h) = FlattenSeq([j \in 1..n |-> CodeBits(codes[(h - 1) * n + j])])
  BY DEF GroupBits, n
<1> HIDE DEF cs
<1>7. [j \in 1..n |-> CodeBits(codes[(h - 1) * n + j])] = [j \in 1..n |-> CodeBits(cs[j])]
  BY <1>5
<1>8. DOMAIN cs = 1..n
  BY <1>4
<1>9. CodesBits(cs) = FlattenSeq([j \in 1..n |-> CodeBits(cs[j])])
  BY <1>8 DEF CodesBits
<1>10. GroupBits(h) = CodesBits(cs)
  BY <1>6, <1>7, <1>9
<1> QED
  BY <1>3, <1>10 DEF cs, F, n

\* If encoding is given up, a group outgrew the buffer.
LEMMA GivesUpLate == ASSUME IInv PROVE GivesUpOnlyOnBursts
<1>1. SUFFICES ASSUME stage = "failed"
               PROVE  \E g \in 1..(Len(codes) \div job.nchan) :
                        Len(GroupBits(g)) + 39 + KMax > 8 * TTABUF_LEN_DEFAULT * job.nchan
  BY DEF GivesUpOnlyOnBursts
<1>2. PICK g \in 0..GroupsOf(job) : EncInv(g)
  BY <1>1, EncStage
<1>3. job \in Jobs
  BY UserIs DEF IInv
<1>4. job.caller = "cli" /\ codes = AllCodes(CodedOf(job), g) /\ GrowthInv(g)
  BY <1>1, <1>2 DEF EncInv
<1>5. BurstIn(job, g)
  BY <1>1, <1>4 DEF GrowthInv
<1>6. PICK h \in 1..g : Len(CodesBits(CodedOf(job)[h].codes)) + 39 + KMax
                          > 8 * (TTABUF_LEN_DEFAULT * job.nchan)
  BY <1>5 DEF BurstIn
<1>7. GroupBits(h) = CodesBits(CodedOf(job)[h].codes) /\ Len(codes) = g * job.nchan
  BY <1>3, <1>4, GroupBitsAre
<1>8. Len(codes) \div job.nchan = g
  <2> DEFINE n == job.nchan
             l == Len(codes)
  <2>1. n \in Nat \ {0} /\ l = g * n /\ g \in Nat
    BY <1>3, <1>7, JobIs DEF JobNumbers
  <2> HIDE DEF n, l
  <2>2. l \in Int /\ l = n * g + 0 /\ 0 \in 0..(n - 1)
    BY <2>1
  <2>3. l \div n = g
    BY <2>1, <2>2, IntDivUnique
  <2> QED
    BY <2>3 DEF n, l
<1>9. 8 * TTABUF_LEN_DEFAULT * job.nchan = 8 * (TTABUF_LEN_DEFAULT * job.nchan)
  <2> DEFINE n == job.nchan
             T == TTABUF_LEN_DEFAULT
  <2>1. n \in Nat /\ T \in Nat
    BY <1>3, JobIs, BufferAssumption DEF JobNumbers
  <2> HIDE DEF n, T
  <2>2. 8 * T * n = 8 * (T * n)
    BY <2>1
  <2> QED
    BY <2>2 DEF n, T
<1>10. Len(GroupBits(h)) + 39 + KMax > 8 * TTABUF_LEN_DEFAULT * job.nchan
  BY <1>6, <1>7, <1>9
<1> QED
  BY <1>8, <1>10, Zenon

\* In every state of the encoder all builds agree.
LEMMA BuildsMeet == ASSUME IInv PROVE BuildsAgree
<1>1. SUFFICES ASSUME stage = "encode", NEW j \in DOMAIN priv.codec
               PROVE  /\ SimdAgrees(priv.codec[j].filter, get_filter_round(job.samplebytes),
                                    get_filter_k(job.samplebytes))
                      /\ \A i \in Taps : CmovAgrees(priv.codec[j].filter.dl[i])
  BY DEF BuildsAgree
<1>2. PICK g \in 0..GroupsOf(job) : EncInv(g)
  BY <1>1, EncStage
<1>3. priv \in Privs(job, 39 + KMax)
  BY <1>2 DEF EncInv
<1>4. priv.codec[j] \in Channel
  BY <1>3, PrivIs
<1> DEFINE f == priv.codec[j].filter
<1>5. f \in FilterState
  BY <1>4, ChannelIs
<1>6. job.samplebytes \in 1..3
  BY UserIs, JobIs DEF IInv, JobNumbers
<1>7. get_filter_round(job.samplebytes) \in Nat /\ get_filter_k(job.samplebytes) \in Nat
  BY <1>6, Parameters
<1> HIDE DEF f
<1>8. SimdAgrees(f, get_filter_round(job.samplebytes), get_filter_k(job.samplebytes))
  BY <1>5, <1>7, SimdAgreesIs
<1>9. \A i \in Taps : CmovAgrees(f.dl[i])
  <2>1. f.dl \in [Taps -> Int]
    BY <1>5, FilterStateIs
  <2> QED
    BY <2>1, CmovIs
<1> QED
  BY <1>8, <1>9 DEF f

-----------------------------------------------------------------------------
(* The promise *)

\* What the refinement puts for the variables of LosslessPipe that are not
\* variables here.
Sealed   == stage \in {"decode", "end"}
PipeTook == IF stage \in {"encode", "failed"}
              THEN user.ni32_total + (IF call = Idle THEN 0 ELSE call.ni32)
              ELSE Len(pcm)

\* A step that changes none of this stutters.
LEMMA Stutters ==
  ASSUME pcm' = pcm, out' = out, PipeTook' = PipeTook, Sealed' = Sealed, Sound' = Sound
  PROVE  UNCHANGED Pipe!vars
<1>1. /\ (stage \in {"decode", "end"})' = (stage \in {"decode", "end"})
      /\ (stage \in {"decode", "end"} /\ ~Sound)' = (stage \in {"decode", "end"} /\ ~Sound)
  BY DEF Sealed
<1>2. /\ pcm' = pcm /\ out' = out
      /\ (IF stage \in {"encode", "failed"}
            THEN user.ni32_total + (IF call = Idle THEN 0 ELSE call.ni32) ELSE Len(pcm))'
           = (IF stage \in {"encode", "failed"}
                THEN user.ni32_total + (IF call = Idle THEN 0 ELSE call.ni32) ELSE Len(pcm))
  BY DEF PipeTook
<1> QED
  BY <1>1, <1>2 DEF Pipe!vars

\* The promise starts where the codec starts.
LEMMA PromiseStarts == Init => Pipe!Init
  BY DEF Init, Pipe!Init, Idle, LIBTTAr_CODECSTATE_USER_INIT

\* A call that is entered codes nothing.
LEMMA EnterStutters ==
  ASSUME IInv, NEW op, NEW misc, NEW verdict, Enter(op, misc, verdict), UNCHANGED callerVars
  PROVE  UNCHANGED Pipe!vars
<1>1. /\ call = Idle /\ user' = user /\ pcm' = pcm /\ out' = out /\ codes' = codes /\ stage' = stage
      /\ job' = job /\ damaged' = damaged
      /\ (call' = Idle \/ call'.ni32 = 0)
  BY DEF Enter, callerVars
<1>2. PipeTook' = PipeTook
  BY <1>1 DEF PipeTook, Idle
<1>3. Sealed' = Sealed /\ Sound' = Sound
  BY <1>1 DEF Sealed, Sound, Acceptable
<1> QED
  BY <1>1, <1>2, <1>3, Stutters

\* Calling takes nothing and gives nothing.
LEMMA CallsStutter ==
  ASSUME IInv,
         \/ enc_frame_encode \/ enc_frame_encode_again \/ ApiEncode \/ RudeEncode
         \/ dec_frame_decode \/ ApiDecode \/ RudeDecode
  PROVE  UNCHANGED Pipe!vars
<1>1. ASSUME NEW misc, EncCall(misc), UNCHANGED callerVars PROVE UNCHANGED Pipe!vars
  BY <1>1, EnterStutters DEF EncCall
<1>2. ASSUME NEW misc, DecCall(misc), UNCHANGED callerVars PROVE UNCHANGED Pipe!vars
  BY <1>2, EnterStutters DEF DecCall
<1>3. CASE enc_frame_encode
  BY <1>1, <1>3 DEF enc_frame_encode
<1>4. CASE enc_frame_encode_again
  BY <1>1, <1>4 DEF enc_frame_encode_again
<1>5. CASE ApiEncode
  BY <1>1, <1>5 DEF ApiEncode
<1>6. CASE RudeEncode
  <2>1. \E misc : EncCall(misc) /\ UNCHANGED callerVars
    BY <1>6 DEF RudeEncode
  <2> QED
    BY <1>1, <2>1
<1>7. CASE dec_frame_decode
  BY <1>2, <1>7 DEF dec_frame_decode
<1>8. CASE ApiDecode
  <2>1. \E misc : DecCall(misc) /\ UNCHANGED callerVars
    BY <1>8 DEF ApiDecode
  <2> QED
    BY <1>2, <2>1
<1>9. CASE RudeDecode
  <2>1. \E misc : DecCall(misc) /\ UNCHANGED callerVars
    BY <1>9 DEF RudeDecode
  <2> QED
    BY <1>2, <2>1
<1> QED
  BY <1>3, <1>4, <1>5, <1>6, <1>7, <1>8, <1>9

\* So does a caller that gives up or goes on to the next frame.
LEMMA EndsStutter ==
  ASSUME IInv, enc_frame_encode_fails \/ dec_frame_decode_returns \/ ApiDecoded
  PROVE  UNCHANGED Pipe!vars
<1>1. CASE enc_frame_encode_fails
  <2>1. /\ user' = user /\ call' = call /\ pcm' = pcm /\ out' = out /\ codes' = codes
        /\ job' = job /\ damaged' = damaged /\ stage = "encode" /\ stage' = "failed"
    BY <1>1 DEF enc_frame_encode_fails, Encoding, codecVars
  <2>2. PipeTook' = PipeTook /\ Sealed' = Sealed /\ Sound' = Sound
    BY <2>1 DEF PipeTook, Idle, Sealed, Sound, Acceptable
  <2> QED
    BY <2>1, <2>2, Stutters
<1>2. CASE dec_frame_decode_returns \/ ApiDecoded
  <2>1. /\ pcm' = pcm /\ out' = out /\ codes' = codes
        /\ job' = job /\ damaged' = damaged /\ stage = "decode" /\ stage' = "end"
    BY <1>2 DEF dec_frame_decode_returns, ApiDecoded, Decoding, codecVars
  <2>2. PipeTook' = PipeTook /\ Sealed' = Sealed /\ Sound' = Sound
    BY <2>1 DEF PipeTook, Sealed, Sound, Acceptable
  <2> QED
    BY <2>1, <2>2, Stutters
<1> QED
  BY <1>1, <1>2

\* A group that is encoded is taken.
LEMMA EncodeTakes ==
  ASSUME IInv, IInv', EncStep, UNCHANGED callerVars
  PROVE  Pipe!Take
<1>1. /\ call.op = "encode" /\ user'.ni32_total = user.ni32_total /\ call' # Idle'
      /\ call'.ni32 = call.ni32 + call.misc.nchan
      /\ pcm' = pcm /\ out' = out /\ job' = job /\ stage' = stage /\ damaged' = damaged
  <2>1. PICK h : EncGroup(h)
    BY DEF EncStep
  <2>2. call.op = "encode" /\ pcm' = pcm /\ out' = out /\ job' = job /\ stage' = stage
        /\ damaged' = damaged
    BY DEF EncStep, callerVars
  <2>3. call # Idle
    BY <2>2 DEF Idle
  <2>4. PICK g \in 0..GroupsOf(job) : EncInv(g)
    BY <2>2, <2>3, CallStage
  <2>5. call \in EncCalls(job) /\ user \in Users
    BY <2>3, <2>4, UserIs DEF EncInv, EncCallOK, IInv
  <2> DEFINE l == Len(h.w.dest)
             s == h.w.crc
             k == call.misc.nchan
  <2>6. call' = [call EXCEPT !.ni32 = @ + k, !.nbytes = @ + l] /\ user' = [user EXCEPT !.crc = s]
    BY <2>1 DEF EncGroup
  <2> HIDE DEF l, s, k
  <2>7. call'.op = "encode" /\ call'.ni32 = call.ni32 + k
    BY <2>2, <2>5, <2>6 DEF EncCalls
  <2>8. user'.ni32_total = user.ni32_total
    BY <2>5, <2>6 DEF Users
  <2>9. call' # Idle'
    BY <2>7 DEF Idle
  <2> QED
    BY <2>2, <2>7, <2>8, <2>9 DEF k
<1>2. call # Idle
  BY <1>1 DEF Idle
<1>3. PICK g \in 0..GroupsOf(job) : EncInv(g)
  BY <1>1, <1>2, CallStage
<1>4. stage = "encode"
  BY <1>1, <1>2, CallStage
<1>5. \E h \in 0..GroupsOf(job') : EncInv(h)'
  BY <1>1, <1>4 DEF IInv
<1>6. Done' \in Nat /\ Done' <= SizeOf(job')
  <2>1. PICK h \in 0..GroupsOf(job') : EncInv(h)'
    BY <1>5
  <2>2. Done' = h * job'.nchan
    BY <2>1 DEF EncInv
  <2>3. job' \in Jobs
    BY DEF IInv, BaseInv
  <2> QED
    BY <2>2, <2>3, GroupsLeft
<1>7. BaseInv /\ job \in Jobs /\ Len(pcm) = SizeOf(job) /\ user.ni32_total \in Nat
  BY UserIs DEF IInv
<1>8. call.ni32 \in Nat /\ call.misc.nchan = job.nchan /\ job.nchan \in Nat \ {0}
  BY <1>2, <1>3, <1>7, EncCallIs, JobIs DEF EncInv, EncCallOK, JobNumbers
<1>9. Done = user.ni32_total + call.ni32 /\ Done' = user.ni32_total + (call.ni32 + job.nchan)
  BY <1>1, <1>2, <1>8 DEF Done
<1>10. PipeTook = Done /\ PipeTook' = Done'
  BY <1>1, <1>4 DEF PipeTook, Done
<1>11. PipeTook' \in (PipeTook + 1)..Len(pcm)
  <2> DEFINE d == Done
             e == Done'
             n == job.nchan
             i == user.ni32_total
             c == call.ni32
  <2>1. d = i + c /\ e = i + (c + n) /\ n \in Nat \ {0} /\ i \in Nat /\ c \in Nat
        /\ e \in Nat /\ e <= SizeOf(job)
    BY <1>1, <1>6, <1>7, <1>8, <1>9
  <2>2. SizeOf(job) \in Nat
    BY <1>7, UserIs
  <2> HIDE DEF d, e, n, i, c
  <2>3. e \in (d + 1)..SizeOf(job)
    BY <2>1, <2>2
  <2> QED
    BY <1>7, <1>10, <2>3 DEF d, e
<1>12. stage # "decode" /\ stage # "end"
  BY <1>4
<1> QED
  BY <1>1, <1>4, <1>11 DEF Pipe!Take, PipeTook

\* Nor does returning.
LEMMA ReturnsStutter ==
  ASSUME IInv, EncReturn \/ DecReturn, UNCHANGED callerVars
  PROVE  UNCHANGED Pipe!vars
<1>1. call # Idle /\ call' = Idle /\ pcm' = pcm /\ out' = out /\ codes' = codes
      /\ job' = job /\ stage' = stage /\ damaged' = damaged
  BY DEF EncReturn, DecReturn, callerVars, Idle
<1>2. Sealed' = Sealed /\ Sound' = Sound
  BY <1>1 DEF Sealed, Sound, Acceptable
<1>3. PipeTook' = PipeTook
  <2>1. CASE EncReturn
    <3>1. call.op = "encode"
      BY <2>1 DEF EncReturn
    <3>2. PICK g \in 0..GroupsOf(job) : EncInv(g)
      BY <1>1, <3>1, CallStage
    <3>3. stage = "encode" /\ call \in EncCalls(job) /\ user \in Users
      BY <1>1, <3>1, <3>2, CallStage, UserIs DEF EncInv, EncCallOK, IInv
    <3>4. call.ni32 \in Nat /\ user.ni32_total \in Nat
      BY <3>3, EncCallIs, UserIs DEF IInv
    <3>5. user'.ni32_total = user.ni32_total + call.ni32
      <4>1. PICK s, b, k : user' = Counted([user EXCEPT !.crc = s, !.fini = b], call.ni32, k)
        BY <2>1 DEF EncReturn
      <4> DEFINE u == [user EXCEPT !.crc = s, !.fini = b]
      <4>2. u = [user EXCEPT !.crc = s, !.fini = b]
        OBVIOUS
      <4> HIDE DEF u
      <4>3. u.ni32_total = user.ni32_total /\ u = [f \in DOMAIN u |-> u[f]] /\ "ni32_total" \in DOMAIN u
        BY <3>3, <4>2 DEF Users
      <4>4. Counted(u, call.ni32, k).ni32_total = u.ni32_total + call.ni32
        BY <4>3 DEF Counted
      <4> QED
        BY <4>1, <4>3, <4>4 DEF u
    <3>6. PipeTook = user.ni32_total + call.ni32
      BY <1>1, <3>3 DEF PipeTook
    <3>7. PipeTook' = user'.ni32_total + 0
      BY <1>1, <3>3 DEF PipeTook, Idle
    <3> QED
      BY <3>4, <3>5, <3>6, <3>7
  <2>2. CASE DecReturn
    <3>1. call.op = "decode"
      BY <2>2 DEF DecReturn
    <3>2. stage = "decode"
      BY <1>1, <3>1, CallStage
    <3> QED
      BY <1>1, <3>2 DEF PipeTook
  <2> QED
    BY <2>1, <2>2
<1> QED
  BY <1>1, <1>2, <1>3, Stutters

\* A frame is stored when all of it is taken.
LEMMA StoreSeals ==
  ASSUME IInv, StoreAndLoad
  PROVE  Pipe!Seal
<1>1. /\ stage = "encode" /\ call = Idle /\ status = "OK_DONE" /\ stage' = "decode"
      /\ pcm' = pcm /\ out' = out
  BY DEF StoreAndLoad
<1>2. PICK g \in 0..GroupsOf(job) : EncInv(g)
  BY <1>1, EncStage
<1>3. g = GroupsOf(job) /\ Done = g * job.nchan
  BY <1>1, <1>2 DEF EncInv
<1>4. job \in Jobs /\ Len(pcm) = SizeOf(job)
  BY UserIs DEF IInv
<1>5. SizeOf(job) = g * job.nchan
  BY <1>3, <1>4, JobIs DEF JobNumbers
<1>6. PipeTook = Len(pcm) /\ PipeTook' = Len(pcm)
  <2>1. PipeTook = Done
    BY <1>1 DEF PipeTook, Done
  <2>2. PipeTook' = Len(pcm')
    BY <1>1 DEF PipeTook
  <2> QED
    BY <1>1, <1>3, <1>4, <1>5, <2>1, <2>2
<1>7. Sealed = FALSE /\ Sealed' = TRUE
  BY <1>1 DEF Sealed
<1>8. (stage' \in {"decode", "end"} /\ ~(Sound')) \in BOOLEAN
  OBVIOUS
<1> QED
  BY <1>1, <1>6, <1>7, <1>8 DEF Pipe!Seal, PipeTook, Sealed

-----------------------------------------------------------------------------
(* What is decoded is given back *)

\* A group that is decoded has a sample for every channel.
LEMMA GroupGiven ==
  ASSUME IInv, DecStep
  PROVE  \E x \in Seq(Int32) : out' = out \o x /\ Len(x) = job.nchan
<1> DEFINE t == Taken
           h == DecodeGroup(priv.codec, Reader, job.samplebytes)
           x == Correlated(h.x)
<1>1. call.op = "decode" /\ DecGroup(DecodeGroup(priv.codec, Reader, call.misc.samplebytes))
  BY DEF DecStep
<1>2. call # Idle
  BY <1>1 DEF Idle
<1>3. PICK g \in 0..GroupsOf(job) : DecInv(g)
  BY <1>1, <1>2, CallStage
<1>4. /\ call \in DecCalls(job) /\ tta \in Seq(Byte) /\ priv \in Privs(job, 7)
      /\ user.crc = BytesUpTo(tta, Taken)
  BY <1>2, <1>3 DEF DecInv, DecCallOK
<1>5. call.nbytes \in Nat /\ call.misc.samplebytes = job.samplebytes
  BY <1>4, DecCallIs
<1>6. user.nbytes_tta_total \in Nat /\ job \in Jobs
  BY UserIs DEF IInv
<1>7. Taken = user.nbytes_tta_total + call.nbytes
  BY <1>2 DEF Taken
<1>8. Reader = [cache |-> priv.cache, src |-> tta, crc |-> BytesUpTo(tta, t), nbytes |-> t]
  BY <1>4, <1>7 DEF Reader
<1>9. t \in Nat
  BY <1>5, <1>6, <1>7
<1> HIDE DEF t
<1>10. DecodeReads(job, tta, t, h)
  BY <1>4, <1>6, <1>8, <1>9, DecodeStepReads
<1> HIDE DEF h
<1>11. x \in Seq(Int32) /\ Len(x) = job.nchan
  BY <1>10 DEF DecodeReads
<1>12. DecGroup(h)
  BY <1>1, <1>5 DEF h
<1>13. out' = out \o x
  BY <1>12 DEF DecGroup
<1> HIDE DEF x
<1> QED
  BY <1>11, <1>13, Zenon

\* A group that is decoded is given back.
LEMMA DecodeGives ==
  ASSUME IInv, IInv', DecStep, UNCHANGED callerVars
  PROVE  Pipe!Give
<1>1. /\ call.op = "decode" /\ pcm' = pcm /\ codes' = codes /\ job' = job /\ stage' = stage
      /\ damaged' = damaged
  BY DEF DecStep, callerVars
<1>2. call # Idle
  BY <1>1 DEF Idle
<1>3. stage = "decode"
  BY <1>1, <1>2, CallStage
<1>4. PICK g \in 0..GroupsOf(job) : DecInv(g)
  BY <1>1, <1>2, CallStage
<1>5. PICK x \in Seq(Int32) : out' = out \o x /\ Len(x) = job.nchan
  BY GroupGiven
<1>6. out \in Seq(Int32) /\ job \in Jobs /\ job.nchan \in Nat \ {0}
  BY <1>4, UserIs, JobIs DEF DecInv, IInv, JobNumbers
<1>7. /\ out' \in Seq(Int32) /\ Len(out') = Len(out) + job.nchan
      /\ Len(out) \in Nat /\ SubSeq(out', 1, Len(out)) = out
  <2> DEFINE S == Int32
             y == out'
             n == job.nchan
  <2>1. out \in Seq(S) /\ x \in Seq(S) /\ y = out \o x /\ Len(x) = n
    BY <1>5, <1>6
  <2> HIDE DEF S, y, n
  <2>2. Len(out) \in Nat
    BY <2>1
  <2>3. y \in Seq(S) /\ Len(y) = Len(out) + n
    BY <2>1, ConcatIs
  <2>4. SubSeq(y, 1, Len(out)) = out
    BY <2>1, Halves
  <2> QED
    BY <2>2, <2>3, <2>4 DEF S, y, n
<1>8. Len(out') > Len(out)
  BY <1>6, <1>7
<1>9. IsPrefix(out, out')
  <2> DEFINE k == Len(out)
             y == out'
  <2>1. k \in 0..Len(y) /\ y \in Seq(Int32) /\ out = SubSeq(y, 1, k)
    <3> DEFINE n == Len(y)
    <3>1. k \in Nat /\ n > k /\ n = k + job.nchan /\ y \in Seq(Int32) /\ SubSeq(y, 1, k) = out
      BY <1>7, <1>8
    <3> HIDE DEF n, k
    <3>2. k \in 0..n
      BY <3>1, <1>6
    <3> QED
      BY <3>1, <3>2 DEF n
  <2> HIDE DEF k, y
  <2>2. IsPrefix(out, y)
    BY <2>1, PrefixIs
  <2> QED
    BY <2>2 DEF y
<1>10. Sound' = Sound
  BY <1>1 DEF Sound, Acceptable
<1>11. Sound => IsPrefix(out', pcm)
  <2>1. SUFFICES ASSUME Sound PROVE IsPrefix(out', pcm)
    OBVIOUS
  <2>2. \E e \in 0..GroupsOf(job') : DecInv(e)'
    BY <1>1, <1>3 DEF IInv
  <2>3. PICK e \in 0..GroupsOf(job') : DecInv(e)'
    BY <2>2
  <2>4. call' # Idle'
    <3>1. call' = [call EXCEPT !.ni32 = call'.ni32, !.nbytes = call'.nbytes]
      <4>1. PICK s : DecGroup(s)
        BY DEF DecStep
      <4>2. call \in DecCalls(job)
        BY <1>2, <1>4 DEF DecInv, DecCallOK
      <4> DEFINE p == call.ni32 + call.misc.nchan
                 q == s.r.nbytes - user.nbytes_tta_total
      <4>3. call' = [call EXCEPT !.ni32 = p, !.nbytes = q]
        BY <4>1 DEF DecGroup
      <4> HIDE DEF p, q
      <4>4. call'.ni32 = p /\ call'.nbytes = q
        BY <4>2, <4>3 DEF DecCalls
      <4> QED
        BY <4>3, <4>4
    <3>2. call'.op = "decode"
      <4> DEFINE p == call'.ni32
                 q == call'.nbytes
      <4>1. call' = [call EXCEPT !.ni32 = p, !.nbytes = q]
        BY <3>1
      <4>2. call \in DecCalls(job)
        BY <1>2, <1>4 DEF DecInv, DecCallOK
      <4> HIDE DEF p, q
      <4> QED
        BY <1>1, <4>1, <4>2 DEF DecCalls
    <3> QED
      BY <3>2 DEF Idle
  <2>5. Active' /\ Sound'
    BY <1>10, <2>1, <2>4 DEF Active
  <2>6. out' = SubSeq(SamplesOf(job'), 1, e * job'.nchan)
    BY <2>3, <2>5 DEF DecInv, DecodedTo
  <2>7. pcm = SamplesOf(job') /\ pcm \in Seq(Int32) /\ Len(pcm) = SizeOf(job)
    BY <1>1, UserIs DEF IInv
  <2>8. e * job.nchan \in Nat /\ e * job.nchan <= SizeOf(job)
    BY <1>1, <1>6, GroupsLeft
  <2> DEFINE k == e * job.nchan
             y == out'
  <2>9. k \in 0..Len(pcm) /\ y = SubSeq(pcm, 1, k)
    <3>1. SizeOf(job) \in Nat
      BY UserIs DEF IInv
    <3> QED
      BY <1>1, <2>6, <2>7, <2>8, <3>1
  <2> HIDE DEF k, y
  <2>10. IsPrefix(y, pcm)
    BY <2>7, <2>9, PrefixIs
  <2> QED
    BY <2>10 DEF y
<1>12. PipeTook' = PipeTook
  BY <1>1, <1>3 DEF PipeTook
<1>13. /\ UNCHANGED PipeTook
       /\ stage \in {"decode", "end"}
       /\ UNCHANGED (stage \in {"decode", "end"})
       /\ UNCHANGED (stage \in {"decode", "end"} /\ ~Sound)
  BY <1>1, <1>3, <1>10, <1>12
<1>14. IsPrefix(out', pcm) \/ (stage \in {"decode", "end"} /\ ~Sound)
  BY <1>3, <1>11
<1>15. Len(out') > Len(out) /\ IsPrefix(out, out')
  BY <1>8, <1>9
<1>16. UNCHANGED (IF stage \in {"encode", "failed"}
                   THEN user.ni32_total + (IF call = Idle THEN 0 ELSE call.ni32)
                   ELSE Len(pcm))
  BY <1>13, Zenon DEF PipeTook
<1>17. UNCHANGED pcm
  BY <1>1
<1>18. Len(out') > Len(out) /\ Pipe!IsPrefix(out, out')
  BY <1>15 DEF IsPrefix, Pipe!IsPrefix
<1>19. Pipe!IsPrefix(out', pcm) \/ (stage \in {"decode", "end"} /\ ~Sound)
  BY <1>14 DEF IsPrefix, Pipe!IsPrefix
<1> QED
  BY <1>13, <1>16, <1>17, <1>18, <1>19 DEF Pipe!Give

\* Every step of the codec is one of the promise or a stutter.
LEMMA PromiseKept ==
  IInv /\ IInv' /\ [Next \/ Stopped]_vars => [Pipe!Next]_(Pipe!vars)
<1> SUFFICES ASSUME IInv, IInv', [Next \/ Stopped]_vars
             PROVE  Pipe!Next \/ UNCHANGED Pipe!vars
  OBVIOUS
<1>1. ASSUME Working PROVE Pipe!Next \/ UNCHANGED Pipe!vars
  <2>1. CodecStep /\ UNCHANGED callerVars
    BY <1>1 DEF Working
  <2> QED
    BY <2>1, EncodeTakes, ReturnsStutter, DecodeGives DEF CodecStep, Pipe!Next
<1>2. ASSUME Next PROVE Pipe!Next \/ UNCHANGED Pipe!vars
  BY <1>1, <1>2, CallsStutter, EndsStutter, StoreSeals DEF Next, Pipe!Next
<1>3. ASSUME UNCHANGED vars PROVE UNCHANGED Pipe!vars
  BY <1>3 DEF vars, codecVars, Pipe!vars, Idle, Sound, Acceptable
<1> QED
  BY <1>2, <1>3 DEF Stopped

\* The codec keeps the promise of LosslessPipe for every job and however the
\* calls cut the frame: samples are taken in order, the frame is sealed once all
\* are taken, and the same samples are given back in order, unless the frame was
\* damaged or holds a code longer than the decoder takes (the loops of tta_enc.h
\* and tta_dec.h with the calls of mode_encode_loop.c and mode_decode_loop.c).
THEOREM Promise == Spec => KeepsPromise
<1>1. Init => Pipe!Init
  BY PromiseStarts
<1>2. IInv /\ IInv' /\ [Next \/ Stopped]_vars => [Pipe!Next]_(Pipe!vars)
  BY PromiseKept
<1>3. Spec => []IInv
  BY Inductive
<1> QED
  BY <1>1, <1>2, <1>3, PTL DEF Spec, KeepsPromise, Pipe!Spec

\* The parameters k of the Rice coder stay within the table of thresholds, its
\* sums within an uint32_t, the bit cache within its word and the counts within
\* the frame (rice24.h, tta_enc.h, tta_dec.h).
THEOREM TypesKept == Spec => []TypeOK
  BY Inductive, TypesHold, PTL

\* What is written is the concatenation of the codes, whole bytes in the buffer
\* and the rest in the cache, and the checksum is that of the bytes (rice24.h).
THEOREM StreamHoldsAlways == Spec => []StreamHoldsCodes
  BY Inductive, StreamHolds, PTL

\* A frame that is complete is byte for byte the one that a single call on an
\* endless buffer makes (libttaR_tta_encode).
THEOREM ChunksAlwaysAgree == Spec => []ChunksAgree
  BY Inductive, ChunksMeet, PTL

\* The encoder never writes behind the buffer of the caller as long as no code is
\* longer than the safety margin allows for, and the decoder never reads behind
\* its buffer, whatever the bytes are (TTABUF_SAFETY_MARGIN, UNARY_LAX_LIMIT).
THEOREM AlwaysWithinBuffers == Spec => []WithinBuffers
  BY Inductive, BuffersHold, PTL

\* A frame that was not damaged, and whose codes the decoder takes, comes back as
\* the bytes of PCM that were encoded; the command line program decodes it to its
\* end (libttaR_tta_encode, libttaR_tta_decode, libttaR_pcm_read and _write).
THEOREM AlwaysLossless == Spec => []Lossless
  BY Inductive, ComesBack, PTL

\* dec_frame_decode never gets OK_AGAIN, damaged frames included, and what it
\* decodes and pads is as long as the frame.
THEOREM OneCallAlwaysDecodes == Spec => []OneCallDecodes
  BY Inductive, OneCallEnough, PTL

\* A sound frame that is refused was read to its last byte, and the codes still
\* to be decoded are in the bit cache (TTADEC_POSTLOOP).
THEOREM TailFailsOnly == Spec => []FailsOnlyOnCachedTail
  BY Inductive, FailsLate, PTL

\* enc_frame_encode gives up only when a group of samples takes, with what the
\* cache held before it, more bytes than encbuf_adjust makes the buffer grow by.
THEOREM BurstsGiveUpOnly == Spec => []GivesUpOnlyOnBursts
  BY Inductive, GivesUpLate, PTL

\* However the library is built, the vector and the plain versions of the filter
\* and the two of the interleaving agree in every state the encoder reaches.
THEOREM BuildsAlwaysAgree == Spec => []BuildsAgree
  BY Inductive, BuildsMeet, PTL

=============================================================================
