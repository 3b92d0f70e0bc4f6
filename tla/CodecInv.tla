------------------------------ MODULE CodecInv ------------------------------
(***************************************************************************)
(* The inductive invariant of FrameCodec: what the codec has taken, written *)
(* and given back at every point of a frame's way is a function of the job *)
(* and of how many groups (one sample of every channel) it went through,   *)
(* however the calls cut the frame.                                        *)
(***************************************************************************)
EXTENDS FrameCodec

\* int32_t and uint32_t
Int32  == -2^(W - 1) .. 2^(W - 1) - 1
UInt32 == 0 .. UINT32_MAX

Byte == {b \in Seq(Bit) : Len(b) = 8}

FilterState == [qm : [Taps -> Int32], dx : [Taps -> Int], dl : [Taps -> Int32],
                error : {-1, 0, 1}]
RiceState   == [sum : [0..1 -> UInt32], k : [0..1 -> 0..KMax]]
Channel     == [filter : FilterState, rice : RiceState, prev : Int32]

Code    == [unary : Nat, binary : Nat, bin_k : 0..KMax]
Writers == [cache : Seq(Bit), dest : Seq(Byte), crc : Seq(Byte)]

\* The writers that gave the checksum pre and then what they wrote.
Fed(pre) == {w \in Writers : w.crc = pre \o w.dest}

\* The bits a writer took so far.
Written(w) == FlattenSeq(w.dest) \o w.cache

\* The bits of the codes cs.
CodesBits(cs) == FlattenSeq([i \in DOMAIN cs |-> CodeBits(cs[i])])

\* The first k bytes read of src.
BytesUpTo(src, k) == [i \in 1..k |-> ByteAt(src, i)]

\* What a flush behind bits leaves.
FrameBytes(bits) == BytesOf(bits \o Zeros(7))

-----------------------------------------------------------------------------
\* The m groups of n samples of s, coded one after the other on an endless
\* buffer: the channels, the writer and the codes after each.
FrameCoded(sb, n, m, s) ==
  LET group(g) == SubSeq(s, (g - 1) * n + 1, g * n)
      coded[g \in 0..m] ==
        IF g = 0 THEN [codec |-> codec_init(n),
                       w     |-> [cache |-> <<>>, dest |-> <<>>, crc |-> <<>>],
                       codes |-> <<>>]
        ELSE EncodeGroup(coded[g - 1].codec, coded[g - 1].w, group(g), sb)
  IN  coded

\* The codes of the first g groups, and the bits written for them.
AllCodes(F, g) == FlattenSeq([i \in 1..g |-> F[i].codes])
Bits(F, g)     == Written(F[g].w)

\* The frame of the job j: samples, groups, what each adds, and the bytes.
SizeOf(j)    == Len(j.bytes) \div j.samplebytes
GroupsOf(j)  == SizeOf(j) \div j.nchan
SamplesOf(j) == libttaR_pcm_read(j.bytes, SizeOf(j), j.samplebytes)
MarginOf(j)  == get_safety_margin(j.samplebytes, j.nchan)
CodedOf(j)   == FrameCoded(j.samplebytes, j.nchan, GroupsOf(j), SamplesOf(j))
FrameOf(j)   == FrameBytes(Bits(CodedOf(j), GroupsOf(j)))

\* Some group up to the g-th takes more than the buffer grows by.
BurstIn(j, g) ==
  \E h \in 1..g :
    Len(CodesBits(CodedOf(j)[h].codes)) + 39 + KMax > 8 * (TTABUF_LEN_DEFAULT * j.nchan)

\* What the decoder may take of a code.
AcceptableIn(j, cs) == \A i \in DOMAIN cs : cs[i].unary <= get_unary_lax_limit(j.samplebytes)

ModestIn(j, cs) == \A i \in DOMAIN cs : cs[i].unary <= 8 * UnaryMaxBytes[j.samplebytes]

-----------------------------------------------------------------------------
Privs(j, n) ==
  {p \in [cache : Seq(Bit), codec : Seq(Channel)] : Len(p.cache) <= n /\ Len(p.codec) = j.nchan}

Users ==
  [ncalls_codec : 0..NCALLS_MAX, crc : Seq(Byte), fini : BOOLEAN, ni32 : Nat,
   ni32_total : Nat, nbytes_tta : Nat, nbytes_tta_total : Nat]

\* The encoder after g groups: the channels, bytes and codes are those of one
\* call on an endless buffer, only the cache may hold more of them or less.
EncodedTo(j, g, p, bytes, cs) ==
  LET F == CodedOf(j)
  IN  /\ p.codec = F[g].codec
      /\ cs = AllCodes(F, g)
      /\ FlattenSeq(bytes) \o p.cache = Bits(F, g)

\* The decoder of a sound frame after g groups and so many bytes: its channels
\* are those the encoder had, and it has before it what is left of the bits.
DecodedTo(j, g, p, src, ntaken, s) ==
  LET F == CodedOf(j)
  IN  /\ p.codec = F[g].codec
      /\ s = SubSeq(SamplesOf(j), 1, g * j.nchan)
      /\ ntaken <= Len(src)
      /\ Bits(F, g) \o (p.cache \o FlattenSeq(SubSeq(src, ntaken + 1, Len(src))))
           = FlattenSeq(src)

-----------------------------------------------------------------------------
EncCalls(j) ==
  [op : {"encode"},
   misc : [dest_len : Nat, src_len : Nat, ni32_target : Nat, ni32_perframe : {SizeOf(j)},
           samplebytes : {j.samplebytes}, nchan : {j.nchan}, aligned : BOOLEAN],
   ni32 : Nat, nbytes : Nat]

DecCalls(j) ==
  [op : {"decode"},
   misc : [dest_len : Nat, src_len : Nat, ni32_target : Nat, nbytes_tta_target : Nat,
           ni32_perframe : {SizeOf(j)}, nbytes_tta_perframe : {Len(FrameOf(j))},
           samplebytes : {j.samplebytes}, nchan : {j.nchan}, aligned : BOOLEAN],
   ni32 : Nat, nbytes : Nat]

\* Multiples of n.
Divides(n, a) == a % n = 0

\* A call in progress asked for whole groups, and no more than are left.
Within(j, c, u) ==
  /\ Divides(j.nchan, c.ni32) /\ Divides(j.nchan, c.misc.ni32_target)
  /\ c.ni32 <= c.misc.ni32_target
  /\ u.ni32_total + c.misc.ni32_target <= SizeOf(j)

\* The command line program offers all the rest of frame and buffer.
EncCallOK(j, c, u, len) ==
  /\ c \in EncCalls(j) /\ Within(j, c, u)
  /\ c.misc.dest_len >= MarginOf(j)
  /\ j.caller = "cli" =>
       /\ u.nbytes_tta_total + c.misc.dest_len = len
       /\ u.ni32_total + c.misc.ni32_target = SizeOf(j)

\* The loop of the decoder ends a margin before its buffer does, and that of
\* the command line program not before the frame does.
DecCallOK(j, c, u) ==
  /\ c \in DecCalls(j) /\ Within(j, c, u)
  /\ read_soft_limit(c.misc) \in Nat
  /\ read_soft_limit(c.misc) + MarginOf(j) <= c.misc.src_len
  /\ c.nbytes <= c.misc.src_len
  /\ j.caller = "cli" =>
       /\ u.ncalls_codec = 0 /\ u.ni32_total = 0 /\ u.nbytes_tta_total = 0
       /\ c.misc.ni32_target = SizeOf(j)
       /\ Len(FrameOf(j)) <= read_soft_limit(c.misc)

-----------------------------------------------------------------------------
\* Samples and bytes the codec went through, in all calls; whether one began.
Done   == user.ni32_total + (IF call = Idle THEN 0 ELSE call.ni32)
Taken  == user.nbytes_tta_total + (IF call = Idle THEN 0 ELSE call.nbytes)
Active == user.ncalls_codec > 0 \/ call # Idle

BaseInv ==
  /\ job \in Jobs /\ pcm = SamplesOf(job)
  /\ stage \in {"encode", "failed", "decode", "end"}
  /\ user \in Users
  /\ call # Idle => status = "OK"
  /\ call = Idle \/ stage \in {"encode", "decode"}

\* While modest codes are written there is room for what is in the cache.
RoomInv ==
  ModestIn(job, codes) =>
    /\ call # Idle => 8 * call.nbytes + Len(priv.cache) + 7 <= 8 * call.misc.dest_len
    /\ job.caller = "cli" => Len(tta) <= ttabuf_len

\* The command line program, as long as no group outgrows the buffer.
GrowthInv(g) ==
  job.caller = "cli" /\ ~BurstIn(job, g) =>
    /\ stage = "encode"
    /\ call # Idle =>
         call.nbytes + MarginOf(job) <= call.misc.dest_len + TTABUF_LEN_DEFAULT * job.nchan
    /\ call = Idle =>
         /\ status \in {"none", "OK_AGAIN", "OK_DONE"}
         /\ status = "OK_AGAIN" =>
              Len(tta) + MarginOf(job) <= ttabuf_len + TTABUF_LEN_DEFAULT * job.nchan

EncInv(g) ==
  /\ out = <<>> /\ ~damaged /\ pad = 0
  /\ priv \in Privs(job, 39 + KMax)
  /\ tta \in Seq(Byte) /\ Len(tta) = Taken /\ user.crc = tta
  /\ codes = AllCodes(CodedOf(job), g)
  /\ Done = g * job.nchan
  /\ call = Idle \/ EncCallOK(job, call, user, ttabuf_len)
  /\ user.fini <=> status = "OK_DONE"
  /\ user.fini => g = GroupsOf(job) /\ tta = FrameOf(job) /\ priv.cache = <<>>
  /\ ~user.fini /\ Active => EncodedTo(job, g, priv, tta, codes)
  /\ ~Active => user = LIBTTAr_CODECSTATE_USER_INIT
  /\ ttabuf_len \in Nat
  /\ job.caller = "cli" /\ call = Idle =>
       /\ status = "none" => ~Active /\ ttabuf_len = encbuf_init(job.nchan)
       /\ status = "OK_AGAIN" => Done < SizeOf(job) /\ Active
  /\ stage = "failed" => job.caller = "cli"
  /\ RoomInv
  /\ GrowthInv(g)

\* What a call of the decoder that ended found.
EndedInv ==
  /\ status \in {"OK_DONE", "FAIL_DECODE", "OK_AGAIN"} => user.ncalls_codec > 0
  /\ status = "OK_DONE" =>
       /\ call = Idle /\ user.fini
       /\ user.ni32_total = SizeOf(job) /\ user.nbytes_tta_total = Len(FrameOf(job))
       /\ Len(out) = SizeOf(job)
  /\ status = "FAIL_DECODE" /\ (stage = "decode" \/ job.caller = "api") =>
       /\ call = Idle
       /\ \/ user.ni32_total # SizeOf(job)
          \/ user.nbytes_tta_total # Len(FrameOf(job))
       /\ \/ user.ni32_total >= SizeOf(job)
          \/ user.nbytes_tta_total >= Len(FrameOf(job))
  /\ job.caller = "cli" =>
       /\ Sound => status # "FAIL_DECODE"
       /\ stage = "decode" /\ call = Idle => status \in {"none", "OK_DONE", "FAIL_DECODE"}
       /\ status = "none" => ~Active
  /\ stage = "end" => status \in {"OK_DONE", "FAIL_DECODE"}

DecInv(g) ==
  /\ codes = AllCodes(CodedOf(job), GroupsOf(job))
  /\ frame = [bytes |-> FrameOf(job), crc |-> FrameOf(job)]
  /\ tta \in Seq(Byte) /\ Len(tta) = ttabuf_len
  /\ ttabuf_len = decbuf_check_adjust(job.nchan, Len(FrameOf(job)))
  /\ ~damaged => SubSeq(tta, 1, Len(FrameOf(job))) = FrameOf(job)
  /\ priv \in Privs(job, 7)
  /\ user.crc = BytesUpTo(tta, Taken)
  /\ out \in Seq(Int32) /\ Len(out) = g * job.nchan
  /\ call = Idle \/ DecCallOK(job, call, user)
  /\ IF stage = "end" /\ job.caller = "cli" THEN Len(out) + pad = SizeOf(job)
     ELSE Done = g * job.nchan /\ pad = 0
  /\ user.ni32_total <= SizeOf(job)
  /\ ~Active => user = LIBTTAr_CODECSTATE_USER_INIT
  /\ Sound /\ Active => DecodedTo(job, g, priv, tta, Taken, out)
  /\ EndedInv

\* The inductive invariant.
IInv ==
  /\ BaseInv
  /\ \E g \in 0..GroupsOf(job) :
       IF stage \in {"encode", "failed"} THEN EncInv(g) ELSE DecInv(g)

=============================================================================
