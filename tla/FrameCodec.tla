----------------------------- MODULE FrameCodec -----------------------------
(***************************************************************************)
(* A frame on its way through the codec: PCM to samples, samples to TTA    *)
(* bytes, the bytes stored, and back.  The caller is the command line      *)
(* program (enc_frame_encode, dec_frame_decode and cli/modes/bufs.c) or a  *)
(* program that uses the library as its manual allows (man/                *)
(* libttaR_tta_encode.3): in calls of any size, on buffers just long       *)
(* enough, and now and then with arguments the library refuses.            *)
(*                                                                         *)
(* Between the two halves the frame may be damaged, and the decoder finds  *)
(* whatever was in its buffer before behind the frame.                     *)
(***************************************************************************)
EXTENDS TTACodec, FilterSIMD, Pcm

CONSTANTS
  Jobs,              \* [caller, rude, samplebytes, nchan, bytes]: the frames
  DamageAt,          \* positions at which a stored frame may be damaged
  TTABUF_LEN_DEFAULT \* BUFSIZ: what a buffer has and grows by, per channel

\* A frame has samples, the same number in every channel, and three bytes of
\* PCM fit a word.
ASSUME JobsAssumption ==
  \A j \in Jobs :
    /\ j.caller \in {"cli", "api"} /\ j.rude \in BOOLEAN
    /\ j.samplebytes \in 1..3 /\ j.nchan \in Nat \ {0}
    /\ j.bytes \in Seq(0..(2^ByteBits - 1)) /\ Len(j.bytes) > 0
    /\ Len(j.bytes) % j.samplebytes = 0
    /\ (Len(j.bytes) \div j.samplebytes) % j.nchan = 0

ASSUME BufferAssumption == TTABUF_LEN_DEFAULT \in Nat \ {0} /\ 3 * ByteBits <= W

VARIABLES
  job,        \* the frame and who codes it
  stage,      \* "encode", "decode", "end", or "failed"
  ttabuf_len, \* length of the caller's buffer of TTA bytes
  frame,      \* the frame as it was encoded: bytes and checksum
  damaged,    \* whether it was changed before it was decoded
  pad         \* samples dec_frame_decode has its caller pad with

vars == <<codecVars, job, stage, ttabuf_len, frame, damaged, pad>>

-----------------------------------------------------------------------------
NFlat   == Len(job.bytes) \div job.samplebytes
margin  == get_safety_margin(job.samplebytes, job.nchan)
Samples == libttaR_pcm_read(job.bytes, NFlat, job.samplebytes)

\* A priv that malloc returned, or that coded another frame.
UsedPriv(nchan) ==
  [cache |-> Ones(3),
   codec |-> [j \in 1..nchan |->
               [filter |-> [FilterZero EXCEPT !.error = 1, !.dl[7] = 5],
                rice   |-> [RiceInit EXCEPT !.k[0] = KMax], prev |-> 3]]]

\* Lengths of the buffer of TTA bytes (cli/modes/bufs.c).
encbuf_init(nchan) == TTABUF_LEN_DEFAULT * nchan + margin

\* Mutant of encbuf_adjust: the length is not that of one channel.
encbuf_adjust_1ch(len, nchan) == len + TTABUF_LEN_DEFAULT

encbuf_adjust(len, nchan) == len + TTABUF_LEN_DEFAULT * nchan

decbuf_check_adjust(nchan, nbytes_tta_perframe) ==
  Max({TTABUF_LEN_DEFAULT * nchan, nbytes_tta_perframe}) + margin

Init ==
  /\ job \in Jobs
  /\ stage = "encode"
  /\ ttabuf_len = encbuf_init(job.nchan)
  /\ pcm = Samples
  /\ priv = UsedPriv(job.nchan)
  /\ user = LIBTTAr_CODECSTATE_USER_INIT
  /\ call = Idle /\ status = "none"
  /\ tta = <<>> /\ out = <<>> /\ codes = <<>>
  /\ frame = [bytes |-> <<>>, crc |-> <<>>] /\ damaged = FALSE /\ pad = 0

callerVars == <<job, stage, frame, damaged, pad>>

-----------------------------------------------------------------------------
EncMisc(dest_len, src_len, ni32_target) ==
  [dest_len |-> dest_len, src_len |-> src_len, ni32_target |-> ni32_target,
   ni32_perframe |-> NFlat, samplebytes |-> job.samplebytes, nchan |-> job.nchan,
   aligned |-> TRUE]

\* The rest of the frame, in the rest of the buffers.
CliEncMisc(len) ==
  EncMisc(len - user.nbytes_tta_total, NFlat - user.ni32_total, NFlat - user.ni32_total)

Encoding(caller) == stage = "encode" /\ job.caller = caller /\ call = Idle

enc_frame_encode ==
  /\ Encoding("cli") /\ status = "none"
  /\ EncCall(CliEncMisc(ttabuf_len))
  /\ UNCHANGED <<callerVars, ttabuf_len>>

\* A longer buffer and the next turn of the loop.
enc_frame_encode_again ==
  /\ Encoding("cli") /\ status = "OK_AGAIN"
  /\ ttabuf_len' = encbuf_adjust(ttabuf_len, job.nchan)
  /\ EncCall(CliEncMisc(ttabuf_len'))
  /\ UNCHANGED callerVars

\* Any other status ends the loop and the program.
enc_frame_encode_fails ==
  /\ Encoding("cli") /\ status \notin {"none", "OK_AGAIN", "OK_DONE"}
  /\ stage' = "failed"
  /\ UNCHANGED <<codecVars, job, ttabuf_len, frame, damaged, pad>>

\* The sizes of a call: one sample of every channel, or all that are left.
\* A caller that has nothing left to offer stops calling.
Chunks == {job.nchan, NFlat - user.ni32_total}

Refused == {"INVAL_RANGE", "INVAL_ALIGN", "INVAL_TRUNC", "INVAL_BOUNDS"}

ApiEncode ==
  /\ Encoding("api") /\ status # "OK_DONE" /\ NFlat > user.ni32_total
  /\ \E n \in Chunks, room \in {0, 1} : EncCall(EncMisc(margin + room, n, n))
  /\ UNCHANGED <<callerVars, ttabuf_len>>

\* Calls that violate the manual in one argument.
RudeEncode ==
  /\ Encoding("api") /\ job.rude /\ status \notin Refused \cup {"OK_DONE"}
  /\ LET ok == EncMisc(margin, job.nchan, job.nchan)
     IN  \E misc \in {[ok EXCEPT !.dest_len = @ - 1], [ok EXCEPT !.src_len = @ - 1],
                      [ok EXCEPT !.ni32_target = NFlat + job.nchan, !.src_len = 2 * NFlat],
                      [ok EXCEPT !.ni32_target = @ + 1, !.src_len = @ + 1],
                      [ok EXCEPT !.ni32_target = 0], [ok EXCEPT !.samplebytes = 4],
                      [ok EXCEPT !.aligned = FALSE]} :
           /\ (IF BaseCheck(misc) = "OK" THEN EncParamChecks(misc) ELSE BaseCheck(misc)) # "OK"
           /\ EncCall(misc)
  /\ UNCHANGED <<callerVars, ttabuf_len>>

-----------------------------------------------------------------------------
\* A frame with one byte overwritten, or all of them; DamageAt bounds where.
Damage(bytes) ==
  {[i \in DOMAIN bytes |-> Ones(8)]} \cup
  {[bytes EXCEPT ![i] = b] : i \in (DamageAt \cup {Len(bytes)}) \cap DOMAIN bytes,
                             b \in {Ones(8), Zeros(8)}}

\* The frame is written, and read into a buffer of its size and the margin,
\* with old bytes behind it.
StoreAndLoad ==
  /\ stage = "encode" /\ call = Idle /\ status = "OK_DONE"
  /\ stage' = "decode"
  /\ frame' = [bytes |-> tta, crc |-> user.crc]
  /\ ttabuf_len' = decbuf_check_adjust(job.nchan, Len(tta))
  /\ \E bytes \in {tta} \cup Damage(tta), stale \in {Ones(8), Zeros(8)} :
       /\ damaged' = (bytes # tta)
       /\ tta' = bytes \o [i \in 1..(ttabuf_len' - Len(tta)) |-> stale]
  /\ user' = LIBTTAr_CODECSTATE_USER_INIT
  /\ status' = "none"
  /\ UNCHANGED <<priv, call, pcm, out, codes, job, pad>>

-----------------------------------------------------------------------------
DecMisc(dest_len, src_len, ni32_target, nbytes_tta_target) ==
  [dest_len |-> dest_len, src_len |-> src_len, ni32_target |-> ni32_target,
   nbytes_tta_target |-> nbytes_tta_target, ni32_perframe |-> NFlat,
   nbytes_tta_perframe |-> Len(frame.bytes), samplebytes |-> job.samplebytes,
   nchan |-> job.nchan, aligned |-> TRUE]

Decoding(caller) == stage = "decode" /\ job.caller = caller /\ call = Idle

dec_frame_decode ==
  /\ Decoding("cli") /\ status = "none"
  /\ DecCall(DecMisc(NFlat, ttabuf_len, NFlat, Len(frame.bytes)))
  /\ UNCHANGED <<callerVars, ttabuf_len>>

\* A frame that failed is padded to its length.
dec_frame_decode_returns ==
  /\ Decoding("cli") /\ status # "none"
  /\ stage' = "end"
  /\ IF status = "FAIL_DECODE"
       THEN /\ pad' = NFlat - user.ni32_total
            /\ user' = [user EXCEPT !.ni32_total = NFlat]
       ELSE UNCHANGED <<pad, user>>
  /\ UNCHANGED <<priv, call, status, pcm, tta, out, codes, job, ttabuf_len, frame, damaged>>

\* Bytes are offered one by one or all at once, padded with the margin.
ApiDecode ==
  /\ Decoding("api") /\ status \in {"none", "OK_AGAIN"} \cup Refused
  /\ LET left == Len(frame.bytes) - user.nbytes_tta_total
     IN  /\ left > 0
         /\ \E n \in Chunks, t \in {1, left} : DecCall(DecMisc(n, t + margin, n, t))
  /\ UNCHANGED <<callerVars, ttabuf_len>>

RudeDecode ==
  /\ Decoding("api") /\ job.rude /\ status \in {"none", "OK_AGAIN"}
  /\ LET ok == DecMisc(job.nchan, 1 + margin, job.nchan, 1)
     IN  \E misc \in {[ok EXCEPT !.src_len = margin - 1], [ok EXCEPT !.dest_len = @ - 1],
                      [ok EXCEPT !.nbytes_tta_target = Len(frame.bytes) + 1,
                                 !.src_len = Len(frame.bytes) + 1 + margin],
                      [ok EXCEPT !.nbytes_tta_target = 0], [ok EXCEPT !.samplebytes = 0],
                      [ok EXCEPT !.aligned = FALSE]} :
           DecCall(misc)
  /\ UNCHANGED <<callerVars, ttabuf_len>>

ApiDecoded ==
  /\ Decoding("api") /\ status \in {"OK_DONE", "FAIL_DECODE"}
  /\ stage' = "end"
  /\ UNCHANGED <<codecVars, job, ttabuf_len, frame, damaged, pad>>

Working == CodecStep /\ UNCHANGED <<callerVars, ttabuf_len>>

Next ==
  \/ enc_frame_encode \/ enc_frame_encode_again \/ enc_frame_encode_fails
  \/ ApiEncode \/ RudeEncode
  \/ StoreAndLoad
  \/ dec_frame_decode \/ dec_frame_decode_returns
  \/ ApiDecode \/ RudeDecode \/ ApiDecoded
  \/ Working

Ended   == stage \in {"end", "failed"}
Stopped == Ended /\ UNCHANGED vars

(***************************************************************************)
(* The caller keeps calling, and a call keeps running.  The fairness is    *)
(* WF_vars(Next) with ENABLED Next written as ~Ended, for TLC's sake: that *)
(* some step is possible until the end is checked as absence of deadlock,   *)
(* and no caller repeats a call that changes nothing.                      *)
(***************************************************************************)
Fairness == []<>Ended \/ []<><<Next>>_vars

Spec == Init /\ [][Next \/ Stopped]_vars /\ Fairness
-----------------------------------------------------------------------------
CodeBits(c) == Ones(c.unary) \o <<0>> \o BitsOf(c.binary, c.bin_k)

\* Nothing happened to the frame, and the decoder accepts its longest code.
Acceptable == \A i \in DOMAIN codes : codes[i].unary <= get_unary_lax_limit(job.samplebytes)
Sound      == ~damaged /\ Acceptable

\* No code of the frame is longer than the sizes of the buffers allow for.
ModestCodes == \A i \in DOMAIN codes : codes[i].unary <= 8 * UnaryMaxBytes[job.samplebytes]

\* The bits of the codes of group g.
GroupBits(g) == FlattenSeq([j \in 1..job.nchan |-> CodeBits(codes[(g - 1) * job.nchan + j])])

\* The bits of bytes, picked by position: a frame may have hundreds of bytes,
\* too many for TLC to join them by a recursion over the bytes.
BitsIn(bytes) == [i \in 1..(8 * Len(bytes)) |-> bytes[(i + 7) \div 8][((i - 1) % 8) + 1]]

\* The frame as one call would code it on an endless buffer.
OneCallFrame ==
  LET group(g) == SubSeq(pcm, (g - 1) * job.nchan + 1, g * job.nchan)
      coded[g \in 0..(NFlat \div job.nchan)] ==
        IF g = 0 THEN [codec |-> codec_init(job.nchan),
                       w     |-> [cache |-> <<>>, dest |-> <<>>, crc |-> <<>>],
                       codes |-> <<>>]
        ELSE EncodeGroup(coded[g - 1].codec, coded[g - 1].w, group(g), job.samplebytes)
  IN  rice24_encode_cacheflush(coded[NFlat \div job.nchan].w).dest

-----------------------------------------------------------------------------
\* Type invariant: k stays within the 26 entries of the threshold table, the
\* bits in the caches within the words that hold them, the sums within theirs.
TypeOK ==
  /\ stage \in {"encode", "decode", "end", "failed"}
  /\ \A j \in DOMAIN priv.codec, i \in 0..1 :
       /\ priv.codec[j].rice.k[i] \in 0..KMax
       /\ priv.codec[j].rice.sum[i] \in 0..UINT32_MAX
  /\ priv.cache \in Seq(Bit)
  /\ Len(priv.cache) <= (IF stage \in {"encode", "failed"} THEN 39 + KMax ELSE 7)
  /\ user.ncalls_codec \in 0..NCALLS_MAX
  /\ user.ni32_total \in 0..NFlat
  /\ Len(out) <= NFlat

\* The bytes written and the bits in the cache are the codes of the samples
\* taken so far, each once and in order, wherever a call ended and however
\* the caches were emptied (tta_enc.h, rice24.h).
StreamHoldsCodes ==
  stage = "encode" /\ ~user.fini /\ user.ncalls_codec + Len(codes) > 0
    => BitsIn(tta) \o priv.cache
         = FlattenSeq([i \in DOMAIN codes |-> CodeBits(codes[i])])

\* A frame coded in any number of calls is the frame one call codes, and its
\* checksum is that of its bytes (libttaR_tta_encode keeps everything a code
\* depends on in priv, and the checksum in user).
ChunksAgree ==
  stage = "encode" /\ status = "OK_DONE" =>
    tta = OneCallFrame /\ user.crc = tta /\ user.fini

\* The encoder stays within the buffer it was given, with room for the bits in
\* its cache that the end of the frame will flush, while no code is longer than
\* 8 * UnaryMaxBytes ones (the sizes RICE24_ENC_MAX and TTABUF_SAFETY_MARGIN
\* stand for).  The decoder stays
\* within its buffer whatever the bytes are: the margin behind the frame takes
\* a code of the limit (RICE24_DEC_MAX, UNARY_LAX_LIMIT).
WithinBuffers ==
  /\ ModestCodes =>
       /\ call.op = "encode" =>
            call.nbytes + (Len(priv.cache) + 7) \div 8 <= call.misc.dest_len
       /\ job.caller = "cli" /\ stage = "encode" => Len(tta) <= ttabuf_len
  /\ call.op = "decode" => call.nbytes <= call.misc.src_len

\* From PCM to PCM: a sound frame that is decoded to its end has the bytes
\* that were encoded and the checksum it was stored with, and the command line
\* program decodes every sound frame to its end.
Lossless ==
  stage = "end" /\ Sound =>
    /\ job.caller = "cli" => status = "OK_DONE"
    /\ status = "OK_DONE" =>
         /\ libttaR_pcm_write(out, NFlat, job.samplebytes) = job.bytes
         /\ user.crc = frame.crc /\ user.fini

\* Command line: one call is enough for any frame, damaged or not, and what
\* it wrote and the padding are the frame's length (the assertion in
\* dec_frame_decode that OK_AGAIN does not happen).
OneCallDecodes ==
  stage = "end" /\ job.caller = "cli" =>
    /\ status \in {"OK_DONE", "FAIL_DECODE"}
    /\ Len(out) + pad = NFlat

\* A sound frame fails only as lib/tta.h says of FAIL_DECODE: "frame finished,
\* but (nbytes_tta_total != nbytes_tta_perframe)", or "frame not finished, but
\* (nbytes_tta_total > nbytes_tta_perframe)".
FailsAsDocumented ==
  stage = "decode" /\ Sound /\ status = "FAIL_DECODE" =>
    IF user.ni32_total >= NFlat THEN user.nbytes_tta_total # Len(frame.bytes)
                                ELSE user.nbytes_tta_total > Len(frame.bytes)

\* What the code does instead: a sound frame decoded in pieces fails in one
\* case, and in no other: the last byte was read exactly, and the samples still
\* to come are all in the bit cache (TTADEC_POSTLOOP).
FailsOnlyOnCachedTail ==
  stage = "end" /\ Sound /\ status = "FAIL_DECODE" =>
    /\ user.nbytes_tta_total = Len(frame.bytes)
    /\ IsStrictPrefix(out, pcm)
    /\ LET rest == SubSeq(codes, Len(out) + 1, Len(codes))
       IN  IsPrefix(FlattenSeq([i \in DOMAIN rest |-> CodeBits(rest[i])]), priv.cache)

\* The program gives up on a frame only if one sample of every channel takes,
\* with what the bit cache held before it, more bytes than the buffer grows by
\* (encbuf_adjust).
GivesUpOnlyOnBursts ==
  stage = "failed" =>
    \E g \in 1..(Len(codes) \div job.nchan) :
      Len(GroupBits(g)) + 39 + KMax > 8 * TTABUF_LEN_DEFAULT * job.nchan

\* The vector units filter as the C code does: from every filter a channel
\* of the encoder reaches, for either residue with the sign the C code keeps, and in both
\* directions, they give the same value and registers that hold the same
\* filter.  On PowerPC as long as no sum of products saturates.
SimdAgrees(f, round, k) ==
  \A arch \in {a \in Arch : a # "ppc" \/ SumsFit(f)} :
    \A value \in {-300, 7}, error \in {f.error, 300 * f.error} :
      LET enc  == tta_filter_enc(f, value, round, k)
          dec  == tta_filter_dec(f, value, round, k)
          regs == Registers(arch, f, error)
      IN  /\ simd_filter_enc(arch, regs, value, round, k) =
               [regs  |-> Registers(arch, enc.filter, enc.value), value |-> enc.value]
          /\ simd_filter_dec(arch, regs, value, round, k) =
               [regs |-> Registers(arch, dec.filter, value), value |-> dec.value]

\* So do the two versions of the interleaving, on values with a bit to spare.
CmovAgrees(x) ==
  -2^(W - 2) < x /\ x < 2^(W - 2) =>
    LET u == tta_postfilter_enc(x)
    IN  /\ tta_postfilter_enc_cmov(x) = u
        /\ tta_prefilter_dec_cmov(u) = tta_prefilter_dec(u)

\* However the library is built it codes the same frame: the three vector
\* versions of the filter and the two of the interleaving compute what the
\* plain C code computes, in every state of the encoder.
BuildsAgree ==
  stage = "encode" =>
    \A j \in DOMAIN priv.codec :
      LET f == priv.codec[j].filter
      IN  /\ SimdAgrees(f, get_filter_round(job.samplebytes), get_filter_k(job.samplebytes))
          /\ \A i \in Taps : CmovAgrees(f.dl[i])

\* Whatever is called, and with whatever refused calls in between, a frame
\* is coded to its end.
FrameEnds == <>Ended

\* A frame that was not damaged comes back as it was (README.md: lossless).
UndamagedIsLossless ==
  stage = "end" /\ job.caller = "cli" /\ ~damaged =>
    libttaR_pcm_write(out, NFlat, job.samplebytes) = job.bytes

\* The codec keeps the promise of LosslessPipe, sample for sample.
Pipe == INSTANCE LosslessPipe WITH
          input   <- pcm,
          taken   <- IF stage \in {"encode", "failed"}
                       THEN user.ni32_total + (IF call = Idle THEN 0 ELSE call.ni32)
                       ELSE Len(pcm),
          sealed  <- stage \in {"decode", "end"},
          spoiled <- stage \in {"decode", "end"} /\ ~Sound,
          output  <- out
KeepsPromise == Pipe!Spec

=============================================================================
