------------------------------ MODULE TTACodec ------------------------------
(***************************************************************************)
(* The two codec functions of the library, libttaR_tta_encode and          *)
(* libttaR_tta_decode, called any number of times for one frame            *)
(* (lib/3-0_tta_enc.c, 3-1_tta_dec.c, tta_enc.h, tta_dec.h, tta_state.h).  *)
(* A call is checked and entered by EncCall or DecCall, codes one sample   *)
(* of every channel with each EncStep or DecStep, and returns with         *)
(* EncReturn or DecReturn.  Who calls, and with which arguments, is left   *)
(* to the module that extends this one; the pointers it passes are those   *)
(* behind the samples and bytes already coded.                             *)
(*                                                                         *)
(* A checksum is the sequence of bytes it was computed from, marked final  *)
(* by CRC32_FINI: the codec only feeds it, and the caller compares it.     *)
(***************************************************************************)
EXTENDS Filter, Rice24, SequencesExt

CONSTANT NCALLS_MAX  \* the largest ncalls_codec: UINT32_MAX

ASSUME CallsAssumption == NCALLS_MAX \in Nat \ {0}

VARIABLES
  priv,    \* struct LibTTAr_CodecState_Priv: the bit cache and the channels
  user,    \* struct LibTTAr_CodecState_User
  call,    \* the call in progress and its arguments, or Idle
  status,  \* what the last call returned
  pcm,     \* the samples the encoder reads
  tta,     \* the bytes the encoder wrote; the buffer the decoder reads
  out,     \* the samples the decoder wrote
  codes    \* history: the codes written for the samples of the frame

codecVars == <<priv, user, call, status, pcm, tta, out, codes>>

Idle == [op |-> "none"]

LIBTTAr_CODECSTATE_USER_INIT ==
  [ncalls_codec |-> 0, crc |-> <<>>, fini |-> FALSE, ni32 |-> 0, ni32_total |-> 0,
   nbytes_tta |-> 0, nbytes_tta_total |-> 0]

codec_init(nchan) ==
  [j \in 1..nchan |-> [filter |-> FilterZero, rice |-> RiceInit, prev |-> 0]]

\* Mutant of state_priv_init: the bit cache is left as it is.
state_priv_init_cache(nchan) == [cache |-> priv.cache, codec |-> codec_init(nchan)]

state_priv_init(nchan) == [cache |-> <<>>, codec |-> codec_init(nchan)]

-----------------------------------------------------------------------------
\* The checks both functions start with.
BaseCheck(misc) ==
  IF misc.samplebytes \notin 1..3 THEN "INVAL_RANGE"
  ELSE IF ~misc.aligned THEN "INVAL_ALIGN" ELSE "OK"

Margin(misc) == get_safety_margin(misc.samplebytes, misc.nchan)

EncParamChecks(misc) ==
  IF 0 \in {misc.dest_len, misc.src_len, misc.ni32_target, misc.ni32_perframe, misc.nchan}
    THEN "INVAL_RANGE"
  ELSE IF misc.ni32_target % misc.nchan # 0 THEN "INVAL_TRUNC"
  ELSE IF \/ misc.dest_len < Margin(misc)
          \/ misc.ni32_target > misc.src_len
          \/ misc.ni32_perframe < user.ni32_total
          \/ misc.ni32_target > misc.ni32_perframe - user.ni32_total
    THEN "INVAL_BOUNDS"
  ELSE "OK"

\* The samples left of a frame are an unsigned difference, which wraps beyond
\* every target where more samples were decoded than the frame has (unlike the
\* encoder's, it is not looked at before it is taken).
ExceedsRest(target, perframe, total) == total <= perframe /\ target > perframe - total

DecParamChecks(misc) ==
  IF 0 \in {misc.dest_len, misc.src_len, misc.ni32_target, misc.nbytes_tta_target,
            misc.ni32_perframe, misc.nbytes_tta_perframe, misc.nchan}
    THEN "INVAL_RANGE"
  ELSE IF misc.ni32_target % misc.nchan # 0 THEN "INVAL_TRUNC"
  ELSE IF \/ misc.ni32_target > misc.dest_len
          \/ ExceedsRest(misc.ni32_target, misc.ni32_perframe, user.ni32_total)
          \/ misc.src_len < Margin(misc)
          \/ misc.src_len < misc.nbytes_tta_target
          \/ misc.nbytes_tta_perframe < user.nbytes_tta_total
          \/ misc.nbytes_tta_target > misc.nbytes_tta_perframe - user.nbytes_tta_total
    THEN "INVAL_BOUNDS"
  ELSE "OK"

\* The entry of op: a call that is refused before the first that completes
\* leaves priv initialised, which the next one does again.
Enter(op, misc, paramcheck) ==
  /\ call = Idle
  /\ priv' = IF BaseCheck(misc) = "OK" /\ user.ncalls_codec = 0
               THEN state_priv_init(misc.nchan) ELSE priv
  /\ LET verdict == IF BaseCheck(misc) = "OK" THEN paramcheck ELSE BaseCheck(misc)
     IN  /\ status' = verdict
         /\ call' = IF verdict = "OK"
                      THEN [op |-> op, misc |-> misc, ni32 |-> 0, nbytes |-> 0] ELSE Idle
  /\ UNCHANGED <<user, pcm, tta, out, codes>>

EncCall(misc) == Enter("encode", misc, EncParamChecks(misc))
DecCall(misc) == Enter("decode", misc, DecParamChecks(misc))

-----------------------------------------------------------------------------
\* The samples of a group, decorrelated: differences of neighbours, and the
\* last channel less half the difference before it; and back.
Decorrelated(s) ==
  [j \in DOMAIN s |->
     IF j < Len(s) THEN Wrap(s[j + 1] - s[j])
     ELSE IF Len(s) = 1 THEN s[j] ELSE Wrap(s[j] - Half(Wrap(s[j] - s[j - 1])))]

Correlated(x) ==
  LET n == Len(x)
      s[j \in 1..n] ==
        IF j < n THEN Wrap(s[j + 1] - x[j])
        ELSE IF n = 1 THEN x[n] ELSE Wrap(x[n] + Half(x[n - 1]))
  IN  [j \in 1..n |-> s[j]]

\* TTAENC_ENCODE: a value of a channel through predictor, filter and coder.
EncodeValue(c, w, x, samplebytes) ==
  LET curr == Wrap(x - tta_predict1(c.prev, get_predict_k(samplebytes)))
      f    == tta_filter_enc(c.filter, curr, get_filter_round(samplebytes),
                             get_filter_k(samplebytes))
      u    == tta_postfilter_enc(f.value)
      e    == rice24_encode(w, c.rice, u)
  IN  [c    |-> [filter |-> f.filter, rice |-> e.rice, prev |-> x],
       w    |-> e.w,
       code |-> RiceCode(c.rice, u)]

\* TTADEC_DECODE: the same backwards.
TTADEC_PREDICT(c, d, f, samplebytes) ==
  LET x == Wrap(f.value + tta_predict1(c.prev, get_predict_k(samplebytes)))
  IN  [c |-> [filter |-> f.filter, rice |-> d.rice, prev |-> x], r |-> d.r, x |-> x]

TTADEC_FILTER(c, d, samplebytes) ==
  TTADEC_PREDICT(c, d, tta_filter_dec(c.filter, tta_prefilter_dec(d.value),
                                      get_filter_round(samplebytes), get_filter_k(samplebytes)),
                 samplebytes)

DecodeValue(c, r, samplebytes) ==
  TTADEC_FILTER(c, rice24_decode(r, c.rice, get_unary_lax_limit(samplebytes)), samplebytes)

\* The channels of a group one after the other, on one bit cache.
EncodeNext(codec, g, x, samplebytes) ==
  LET e == EncodeValue(codec[Len(g.codes) + 1], g.w, x, samplebytes)
  IN  [codec |-> Append(g.codec, e.c), w |-> e.w, codes |-> Append(g.codes, e.code)]

EncodeGroup(codec, w, s, samplebytes) ==
  LET g[j \in 0..Len(s)] ==
        IF j = 0 THEN [codec |-> <<>>, w |-> w, codes |-> <<>>]
        ELSE EncodeNext(codec, g[j - 1], Decorrelated(s)[j], samplebytes)
  IN  g[Len(s)]

DecodeNext(c, g, samplebytes) ==
  LET d == DecodeValue(c, g.r, samplebytes)
  IN  [codec |-> Append(g.codec, d.c), r |-> d.r, x |-> Append(g.x, d.x)]

DecodeGroup(codec, r, samplebytes) ==
  LET g[j \in 0..Len(codec)] ==
        IF j = 0 THEN [codec |-> <<>>, r |-> r, x |-> <<>>]
        ELSE DecodeNext(codec[j], g[j - 1], samplebytes)
  IN  g[Len(codec)]

-----------------------------------------------------------------------------
\* Mutant of read_soft_limit: the margin is taken off the target.
read_soft_limit_less(misc) == misc.nbytes_tta_target - Margin(misc)

\* The loop goes on: a target not reached, and a buffer not yet within the
\* margin of its end.
write_soft_limit(misc) == misc.dest_len - Margin(misc)

read_soft_limit(misc) ==
  IF misc.nbytes_tta_target < Margin(misc) THEN misc.src_len - Margin(misc)
  ELSE misc.nbytes_tta_target

Looping(op, limit) ==
  /\ call.op = op
  /\ call.ni32 < call.misc.ni32_target
  /\ call.nbytes <= limit

\* What the group g that was encoded leaves.
EncGroup(g) ==
  /\ priv'  = [cache |-> g.w.cache, codec |-> g.codec]
  /\ user'  = [user EXCEPT !.crc = g.w.crc]
  /\ tta'   = tta \o g.w.dest
  /\ codes' = codes \o g.codes
  /\ call'  = [call EXCEPT !.ni32 = @ + call.misc.nchan, !.nbytes = @ + Len(g.w.dest)]

Writer == [cache |-> priv.cache, dest |-> <<>>, crc |-> user.crc]

EncStep ==
  /\ call.op = "encode"
  /\ Looping("encode", write_soft_limit(call.misc))
  /\ LET at == user.ni32_total + call.ni32
     IN  EncGroup(EncodeGroup(priv.codec, Writer, SubSeq(pcm, at + 1, at + call.misc.nchan),
                              call.misc.samplebytes))
  /\ UNCHANGED <<status, pcm, out>>

\* What the group g that was decoded leaves.
DecGroup(g) ==
  /\ priv' = [cache |-> g.r.cache, codec |-> g.codec]
  /\ user' = [user EXCEPT !.crc = g.r.crc]
  /\ out'  = out \o Correlated(g.x)
  /\ call' = [call EXCEPT !.ni32   = @ + call.misc.nchan,
                          !.nbytes = g.r.nbytes - user.nbytes_tta_total]

Reader == [cache  |-> priv.cache, src |-> tta, crc |-> user.crc,
           nbytes |-> user.nbytes_tta_total + call.nbytes]

DecStep ==
  /\ call.op = "decode"
  /\ Looping("decode", read_soft_limit(call.misc))
  /\ DecGroup(DecodeGroup(priv.codec, Reader, call.misc.samplebytes))
  /\ UNCHANGED <<status, pcm, tta, codes>>

-----------------------------------------------------------------------------
\* Mutant of Counted: the number of calls wraps.
CountedWrapping(u, ni32, nbytes) ==
  [u EXCEPT !.ncalls_codec     = (@ + 1) % (NCALLS_MAX + 1),
            !.ni32             = ni32,
            !.ni32_total       = @ + ni32,
            !.nbytes_tta       = nbytes,
            !.nbytes_tta_total = @ + nbytes]

\* What a call that returns adds to user.
Counted(u, ni32, nbytes) ==
  [u EXCEPT !.ncalls_codec     = IF @ = NCALLS_MAX THEN @ ELSE @ + 1,
            !.ni32             = ni32,
            !.ni32_total       = @ + ni32,
            !.nbytes_tta       = nbytes,
            !.nbytes_tta_total = @ + nbytes]

\* TTAENC_POSTLOOP: the end of the frame flushes the cache and closes the
\* checksum.
EncReturn ==
  /\ call.op = "encode"
  /\ ~Looping("encode", write_soft_limit(call.misc))
  /\ LET done == user.ni32_total + call.ni32 = call.misc.ni32_perframe
         v    == IF done THEN rice24_encode_cacheflush(Writer) ELSE Writer
     IN  /\ priv'   = [priv EXCEPT !.cache = v.cache]
         /\ tta'    = tta \o v.dest
         /\ user'   = Counted([user EXCEPT !.crc = v.crc, !.fini = @ \/ done],
                              call.ni32, call.nbytes + Len(v.dest))
         /\ status' = IF done THEN "OK_DONE" ELSE "OK_AGAIN"
  /\ call' = Idle
  /\ UNCHANGED <<pcm, out, codes>>

\* TTADEC_POSTLOOP: the frame ends with its last sample or its last byte,
\* and is sound only if it ends with both.
DecReturn ==
  /\ call.op = "decode"
  /\ ~Looping("decode", read_soft_limit(call.misc))
  /\ LET u     == Counted(user, call.ni32, call.nbytes)
         ended == \/ u.ni32_total >= call.misc.ni32_perframe
                  \/ u.nbytes_tta_total >= call.misc.nbytes_tta_perframe
         exact == /\ u.ni32_total = call.misc.ni32_perframe
                  /\ u.nbytes_tta_total = call.misc.nbytes_tta_perframe
     IN  /\ user'   = [u EXCEPT !.fini = @ \/ ended]
         /\ status' = IF ~ended THEN "OK_AGAIN"
                      ELSE IF exact THEN "OK_DONE" ELSE "FAIL_DECODE"
  /\ call' = Idle
  /\ UNCHANGED <<priv, pcm, tta, out, codes>>

CodecStep == EncStep \/ EncReturn \/ DecStep \/ DecReturn

=============================================================================
