----------------------------- MODULE CodecArith -----------------------------
(***************************************************************************)
(* The words and the small pure functions of the codec (lib/tta.h): the    *)
(* parameters that depend on the bytes per sample, the shifts, the fixed   *)
(* predictor and the interleaving of signed values.                        *)
(*                                                                         *)
(* int32_t is an integer in -2^(W-1)..2^(W-1)-1 and uint32_t one in        *)
(* 0..2^W-1; sums and products are wrapped where the code keeps 32 bits.   *)
(* In the code W = 32; a small W keeps every product within TLC's integers *)
(* and lets the sums of the filter wrap with a handful of samples.         *)
(***************************************************************************)
EXTENDS Integers

CONSTANTS
  W,            \* bits of an int32_t: 32
  KMax,         \* largest k of the Rice coder: 24
  KInit,        \* k of the Rice coder at the start of a frame: 10
  UnaryMaxBytes \* bytes of the longest unary code the sizes of the buffers
                \* allow for, by bytes per sample: 8192, 8192, 2097152

ASSUME WordAssumption == W \in 10..32 /\ KMax = W - 8 /\ KInit \in 0..KMax

ASSUME UnaryAssumption == UnaryMaxBytes \in [1..3 -> Nat \ {0}]

-----------------------------------------------------------------------------
\* The value of x kept in an int32_t, and in an uint32_t.
Wrap(x) == ((x + 2^(W - 1)) % 2^W) - 2^(W - 1)
U(x)    == x % 2^W

UINT32_MAX == 2^W - 1

asr32(x, k) == x \div 2^k

\* x / 2 in C truncates towards 0.
Half(x) == IF x < 0 THEN -((-x) \div 2) ELSE x \div 2

signof32(x) == IF x < 0 THEN -1 ELSE IF x > 0 THEN 1 ELSE 0

-----------------------------------------------------------------------------
get_predict_k(samplebytes)    == IF samplebytes = 1 THEN 4 ELSE 5
get_filter_round(samplebytes) == IF samplebytes = 2 THEN 256 ELSE 512
get_filter_k(samplebytes)     == IF samplebytes = 2 THEN 9 ELSE 10

\* The product is not wrapped: its overflow is answered with 0 for channel
\* counts that no buffer could hold.
get_safety_margin(samplebytes, nchan) ==
  (UnaryMaxBytes[samplebytes] + 15) * nchan

\* The shift is made on 64 bits, so only the result is cut to 32.
tta_predict1(x, k) == Wrap((x * (2^k - 1)) \div 2^k)

(***************************************************************************)
(* 0, 1, -1, 2, -2 ... to 0, 1, 2, 3, 4 ... and back.  The code has each   *)
(* function twice: without branches, and with conditional moves when it is *)
(* built with LIBTTAr_OPT_PREFER_CONDITIONAL_MOVES.                        *)
(***************************************************************************)
tta_postfilter_enc(x) ==
  LET y == U(-x)
      d == U(2 * y)
  IN  IF y >= 2^(W - 1) THEN UINT32_MAX - d ELSE d

tta_postfilter_enc_cmov(x) == IF x > 0 THEN U(2 * x - 1) ELSE U(-2 * x)

tta_prefilter_dec(x) ==
  LET h == x \div 2
  IN  Wrap(-(IF x % 2 = 1 THEN UINT32_MAX - h ELSE h))

tta_prefilter_dec_cmov(x) ==
  LET y == Wrap(x)
  IN  IF x % 2 = 1 THEN asr32(Wrap(y + 1), 1) ELSE asr32(Wrap(-y), 1)

=============================================================================
