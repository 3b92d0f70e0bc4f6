------------------------------- MODULE Filter -------------------------------
(***************************************************************************)
(* The adaptive filter of a channel (lib/filter/filter._C.h).  The arrays  *)
(* qm, dx and dl of struct Filter are functions over 0..7; the ninth cell  *)
(* the C code uses while it shifts dx and dl is the index 8 below.         *)
(***************************************************************************)
EXTENDS CodecArith

Taps == 0..7

FilterZero ==
  LET zero == [i \in Taps |-> 0] IN [qm |-> zero, dx |-> zero, dl |-> zero, error |-> 0]

-----------------------------------------------------------------------------
\* qm after it moved by dx in the direction of the last error.
updated_a(f) == [i \in Taps |-> Wrap(f.qm[i] + f.dx[i] * f.error)]

\* The sum is made with the updated qm.
filter_sum(a, b, round) ==
  LET r(i) == Wrap(a[i] * b[i])
  IN  Wrap(round + r(0) + r(1) + r(2) + r(3) + r(4) + r(5) + r(6) + r(7))

\* asr32(b, 30) | 1 is the sign of b, with 1 for 0.
updated_m(b, k) == (IF b < 0 THEN -1 ELSE 1) * 2^k

\* dx is filled with the signs of the old dl, then shifted by one.
updated_dx(m, b) ==
  [i \in Taps |-> CASE i < 4 -> m[i + 1]
                    [] i = 4 -> updated_m(b[4], 0)
                    [] i = 5 -> updated_m(b[5], 1)
                    [] i = 6 -> updated_m(b[6], 1)
                    [] i = 7 -> updated_m(b[7], 2)]

\* dl[8] = value, the differences of order 1 to 3 below it, then the shift.
updated_dl(b, value) ==
  LET b7 == Wrap(value - b[7])
      b6 == Wrap(b7 - b[6])
      b5 == Wrap(b6 - b[5])
  IN  [i \in Taps |-> CASE i < 4 -> b[i + 1]
                        [] i = 4 -> b5
                        [] i = 5 -> b6
                        [] i = 6 -> b7
                        [] i = 7 -> value]

\* The filter after a sample: input is the value before the filter in the
\* encoder and after it in the decoder, residue the other one.
FilterNext(f, a, input, residue) ==
  [qm    |-> a,
   dx    |-> updated_dx(f.dx, f.dl),
   dl    |-> updated_dl(f.dl, input),
   error |-> signof32(residue)]

tta_filter_enc(f, value, round, k) ==
  LET a      == updated_a(f)
      retval == Wrap(value - asr32(filter_sum(a, f.dl, round), k))
  IN  [filter |-> FilterNext(f, a, value, retval), value |-> retval]

tta_filter_dec(f, value, round, k) ==
  LET a      == updated_a(f)
      retval == Wrap(value + asr32(filter_sum(a, f.dl, round), k))
  IN  [filter |-> FilterNext(f, a, retval, value), value |-> retval]

=============================================================================
