----------------------------- MODULE FilterSIMD -----------------------------
(***************************************************************************)
(* The filter as the vector units compute it (lib/filter/filter.x86.h,     *)
(* filter.arm.h, filter.ppc.h): qm, dx and dl are two registers of four    *)
(* words each, lane 0 first.  x86 and big-endian PowerPC keep the oldest   *)
(* sample in lane 0 of lo, Arm keeps the newest in lane 0 of hi.  In       *)
(* contrast to filter._C.h, error holds the whole residue, not its sign.   *)
(***************************************************************************)
EXTENDS Filter

Arch  == {"x86", "arm", "ppc"}
Lanes == 0..3

\* Where an architecture keeps the taps of an array.
Lo(arch, x) == [i \in Lanes |-> IF arch = "arm" THEN x[3 - i] ELSE x[i]]
Hi(arch, x) == [i \in Lanes |-> IF arch = "arm" THEN x[7 - i] ELSE x[i + 4]]

Registers(arch, f, error) ==
  [a_lo |-> Lo(arch, f.qm), a_hi |-> Hi(arch, f.qm),
   m_lo |-> Lo(arch, f.dx), m_hi |-> Hi(arch, f.dx),
   b_lo |-> Lo(arch, f.dl), b_hi |-> Hi(arch, f.dl),
   error |-> error]

-----------------------------------------------------------------------------
(***************************************************************************)
(* The instructions.  bsrli shifts whole lanes, as                          *)
(* _mm_bsrli_si128(x, 4 * n) does; ext takes                               *)
(* four lanes of x and y from lane n on, as vextq_s32(x, y, n) and         *)
(* vec_sld(x, y, 4 * n) do.                                                *)
(***************************************************************************)
vsplat(x)   == [i \in Lanes |-> x]
vadd(x, y)  == [i \in Lanes |-> Wrap(x[i] + y[i])]
vsub(x, y)  == [i \in Lanes |-> Wrap(x[i] - y[i])]
vmul(x, y)  == [i \in Lanes |-> Wrap(x[i] * y[i])]
ext(x, y, n) == [i \in Lanes |-> IF i + n < 4 THEN x[i + n] ELSE y[i + n - 4]]
bsrli(x, n) == ext(x, vsplat(0), n)

predictz_vi32(x, error) == [i \in Lanes |-> IF error[i] = 0 THEN 0 ELSE x[i]]
cneg_izaz_vi32(x, cmp)  == [i \in Lanes |-> IF cmp[i] < 0 THEN Wrap(-x[i]) ELSE x[i]]

\* vec_sums saturates where the other two wrap.
Clamp(x) ==
  IF x < -2^(W - 1) THEN -2^(W - 1) ELSE IF x >= 2^(W - 1) THEN 2^(W - 1) - 1 ELSE x

sum_vi32_ppc(x) == Clamp(x[0] + x[1] + x[2] + x[3])

sum_vi32(x) == LET h == vadd(x, bsrli(x, 2)) IN vadd(h, bsrli(h, 1))[0]

\* Shifts by lane, and the three samples before the newest in order of age.
shifts_arm == <<2, 1, 1, 0>>
shifts     == <<0, 1, 1, 2>>

update_m_hi(arch, b_hi) ==
  [i \in Lanes |-> updated_m(b_hi[i], (IF arch = "arm" THEN shifts_arm ELSE shifts)[i + 1])]

in_arm(b_hi, n) == ext(vsplat(0), b_hi, 4 - n)
in_x86(b_hi, n) == bsrli(b_hi, n)
in_ppc(b_hi, n) == ext(b_hi, vsplat(0), n)

update_b_hi(arch, b_hi, value) ==
  LET in(n) == CASE arch = "arm" -> in_arm(b_hi, n)
                 [] arch = "x86" -> in_x86(b_hi, n)
                 [] arch = "ppc" -> in_ppc(b_hi, n)
  IN  vsub(vsub(vsplat(value), in(1)), vadd(in(3), in(2)))

\* Mutant of update_mb_lo: the order of the operands is that of x86 on Arm.
update_mb_lo_x86(arch, mb_hi, mb_lo) == ext(mb_lo, mb_hi, 1)

update_mb_lo_arm(mb_hi, mb_lo) == ext(mb_hi, mb_lo, 3)

update_mb_lo(arch, mb_hi, mb_lo) ==
  IF arch = "arm" THEN update_mb_lo_arm(mb_hi, mb_lo) ELSE ext(mb_lo, mb_hi, 1)

-----------------------------------------------------------------------------
SumUpdateA(arch, r, round) ==
  LET e    == vsplat(r.error)
      total(x) == IF arch = "ppc" THEN sum_vi32_ppc(x) ELSE sum_vi32(x)
      a_lo == vadd(r.a_lo, cneg_izaz_vi32(predictz_vi32(r.m_lo, e), e))
      a_hi == vadd(r.a_hi, cneg_izaz_vi32(predictz_vi32(r.m_hi, e), e))
  IN  [a_lo |-> a_lo, a_hi |-> a_hi,
       sum  |-> Wrap(round + total(vmul(a_lo, r.b_lo)) + total(vmul(a_hi, r.b_hi)))]

RegistersNext(arch, r, s, input, residue) ==
  [a_lo |-> s.a_lo, a_hi |-> s.a_hi,
   m_lo |-> update_mb_lo(arch, r.m_hi, r.m_lo), m_hi |-> update_m_hi(arch, r.b_hi),
   b_lo |-> update_mb_lo(arch, r.b_hi, r.b_lo), b_hi |-> update_b_hi(arch, r.b_hi, input),
   error |-> residue]

simd_filter_enc(arch, r, value, round, k) ==
  LET s      == SumUpdateA(arch, r, round)
      retval == Wrap(value - asr32(s.sum, k))
  IN  [regs |-> RegistersNext(arch, r, s, value, retval), value |-> retval]

simd_filter_dec(arch, r, value, round, k) ==
  LET s      == SumUpdateA(arch, r, round)
      retval == Wrap(value + asr32(s.sum, k))
  IN  [regs |-> RegistersNext(arch, r, s, retval, value), value |-> retval]

\* No sum of products leaves the word in f: vec_sums then does not saturate.
SumsFit(f) ==
  LET a    == updated_a(f)
      r(i) == Wrap(a[i] * f.dl[i])
  IN  /\ Clamp(r(0) + r(1) + r(2) + r(3)) = r(0) + r(1) + r(2) + r(3)
      /\ Clamp(r(4) + r(5) + r(6) + r(7)) = r(4) + r(5) + r(6) + r(7)

=============================================================================
