------------------------------- MODULE Rice24 -------------------------------
(***************************************************************************)
(* The adaptive Rice coder (lib/rice24.h).  The bit cache is the sequence  *)
(* of its active bits, the least significant first, and a byte is eight    *)
(* bits in the same order: count is Len(cache), a shift of the cache drops *)
(* its first bits, and the bits above count, which the code keeps zero,    *)
(* are not there.                                                          *)
(***************************************************************************)
EXTENDS CodecArith, Sequences, FiniteSetsExt

Bit  == {0, 1}

Ones(n)  == [i \in 1..n |-> 1]
Zeros(n) == [i \in 1..n |-> 0]

\* x & LSMASK32(n), as bits, and the number that bits stand for.
BitsOf(x, n)   == [i \in 1..n |-> (x \div 2^(i - 1)) % 2]
NumberOf(bits) ==
  LET low[n \in 0..Len(bits)] == IF n = 0 THEN 0 ELSE low[n - 1] + bits[n] * 2^(n - 1)
  IN  low[Len(bits)]

\* The full bytes of bits.
BytesOf(bits) == [j \in 1..(Len(bits) \div 8) |-> SubSeq(bits, 8 * j - 7, 8 * j)]

\* Trailing ones of the least significant end.
TBCNT(bits) ==
  IF \A i \in DOMAIN bits : bits[i] = 1 THEN Len(bits)
  ELSE Min({i \in DOMAIN bits : bits[i] = 0}) - 1

-----------------------------------------------------------------------------
\* Mutant of binexp32p4: the table goes on with powers above KMax.
binexp32p4_open(k) == IF k = 0 THEN 0 ELSE 2^(k + 4)

\* The thresholds of the sum: the one of k = 0 is never undercut, the one
\* above KMax never exceeded.
binexp32p4(k) ==
  CASE k = 0        -> 0
    [] k \in 1..KMax -> 2^(k + 4)
    [] k > KMax     -> UINT32_MAX

RiceInit == [sum |-> [j \in 0..1 |-> 2^(KInit + 4)], k |-> [j \in 0..1 |-> KInit]]

\* sum[j] and k[j] after value; the sum may wrap.
rice24_update(rice, j, value) ==
  LET k   == rice.k[j]
      sum == U(rice.sum[j] + value - rice.sum[j] \div 16)
  IN  [rice EXCEPT !.sum[j] = sum,
                   !.k[j]   = IF sum < binexp32p4(k) THEN k - 1
                              ELSE IF sum > binexp32p4(k + 1) THEN k + 1 ELSE k]

\* Mutant of get_unary_lax_limit: twice the bytes.
get_unary_lax_limit_double(samplebytes) == 16 * (UnaryMaxBytes[samplebytes] + 2) - 1

get_unary_lax_limit(samplebytes) == 8 * (UnaryMaxBytes[samplebytes] + 2) - 1

-----------------------------------------------------------------------------
(***************************************************************************)
(* Encoding.  w is the writer: its cache, the bytes it put in the buffer   *)
(* since the call began and those it added to the checksum.                *)
(***************************************************************************)
write_cache(w) ==
  LET full == BytesOf(w.cache)
  IN  [cache |-> SubSeq(w.cache, 8 * Len(full) + 1, Len(w.cache)),
       dest  |-> w.dest \o full,
       crc   |-> w.crc \o full]

\* Seven more bits make the last byte full; the rest is dropped.
rice24_encode_cacheflush(w) ==
  [write_cache([w EXCEPT !.cache = @ \o Zeros(7)]) EXCEPT !.cache = <<>>]

\* Mutant of rice24_write_unary: no loop, the ones are written 32 at most.
rice24_write_unary_once(w, unary) ==
  LET v == write_cache([w EXCEPT !.cache = @ \o Ones(IF unary >= 32 THEN 32 ELSE 0)])
  IN  [v EXCEPT !.cache = @ \o Ones(unary % 32) \o <<0>>]

\* The ones are written 32 at a time while 32 or more are left.
rice24_write_unary(w, unary) ==
  LET v == write_cache([w EXCEPT !.cache = @ \o Ones(32 * (unary \div 32))])
  IN  [v EXCEPT !.cache = @ \o Ones(unary % 32) \o <<0>>]

rice24_write_unary_zero(w) == [write_cache(w) EXCEPT !.cache = @ \o <<0>>]

rice24_cache_binary(w, binary, bin_k) ==
  [w EXCEPT !.cache = @ \o BitsOf(binary, bin_k)]

\* The unary code of value, and the number and count of bits that follow it.
RiceCode(rice, value) ==
  LET k0 == rice.k[0]  k1 == rice.k[1]  rest == value - 2^k0
  IN  IF value >= 2^k0
        THEN [unary |-> rest \div 2^k1 + 1, binary |-> rest % 2^k1, bin_k |-> k1]
        ELSE [unary |-> 0, binary |-> value, bin_k |-> k0]

rice24_encode(w, rice, value) ==
  LET c     == RiceCode(rice, value)
      rice0 == rice24_update(rice, 0, value)
  IN  IF c.unary > 0
        THEN [w    |-> rice24_cache_binary(rice24_write_unary(w, c.unary),
                                           c.binary, c.bin_k),
              rice |-> rice24_update(rice0, 1, value - 2^rice.k[0])]
        ELSE [w    |-> rice24_cache_binary(rice24_write_unary_zero(w),
                                           c.binary, c.bin_k),
              rice |-> rice0]

-----------------------------------------------------------------------------
(***************************************************************************)
(* Decoding.  r is the reader: its cache, the buffer, how many bytes of it *)
(* the call has read and those it added to the checksum.  A byte that is   *)
(* read behind the end of the buffer can be anything; it is all ones here. *)
(***************************************************************************)
ByteAt(src, i) == IF i <= Len(src) THEN src[i] ELSE Ones(8)

\* The next n bytes of the reader.
NextBytes(r, n) == [j \in 1..n |-> ByteAt(r.src, r.nbytes + j)]

Advance(r, n, cache) ==
  [r EXCEPT !.nbytes = @ + n, !.crc = @ \o NextBytes(r, n), !.cache = cache]

\* The run of ones ends with a byte that has a zero, or where it is longer
\* than lax_limit: then one bit of the last byte is dropped, whatever it is.
rice24_read_unary(r, lax_limit) ==
  LET first    == TBCNT(r.cache)
      ones(j)  == TBCNT(ByteAt(r.src, r.nbytes + j))
      upto(j)  == first + 8 * (j - 1) + ones(j)
      n        == Min({j \in 1..(lax_limit \div 8 + 1) :
                         ones(j) < 8 \/ upto(j) > lax_limit})
      nbits    == IF upto(n) > lax_limit THEN 0 ELSE ones(n)
      last     == ByteAt(r.src, r.nbytes + n)
  IN  IF first < Len(r.cache)
        THEN [unary |-> first,
              r     |-> [r EXCEPT !.cache = SubSeq(@, first + 2, Len(@))]]
        ELSE [unary |-> upto(n),
              r     |-> Advance(r, n, SubSeq(last, nbits + 2, 8))]

rice24_read_binary(r, bin_k) ==
  LET lacking == bin_k - Len(r.cache)
      n       == IF lacking > 0 THEN (lacking + 7) \div 8 ELSE 0
      flat    == r.cache \o [i \in 1..(8 * n) |->
                               NextBytes(r, n)[(i + 7) \div 8][((i - 1) % 8) + 1]]
  IN  [binary |-> NumberOf(SubSeq(flat, 1, bin_k)),
       r      |-> Advance(r, n, SubSeq(flat, bin_k + 1, Len(flat)))]

RICE24_DECODE_STATE_0(r, rice, value) ==
  [value |-> value, r |-> r, rice |-> rice24_update(rice, 0, value)]

\* Mutant of RICE24_DECODE_STATE_1: k[0] is updated before its power is added.
RICE24_DECODE_STATE_1_late(r, rice, rest) ==
  RICE24_DECODE_STATE_0(r, rice24_update(rice, 1, rest),
    U(rest + 2^(rice24_update(rice, 0, U(rest + 2^rice.k[0])).k[0])))

\* sum[1] is updated before sum[0], and with the value without 2^k[0]: the
\* k the encoder used are still the ones of the previous value.
RICE24_DECODE_STATE_1(r, rice, rest) ==
  RICE24_DECODE_STATE_0(r, rice24_update(rice, 1, rest), U(rest + 2^rice.k[0]))

\* b is the binary code behind a run of unary ones.
DecodeCode(unary, b, rice) ==
  IF unary # 0
    THEN RICE24_DECODE_STATE_1(b.r, rice, U((unary - 1) * 2^rice.k[1] + b.binary))
    ELSE RICE24_DECODE_STATE_0(b.r, rice, b.binary)

DecodeBinary(u, rice) ==
  DecodeCode(u.unary, rice24_read_binary(u.r, rice.k[IF u.unary # 0 THEN 1 ELSE 0]), rice)

rice24_decode(r, rice, unary_lax_limit) ==
  DecodeBinary(rice24_read_unary(r, unary_lax_limit), rice)

=============================================================================
