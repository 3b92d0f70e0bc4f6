-------------------------------- MODULE Pcm --------------------------------
(***************************************************************************)
(* PCM bytes to int32_t samples and back (lib/2-0_pcm_read.c,              *)
(* lib/2-1_pcm_write.c): little-endian, one byte per sample unsigned, two  *)
(* or three bytes signed.  A byte has ByteBits bits, 8 in the code.        *)
(***************************************************************************)
EXTENDS Integers, Sequences

CONSTANT ByteBits

ASSUME ByteAssumption == ByteBits \in Nat \ {0}

\* The byte x as an int8_t.
int8(x) == IF x >= 2^(ByteBits - 1) THEN x - 2^ByteBits ELSE x

uint8_t_to_i32h(src)    == src[1] - 2^(ByteBits - 1)
read_i16le_to_i32h(src) == src[1] + int8(src[2]) * 2^ByteBits
read_i24le_to_i32h(src) ==
  src[1] + src[2] * 2^ByteBits + int8(src[3]) * 2^(2 * ByteBits)

i32h_to_u8(x)     == << (x + 2^(ByteBits - 1)) % 2^ByteBits >>
write_i32h_to_i16le(x) == << x % 2^ByteBits, (x \div 2^ByteBits) % 2^ByteBits >>
write_i32h_to_i24le(x) ==
  << x % 2^ByteBits, (x \div 2^ByteBits) % 2^ByteBits,
     (x \div 2^(2 * ByteBits)) % 2^ByteBits >>

libttaR_pcm_read(src, nsamples, samplebytes) ==
  LET at(i) == SubSeq(src, samplebytes * (i - 1) + 1, samplebytes * i)
  IN  [i \in 1..nsamples |->
         CASE samplebytes = 1 -> uint8_t_to_i32h(at(i))
           [] samplebytes = 2 -> read_i16le_to_i32h(at(i))
           [] samplebytes = 3 -> read_i24le_to_i32h(at(i))]

libttaR_pcm_write(src, nsamples, samplebytes) ==
  LET bytes(x) == CASE samplebytes = 1 -> i32h_to_u8(x)
                    [] samplebytes = 2 -> write_i32h_to_i16le(x)
                    [] samplebytes = 3 -> write_i32h_to_i24le(x)
  IN  [j \in 1..(nsamples * samplebytes) |->
         bytes(src[(j - 1) \div samplebytes + 1])[((j - 1) % samplebytes) + 1]]

=============================================================================
