---------------------------- MODULE Frames_proofs ---------------------------
(***************************************************************************)
(* What the loops with one thread and with many rest on, for every PCM     *)
(* format: the ring of pqueue_next counts modulo its length, and a turn of *)
(* the encoder's or of the decoder's loop takes the next frame, whatever   *)
(* the sizes, the seektable and the number of bytes present are.           *)
(***************************************************************************)
EXTENDS EncFrames, DecFrames, PQueue, FiniteSetTheorems, TLAPS

-----------------------------------------------------------------------------
(* Division with remainder, and the ring                                   *)

\* Division with remainder by a positive number.
LEMMA DivMod ==
  ASSUME NEW limit \in Nat \ {0}, NEW n \in Nat
  PROVE  /\ n \div limit \in Nat
         /\ n % limit \in 0..(limit - 1)
         /\ n = limit * (n \div limit) + (n % limit)
  BY SMT

\* A multiple other than 0 is at least as far from 0 as the number.
LEMMA Multiple ==
  ASSUME NEW limit \in Nat \ {0}, NEW k \in Int, k # 0
  PROVE  limit * k >= limit \/ limit * k <= -limit
  BY SMT

\* The remainder is unique.
LEMMA ModUnique ==
  ASSUME NEW limit \in Nat \ {0}, NEW n \in Nat, NEW q \in Int,
         NEW r \in 0..(limit - 1), n = limit * q + r
  PROVE  n % limit = r
<1> DEFINE p == n \div limit
           s == n % limit
<1>1. p \in Nat /\ s \in 0..(limit - 1) /\ n = limit * p + s
  BY DivMod
<1> HIDE DEF p, s
<1>2. limit * (p - q) = limit * p - limit * q
  BY <1>1, SMT
<1>3. limit * (p - q) = r - s
  BY <1>1, <1>2, SMT
<1>4. CASE p - q # 0
  <2>1. p - q \in Int
    BY <1>1
  <2>2. limit * (p - q) >= limit \/ limit * (p - q) <= -limit
    BY <1>4, <2>1, Multiple
  <2>3. FALSE
    BY <2>2, <1>3, <1>1, SMT
  <2> QED BY <2>3
<1>5. CASE p - q = 0
  <2>1. r = s
    BY <1>1, <1>5, SMT
  <2> QED BY <2>1 DEF s
<1> QED BY <1>4, <1>5

\* Multiplication by a positive number is strictly monotonic.
LEMMA MultLess ==
  ASSUME NEW limit \in Nat \ {0}, NEW a \in Int, NEW b \in Int
  PROVE  /\ limit * a \in Int /\ a * limit = limit * a
         /\ a < b <=> limit * a < limit * b
<1>1. limit * (b - a) = limit * b - limit * a
  BY SMT
<1>2. limit * a \in Int /\ limit * b \in Int /\ limit * (b - a) \in Int
  BY SMT
<1>3. a * limit = limit * a
  BY SMT
<1>4. CASE a < b
  <2>1. limit * (b - a) > 0
    BY <1>4, SMT
  <2> QED BY <1>1, <1>2, <1>3, <1>4, <2>1
<1>5. CASE a = b
  BY <1>2, <1>3, <1>5
<1>6. CASE b < a
  <2>1. limit * (b - a) < 0
    BY <1>6, SMT
  <2> QED BY <1>1, <1>2, <1>3, <1>6, <2>1
<1> QED BY <1>4, <1>5, <1>6

\* The quotient is unique.
LEMMA DivUnique ==
  ASSUME NEW limit \in Nat \ {0}, NEW n \in Nat, NEW q \in Int,
         NEW r \in 0..(limit - 1), n = limit * q + r
  PROVE  n \div limit = q
<1> DEFINE p == n \div limit
           s == n % limit
<1>1. p \in Nat /\ n = limit * p + s
  BY DivMod
<1>2. s = r
  BY ModUnique
<1> HIDE DEF p, s
<1>3. limit * p = limit * q
  <2>1. limit * p \in Int /\ limit * q \in Int
    BY <1>1, SMT
  <2> QED BY <1>1, <1>2, <2>1
<1>4. ~(p < q) /\ ~(q < p)
  BY <1>1, <1>3, MultLess
<1> QED BY <1>1, <1>4 DEF p

\* The multiples of a positive number.
LEMMA MultNat ==
  ASSUME NEW limit \in Nat \ {0}, NEW a \in Nat
  PROVE  /\ limit * a \in Nat /\ a * limit = limit * a
         /\ limit * a = 0 <=> a = 0
         /\ limit * (a + 1) = limit * a + limit
         /\ (limit * a) \div limit = a
<1>1. /\ limit * a \in Nat /\ a * limit = limit * a
      /\ limit * (a + 1) = limit * a + limit /\ limit * 0 = 0
  BY SMT
<1>2. limit * a = 0 <=> a = 0
  BY SMT
<1>3. 0 \in 0..(limit - 1) /\ limit * a = limit * a + 0 /\ a \in Int
  BY <1>1
<1>4. (limit * a) \div limit = a
  BY <1>1, <1>3, DivUnique
<1> QED BY <1>1, <1>2, <1>4

\* A number on the first lap is its own id.
LEMMA ModSmall ==
  ASSUME NEW limit \in Nat \ {0}, NEW n \in 0..(limit - 1)
  PROVE  n % limit = n
<1>1. n \in Nat /\ n = limit * 0 + n
  BY SMT
<1> QED BY <1>1, ModUnique

\* A whole lap leads back to the same id.
LEMMA ModLap ==
  ASSUME NEW limit \in Nat \ {0}, NEW n \in Nat
  PROVE  (n + limit) % limit = n % limit
<1> DEFINE q == n \div limit
           r == n % limit
<1>1. q \in Nat /\ r \in 0..(limit - 1) /\ n = limit * q + r
  BY DivMod
<1> HIDE DEF q, r
<1>2. limit * (q + 1) = limit * q + limit
  BY <1>1, SMT
<1>3. n + limit \in Nat /\ n + limit = limit * (q + 1) + r /\ q + 1 \in Int
  BY <1>1, <1>2, SMT
<1>4. (n + limit) % limit = r
  BY <1>1, <1>3, ModUnique
<1> QED BY <1>4 DEF r

\* Two numbers less than one lap apart have different ids.
LEMMA ModDistinct ==
  ASSUME NEW limit \in Nat \ {0}, NEW a \in Nat, NEW b \in Nat,
         a < b, b < a + limit
  PROVE  a % limit # b % limit
<1> SUFFICES ASSUME a % limit = b % limit
             PROVE  FALSE
  OBVIOUS
<1> DEFINE qa == a \div limit
           qb == b \div limit
           r == a % limit
<1>1. qa \in Nat /\ a = limit * qa + r /\ r \in 0..(limit - 1)
  BY DivMod
<1>2. qb \in Nat /\ b = limit * qb + r
  BY DivMod
<1> HIDE DEF qa, qb, r
<1>3. limit * (qb - qa) = limit * qb - limit * qa
  BY <1>1, <1>2, SMT
<1>4. limit * (qb - qa) = b - a
  BY <1>1, <1>2, <1>3, SMT
<1>5. qb - qa \in Int /\ qb - qa # 0
  BY <1>1, <1>2, <1>4, SMT
<1>6. limit * (qb - qa) >= limit \/ limit * (qb - qa) <= -limit
  BY <1>5, Multiple
<1> QED BY <1>4, <1>6, SMT

\* pqueue_next adds one modulo the length of the ring.
THEOREM NextIsMod ==
  ASSUME NEW limit \in Nat \ {0}, NEW n \in Nat
  PROVE  pqueue_next(n % limit, limit) = (n + 1) % limit
<1> DEFINE q == n \div limit
           r == n % limit
<1>1. q \in Nat /\ r \in 0..(limit - 1) /\ n = limit * q + r
  BY DivMod
<1> HIDE DEF q, r
<1>2. CASE r + 1 < limit
  <2>1. n + 1 \in Nat /\ n + 1 = limit * q + (r + 1)
        /\ r + 1 \in 0..(limit - 1)
    BY <1>1, <1>2, SMT
  <2>2. (n + 1) % limit = r + 1
    BY <1>1, <2>1, ModUnique
  <2> QED BY <2>2, <1>2 DEF pqueue_next, r
<1>3. CASE ~(r + 1 < limit)
  <2>1. limit * (q + 1) = limit * q + limit
    BY <1>1, SMT
  <2>2. n + 1 \in Nat /\ n + 1 = limit * (q + 1) + 0 /\ q + 1 \in Int
        /\ 0 \in 0..(limit - 1)
    BY <1>1, <1>3, <2>1, SMT
  <2>3. (n + 1) % limit = 0
    BY <2>2, ModUnique
  <2> QED BY <2>3, <1>3 DEF pqueue_next, r
<1> QED BY <1>2, <1>3

-----------------------------------------------------------------------------
(* How the encoder cuts its input into frames                              *)

LEMMA FullFrameType == FullFrame \in Nat \ {0}
  BY FormatAssumption, SizeAssumption, SMT DEF FullFrame

LEMMA SizeTType == ASSUME NEW x \in Nat PROVE SizeT(x) \in Nat
  BY FormatAssumption, SizeAssumption, SMT DEF SizeT

\* What fread is asked for is a number of samples.
LEMMA ReadlenType ==
  ASSUME NEW total \in Nat, NEW size \in Nat
  PROVE  enc_readlen(total, size) \in Nat
<1> DEFINE new_total == SizeT(total * SampleBytes)
<1>1. new_total \in Nat
  BY FormatAssumption, SizeAssumption, SizeTType, SMT
<1> HIDE DEF new_total
<1>2. ASSUME new_total < size
      PROVE  (size - new_total) \div SampleBytes \in Nat
  <2>1. size - new_total \in Nat
    BY <1>1, <1>2, SMT
  <2> QED BY <2>1, FormatAssumption, SizeAssumption, SMT
<1> QED BY <1>2, FullFrameType DEF enc_readlen, new_total

\* fread returns no more than asked for, and no more than the file holds.
LEMMA FreadType ==
  ASSUME NEW n \in Nat, NEW left \in Nat
  PROVE  /\ fread(n, left) \in Nat
         /\ fread(n, left) <= n
         /\ left - fread(n, left) * SampleBytes \in Nat
<1>1. CASE n * SampleBytes <= left
  <2>1. left - n * SampleBytes \in Nat
    BY <1>1, FormatAssumption, SizeAssumption, SMT
  <2> QED BY <1>1, <2>1 DEF fread
<1>2. CASE ~(n * SampleBytes <= left)
  <2>1. /\ left \div SampleBytes \in Nat
        /\ left \div SampleBytes <= n
        /\ left - (left \div SampleBytes) * SampleBytes \in Nat
    BY <1>2, FormatAssumption, SizeAssumption, SMT
  <2> QED BY <1>2, <2>1 DEF fread
<1> QED BY <1>1, <1>2

LEMMA ZeropadType ==
  ASSUME NEW n \in Nat
  PROVE  enc_frame_zeropad(n) \in Nat
<1>1. NChan \in Nat \ {0} /\ n % NChan \in 0..(NChan - 1)
  BY FormatAssumption, SizeAssumption, DivMod
<1> DEFINE r == n % NChan
<1> HIDE DEF r
<1>2. r \in 0..(NChan - 1) => NChan - r \in Nat
  BY <1>1, SMT
<1> QED BY <1>1, <1>2, SMT DEF enc_frame_zeropad, r

-----------------------------------------------------------------------------
(* The reference                                                           *)

Announced(f) == f.decpcm_size \div SampleBytes

Available(f) == f.avail \div SampleBytes

\* Division by the size of a sample is monotonic.
LEMMA SamplesFit ==
  ASSUME NEW n \in Nat, NEW bytes \in Nat
  PROVE  /\ bytes \div SampleBytes \in Nat
         /\ n * SampleBytes \in Nat
         /\ n * SampleBytes <= bytes <=> n <= bytes \div SampleBytes
<1>1. SampleBytes = 1 \/ SampleBytes = 2 \/ SampleBytes = 3
  BY FormatAssumption, SizeAssumption
<1>2. CASE SampleBytes = 1
  BY <1>2, SMT
<1>3. CASE SampleBytes = 2
  BY <1>3, SMT
<1>4. CASE SampleBytes = 3
  BY <1>4, SMT
<1> QED BY <1>1, <1>2, <1>3, <1>4

\* What is left of a file after n samples has the rest of its samples.
LEMMA SamplesLeft ==
  ASSUME NEW n \in Nat, NEW bytes \in Nat, n * SampleBytes <= bytes
  PROVE  /\ bytes - n * SampleBytes \in Nat
         /\ (bytes - n * SampleBytes) \div SampleBytes
              = bytes \div SampleBytes - n
<1>1. SampleBytes = 1 \/ SampleBytes = 2 \/ SampleBytes = 3
  BY FormatAssumption, SizeAssumption
<1>2. CASE SampleBytes = 1
  BY <1>2, SMT
<1>3. CASE SampleBytes = 2
  BY <1>3, SMT
<1>4. CASE SampleBytes = 3
  BY <1>4, SMT
<1> QED BY <1>1, <1>2, <1>3, <1>4

LEMMA SamplesAre ==
  ASSUME NEW f \in File
  PROVE  /\ Announced(f) \in Nat
         /\ Available(f) \in Nat
         /\ NSamples(f) = IF Available(f) < Announced(f) THEN Available(f)
                          ELSE Announced(f)
<1>1. f.avail \in Nat /\ f.decpcm_size \in Nat
  BY DEF File
<1>2. SampleBytes = 1 \/ SampleBytes = 2 \/ SampleBytes = 3
  BY FormatAssumption, SizeAssumption
<1>3. CASE SampleBytes = 1
  BY <1>1, <1>3, SMT DEF Announced, Available, NSamples
<1>4. CASE SampleBytes = 2
  BY <1>1, <1>4, SMT DEF Announced, Available, NSamples
<1>5. CASE SampleBytes = 3
  BY <1>1, <1>5, SMT DEF Announced, Available, NSamples
<1> QED BY <1>2, <1>3, <1>4, <1>5

\* A file has a frame n + 1 if it has a sample after n full frames.
LEMMA FramesAre ==
  ASSUME NEW f \in File
  PROVE  /\ NFrames(f) \in Nat
         /\ \A n \in Nat : /\ n * FullFrame \in Nat
                           /\ n < NFrames(f) <=> n * FullFrame < NSamples(f)
<1> DEFINE N == NSamples(f)
           F == FullFrame
           q == NFrames(f)
<1>1. N \in Nat /\ F \in Nat \ {0}
  BY SamplesAre, FullFrameType
<1> DEFINE x == N + F - 1
           r == x % F
<1>2. x \in Nat /\ q = x \div F
  BY <1>1 DEF NFrames
<1> HIDE DEF N, F, q, x
<1>3. q \in Nat /\ r \in 0..(F - 1) /\ x = F * q + r
  BY <1>1, <1>2, DivMod
<1> HIDE DEF r
<1>4. ASSUME NEW n \in Nat
      PROVE  n * F \in Nat /\ (n < q <=> n * F < N)
  <2>1. n * F = F * n /\ n * F \in Nat /\ F * q \in Int
    BY <1>1, <1>3, SMT
  <2>2. F * (n + 1) = F * n + F
    BY <1>1, SMT
  <2>3. CASE n < q
    <3>1. ~(q < n + 1)
      BY <1>3, <2>3
    <3>2. ~(F * q < F * (n + 1))
      BY <1>1, <1>3, <3>1, MultLess
    <3> QED BY <1>1, <1>3, <2>1, <2>2, <2>3, <3>2, SMT DEF x
  <2>4. CASE ~(n < q)
    <3>1. ~(F * n < F * q)
      BY <1>1, <1>3, <2>4, MultLess
    <3> QED BY <1>1, <1>3, <2>1, <2>4, <3>1, SMT DEF x
  <2> QED BY <2>3, <2>4
<1> QED BY <1>3, <1>4 DEF N, F, q

\* The padded read holds whole samples of all the channels.
LEMMA ZeropadCompletes ==
  ASSUME NEW n \in Nat
  PROVE  /\ n + enc_frame_zeropad(n) = NChan * ((n + NChan - 1) \div NChan)
         /\ n + enc_frame_zeropad(n) = 0 <=> n = 0
<1> DEFINE q == n \div NChan
           r == n % NChan
<1>1. /\ NChan \in Nat \ {0} /\ q \in Nat /\ r \in 0..(NChan - 1)
      /\ n = NChan * q + r
  BY FormatAssumption, SizeAssumption, DivMod
<1>2. enc_frame_zeropad(n) = IF r = 0 THEN 0 ELSE NChan - r
  BY DEF enc_frame_zeropad
<1> HIDE DEF q, r
<1>3. NChan * q \in Int /\ NChan * (q + 1) = NChan * q + NChan
  BY <1>1, SMT
<1>4. n + NChan - 1 \in Nat
  BY <1>1
<1>5. CASE r = 0
  <2>1. n + NChan - 1 = NChan * q + (NChan - 1) /\ NChan - 1 \in 0..(NChan - 1)
    BY <1>1, <1>3, <1>5
  <2>2. (n + NChan - 1) \div NChan = q
    BY <1>1, <1>4, <2>1, DivUnique
  <2>3. n + enc_frame_zeropad(n) = n /\ n = NChan * q
    BY <1>1, <1>2, <1>3, <1>5
  <2> QED BY <2>2, <2>3
<1>6. CASE r # 0
  <2>1. n + NChan - 1 = NChan * (q + 1) + (r - 1)
        /\ r - 1 \in 0..(NChan - 1) /\ q + 1 \in Int
    BY <1>1, <1>3, <1>6
  <2>2. (n + NChan - 1) \div NChan = q + 1
    BY <1>1, <1>4, <2>1, DivUnique
  <2>3. NChan - r > 0
    BY <1>1
  <2> QED BY <1>1, <1>2, <1>3, <1>6, <2>2, <2>3
<1> QED BY <1>5, <1>6

-----------------------------------------------------------------------------
(* The loop                                                                *)

\* What is asked for is a frame, or what the announced size leaves of one.
LEMMA ReadlenIs ==
  ASSUME NEW total \in Nat, NEW size \in Nat,
         (total + FullFrame) * SampleBytes <= SIZE_MAX,
         total <= size \div SampleBytes
  PROVE  /\ total # SIZE_MAX
         /\ enc_readlen(total, size) =
              IF total + FullFrame < size \div SampleBytes THEN FullFrame
              ELSE size \div SampleBytes - total
<1> DEFINE F == FullFrame
           m == size \div SampleBytes
<1>1. F \in Nat \ {0} /\ SIZE_MAX \in Nat
  BY FullFrameType, FormatAssumption, SizeAssumption
<1>2. /\ m \in Nat
      /\ total * SampleBytes \in Nat /\ (total + F) * SampleBytes \in Nat
      /\ total * SampleBytes <= size
      /\ (total + F) * SampleBytes <= size <=> total + F <= m
  BY <1>1, SamplesFit
<1>3. /\ total * SampleBytes < (total + F) * SampleBytes
      /\ total < (total + F) * SampleBytes
  <2>1. SampleBytes = 1 \/ SampleBytes = 2 \/ SampleBytes = 3
    BY FormatAssumption, SizeAssumption
  <2> HIDE DEF F
  <2> QED BY <1>1, <2>1, SMT
<1>4. SizeT(total * SampleBytes) = total * SampleBytes
  BY <1>1, <1>2, <1>3, ModSmall DEF SizeT
<1>5. SizeT((total + F) * SampleBytes) = (total + F) * SampleBytes
  BY <1>1, <1>2, ModSmall DEF SizeT
<1>6. total # SIZE_MAX
  BY <1>1, <1>2, <1>3
<1>7. (size - total * SampleBytes) \div SampleBytes = m - total
  BY <1>2, SamplesLeft
<1>8. total * SampleBytes < size \/ total = m
  <2>1. CASE total = m
    BY <2>1
  <2>2. CASE total < m
    <3>1. (total + 1) * SampleBytes <= size
      BY <2>2, <1>2, SamplesFit
    <3>2. (total + 1) * SampleBytes > total * SampleBytes
      BY FormatAssumption, SizeAssumption, SMT
    <3> QED BY <1>2, <3>1, <3>2, SamplesFit
  <2> QED BY <1>2, <2>1, <2>2
<1> HIDE DEF F, m
<1>9. enc_readlen(total, size) =
        IF (total + F) * SampleBytes <= size THEN F
        ELSE IF total * SampleBytes < size THEN m - total ELSE 0
  BY <1>4, <1>5, <1>6, <1>7 DEF enc_readlen, F
<1>10. enc_readlen(total, size) = IF total + F < m THEN F ELSE m - total
  BY <1>1, <1>2, <1>8, <1>9
<1> QED BY <1>6, <1>10 DEF F, m

LEMMA FreadIs ==
  ASSUME NEW n \in Nat, NEW left \in Nat
  PROVE  fread(n, left) = IF n <= left \div SampleBytes THEN n
                          ELSE left \div SampleBytes
  BY SamplesFit DEF fread

\* The samples of frame n + 1.
LEMMA FrameIs ==
  ASSUME NEW f \in File, NEW n \in Nat, n < NFrames(f),
         NEW m \in Nat,
         m = IF NSamples(f) - n * FullFrame < FullFrame
             THEN NSamples(f) - n * FullFrame ELSE FullFrame
  PROVE  InputFrames(f)[n + 1]
           = [frame |-> n + 1, ni32 |-> m + enc_frame_zeropad(m)]
<1>1. n + 1 \in 1..NFrames(f) /\ (n + 1) - 1 = n
  BY FramesAre
<1>2. InputFrames(f)[n + 1]
        = [frame |-> n + 1,
           ni32  |-> NChan * ((m + NChan - 1) \div NChan)]
  BY <1>1 DEF InputFrames
<1> QED BY <1>2, ZeropadCompletes

LEMMA InputFramesType ==
  ASSUME NEW f \in File
  PROVE  /\ InputFrames(f) \in Seq(Frame)
         /\ Len(InputFrames(f)) = NFrames(f)
         /\ DOMAIN InputFrames(f) = 1..NFrames(f)
<1>1. NFrames(f) \in Nat
  BY FramesAre
<1>2. ASSUME NEW k \in 1..NFrames(f)
      PROVE  InputFrames(f)[k] \in Frame
  <2> DEFINE n == k - 1
             N == NSamples(f)
             F == FullFrame
             m == IF N - n * F < F THEN N - n * F ELSE F
  <2>1. n \in Nat /\ n < NFrames(f) /\ n + 1 = k
    BY <1>1
  <2>2. n * F < N /\ n * F \in Nat /\ N \in Nat /\ F \in Nat
    BY <2>1, FramesAre, SamplesAre, FullFrameType
  <2>3. m \in Nat
    <3> HIDE DEF N, n, F
    <3> QED BY <2>2
  <2>4. InputFrames(f)[n + 1] = [frame |-> n + 1, ni32 |-> m + enc_frame_zeropad(m)]
    BY <2>1, <2>3, FrameIs
  <2>5. m + enc_frame_zeropad(m) \in Nat
    <3> HIDE DEF m
    <3> QED BY <2>3, ZeropadType
  <2> HIDE DEF m, n
  <2> QED BY <2>1, <2>4, <2>5 DEF Frame
<1>3. DOMAIN InputFrames(f) = 1..NFrames(f)
  BY DEF InputFrames
<1>4. \A k \in 1..NFrames(f) : InputFrames(f)[k] \in Frame
  BY <1>2
<1>5. InputFrames(f) = [k \in 1..NFrames(f) |-> InputFrames(f)[k]]
  BY DEF InputFrames
<1>6. InputFrames(f) \in Seq(Frame)
  BY <1>1, <1>4, <1>5
<1> QED BY <1>1, <1>3, <1>6

LEMMA FrameFields ==
  ASSUME NEW f \in File, NEW n \in Nat, n < NFrames(f)
  PROVE  InputFrames(f)[n + 1]
           = [frame |-> n + 1, ni32 |-> InputFrames(f)[n + 1].ni32]
<1>1. NFrames(f) \in Nat /\ n + 1 \in 1..NFrames(f)
  BY FramesAre
<1> QED BY <1>1 DEF InputFrames

\* No frame of the input is empty.
LEMMA FrameNotEmpty ==
  ASSUME NEW f \in File, NEW n \in Nat, n < NFrames(f)
  PROVE  InputFrames(f)[n + 1].ni32 # 0
<1> DEFINE N == NSamples(f)
           F == FullFrame
           m == IF N - n * F < F THEN N - n * F ELSE F
<1>1. n * F < N /\ n * F \in Nat /\ N \in Nat /\ F \in Nat \ {0}
  BY FramesAre, SamplesAre, FullFrameType
<1>2. m \in Nat /\ m # 0
  <2> HIDE DEF N, F
  <2> QED BY <1>1
<1>3. InputFrames(f)[n + 1]
        = [frame |-> n + 1, ni32 |-> m + enc_frame_zeropad(m)]
  BY <1>2, FrameIs
<1> HIDE DEF m
<1> QED BY <1>2, <1>3, ZeropadCompletes

\* Before the last read the loop asks for the next frame, and no sum or product
\* of it wraps.
LEMMA ReadAsks ==
  ASSUME NEW f \in File, Fits(f),
         NEW n \in Nat, NEW total \in Nat, NEW unread \in Nat,
         ReadSoFar(f, n, total, unread), total # SIZE_MAX
  PROVE  /\ n <= NFrames(f)
         /\ total = (IF n * FullFrame < Announced(f) THEN n * FullFrame
                     ELSE Announced(f))
         /\ total <= Available(f)
         /\ unread = f.avail - total * SampleBytes
         /\ unread \div SampleBytes = Available(f) - total
         /\ enc_readlen(total, f.decpcm_size)
              = IF total + FullFrame < Announced(f) THEN FullFrame
                ELSE Announced(f) - total
         /\ \A k \in Nat : k <= NSamples(f) => k < SIZE_MAX
<1> DEFINE F == FullFrame
           D == Announced(f)
           A == Available(f)
           N == NSamples(f)
<1>1. /\ F \in Nat \ {0} /\ D \in Nat /\ A \in Nat /\ SIZE_MAX \in Nat
      /\ N = (IF A < D THEN A ELSE D)
      /\ f.avail \in Nat /\ f.decpcm_size \in Nat
  BY FullFrameType, FormatAssumption, SizeAssumption, SamplesAre DEF File
<1>2. /\ n <= NFrames(f)
      /\ total = (IF n * F < D THEN n * F ELSE D)
      /\ total * SampleBytes <= f.avail
      /\ unread = f.avail - total * SampleBytes
  BY DEF ReadSoFar, Announced
<1>3. total <= A /\ unread \div SampleBytes = A - total
  BY <1>1, <1>2, SamplesFit, SamplesLeft DEF Available
<1>4. ASSUME NEW k \in Nat, k <= N
      PROVE  (k + F) * SampleBytes <= SIZE_MAX /\ k < SIZE_MAX
  <2>1. N + F <= SIZE_MAX \div SampleBytes /\ SIZE_MAX \div SampleBytes \in Nat
    BY <1>1, SamplesFit DEF Fits
  <2>2. k + F <= SIZE_MAX \div SampleBytes
    BY <1>1, <1>4, <2>1
  <2>3. (k + F) * SampleBytes <= SIZE_MAX
    BY <1>1, <2>2, SamplesFit
  <2>4. k < (k + F) * SampleBytes /\ (k + F) * SampleBytes \in Nat
    <3>1. SampleBytes = 1 \/ SampleBytes = 2 \/ SampleBytes = 3
      BY FormatAssumption, SizeAssumption
    <3> HIDE DEF F
    <3> QED BY <1>1, <3>1, SMT
  <2> QED BY <1>1, <2>3, <2>4
<1>5. total <= N /\ total <= D
  BY <1>1, <1>2, <1>3, FramesAre
<1>6. enc_readlen(total, f.decpcm_size)
        = IF total + F < D THEN F ELSE D - total
  BY <1>1, <1>4, <1>5, ReadlenIs DEF Announced
<1> QED BY <1>2, <1>3, <1>4, <1>6

\* One turn of the loop cuts off the next frame, or, of a file that is cut at
\* the end of a frame, reads nothing.
LEMMA ReadStep ==
  ASSUME NEW f \in File, Fits(f),
         NEW n \in Nat, NEW total \in Nat, NEW unread \in Nat,
         ReadSoFar(f, n, total, unread),
         NEW r, r = enc_readlen(total, f.decpcm_size), r # 0,
         NEW m, m = fread(r, unread)
  PROVE  /\ m \in Nat
         /\ ReadSoFar(f, n + 1, TotalAfter(total, m, r),
                      IF m < r THEN 0 ELSE unread - m * SampleBytes)
         /\ m # 0 <=> n < NFrames(f)
         /\ m + enc_frame_zeropad(m)
              = IF n < NFrames(f) THEN InputFrames(f)[n + 1].ni32 ELSE 0
         /\ n < NFrames(f) \/ (n = NFrames(f) /\ CutAtFrameBoundary(f))
<1> DEFINE F == FullFrame
           D == Announced(f)
           A == Available(f)
           N == NSamples(f)
           nF == n * F
<1>1. /\ F \in Nat \ {0} /\ D \in Nat /\ A \in Nat /\ SIZE_MAX \in Nat
      /\ nF \in Nat /\ (n + 1) * F = nF + F
      /\ N = (IF A < D THEN A ELSE D)
      /\ f.avail \in Nat /\ f.decpcm_size \in Nat
  <2>1. F \in Nat \ {0} /\ SIZE_MAX \in Nat
    BY FullFrameType, FormatAssumption, SizeAssumption
  <2>2. n * F \in Nat /\ (n + 1) * F = n * F + F
    <3> HIDE DEF F
    <3> QED BY <2>1, SMT
  <2> QED BY <2>1, <2>2, SamplesAre DEF File
<1>2. total # SIZE_MAX
  BY FormatAssumption, SizeAssumption DEF enc_readlen
<1>3. /\ n <= NFrames(f)
      /\ total = (IF nF < D THEN nF ELSE D)
      /\ total <= A
      /\ unread = f.avail - total * SampleBytes
      /\ unread \div SampleBytes = A - total
      /\ r = (IF total + F < D THEN F ELSE D - total)
      /\ \A k \in Nat : k <= N => k < SIZE_MAX
  BY <1>2, ReadAsks
<1>7. total = nF /\ nF < D /\ nF <= A /\ r \in Nat
  BY <1>1, <1>3
<1>8. m = (IF r <= A - nF THEN r ELSE A - nF) /\ m \in Nat
  BY <1>1, <1>3, <1>7, FreadIs
<1>9. n < NFrames(f) <=> nF < N
  BY FramesAre
<1>10. n + 1 < NFrames(f) <=> nF + F < N
  BY <1>1, FramesAre
<1>11. m # 0 <=> n < NFrames(f)
  BY <1>1, <1>3, <1>7, <1>8, <1>9
<1>12. NFrames(f) \in Nat
  BY FramesAre
<1>13. m + enc_frame_zeropad(m)
         = IF n < NFrames(f) THEN InputFrames(f)[n + 1].ni32 ELSE 0
  <2>1. CASE n < NFrames(f)
    <3>1. m = IF N - nF < F THEN N - nF ELSE F
      BY <1>1, <1>3, <1>7, <1>8, <1>9, <2>1
    <3>2. InputFrames(f)[n + 1]
            = [frame |-> n + 1, ni32 |-> m + enc_frame_zeropad(m)]
      BY <1>8, <2>1, <3>1, FrameIs
    <3> QED BY <2>1, <3>2
  <2>2. CASE ~(n < NFrames(f))
    BY <1>8, <1>11, <2>2, ZeropadCompletes
  <2> QED BY <2>1, <2>2
<1>14. CASE m = r
  <2>1. nF < N /\ nF + m <= N
    BY <1>1, <1>3, <1>7, <1>8, <1>14
  <2>2. nF + m < SIZE_MAX /\ nF + m \in Nat
    BY <1>1, <1>3, <1>8, <2>1
  <2>3. TotalAfter(total, m, r) = nF + m
    <3>1. nF + m \in 0..((SIZE_MAX + 1) - 1) /\ SIZE_MAX + 1 \in Nat \ {0}
      BY <1>1, <2>2
    <3>2. SizeT(nF + m) = nF + m
      BY <3>1, ModSmall DEF SizeT
    <3> QED BY <1>7, <1>14, <3>2 DEF TotalAfter
  <2>4. nF + m = IF nF + F < D THEN nF + F ELSE D
    BY <1>1, <1>3, <1>7, <1>14
  <2>5. n + 1 <= NFrames(f)
    BY <1>9, <1>12, <2>1
  <2>6. /\ (nF + m) * SampleBytes <= f.avail
        /\ unread - m * SampleBytes = f.avail - (nF + m) * SampleBytes
    <3>1. nF + m <= A
      BY <1>1, <1>8, <2>1
    <3>2. (nF + m) * SampleBytes <= f.avail
      BY <1>1, <1>8, <3>1, SamplesFit DEF Available
    <3>3. (nF + m) * SampleBytes = nF * SampleBytes + m * SampleBytes
          /\ nF * SampleBytes \in Nat /\ m * SampleBytes \in Nat
      <4>1. SampleBytes = 1 \/ SampleBytes = 2 \/ SampleBytes = 3
        BY FormatAssumption, SizeAssumption
      <4> HIDE DEF nF
      <4> QED BY <1>1, <1>8, <4>1, SMT
    <3> QED BY <1>1, <1>3, <1>7, <3>2, <3>3
  <2>7. ~(m < r)
    BY <1>7, <1>14
  <2>8. ReadSoFar(f, n + 1, nF + m, unread - m * SampleBytes)
    BY <1>1, <2>2, <2>4, <2>5, <2>6 DEF ReadSoFar, Announced
  <2> QED BY <1>8, <1>9, <1>11, <1>13, <2>1, <2>3, <2>7, <2>8
<1>15. CASE m # r
  <2>1. m < r /\ m = A - nF /\ A < D /\ N = A /\ A < nF + F
    BY <1>1, <1>3, <1>7, <1>8, <1>15
  <2>2. TotalAfter(total, m, r) = SIZE_MAX
    BY <1>15 DEF TotalAfter
  <2>3. CASE n < NFrames(f)
    <3>1. n + 1 = NFrames(f)
      BY <1>1, <1>10, <1>12, <2>1, <2>3
    <3> QED BY <1>8, <1>11, <1>13, <2>1, <2>2, <2>3, <3>1 DEF ReadSoFar
  <2>4. CASE ~(n < NFrames(f))
    <3>1. n = NFrames(f)
      BY <1>3, <1>12, <2>4
    <3>2. A = F * n + 0 /\ 0 \in 0..(F - 1)
      <4>1. n * F = F * n
        BY <1>1, MultLess
      <4> QED BY <1>1, <1>11, <2>1, <2>4, <4>1
    <3>3. A % F = 0
      BY <1>1, <3>2, ModUnique
    <3>4. CutAtFrameBoundary(f)
      BY <2>1, <3>3 DEF CutAtFrameBoundary, Announced, Available
    <3> QED BY <1>8, <1>11, <1>13, <2>2, <2>4, <3>1, <3>4 DEF ReadSoFar
  <2> QED BY <2>3, <2>4
<1> QED BY <1>14, <1>15

\* The loop ends when every frame has been read.
LEMMA ReadEnds ==
  ASSUME NEW f \in File, Fits(f),
         NEW n \in Nat, NEW total \in Nat, NEW unread \in Nat,
         ReadSoFar(f, n, total, unread),
         enc_readlen(total, f.decpcm_size) = 0
  PROVE  \/ n = NFrames(f)
         \/ n = NFrames(f) + 1 /\ CutAtFrameBoundary(f)
<1>1. CASE total = SIZE_MAX
  BY <1>1 DEF ReadSoFar
<1>2. CASE total # SIZE_MAX
  <2>1. /\ FullFrame \in Nat \ {0} /\ NFrames(f) \in Nat
        /\ Announced(f) \in Nat /\ Available(f) \in Nat
        /\ n * FullFrame \in Nat
        /\ n < NFrames(f) <=> n * FullFrame < NSamples(f)
    BY FullFrameType, SamplesAre, FramesAre
  <2>2. Announced(f) <= n * FullFrame /\ Announced(f) <= Available(f)
    BY <1>2, <2>1, ReadAsks
  <2>3. ~(n < NFrames(f)) /\ n <= NFrames(f)
    BY <1>2, <2>1, <2>2, SamplesAre, ReadAsks
  <2> QED BY <2>1, <2>3
<1> QED BY <1>1, <1>2

-----------------------------------------------------------------------------
(* How the decoder cuts its input into frames                              *)

LEMMA FileType ==
  ASSUME NEW f, IsFile(f)
  PROVE  /\ Len(f.table) \in Nat /\ f.nsamples_enc \in Nat /\ f.avail \in Nat
         /\ \A k \in 1..Len(f.table) : f.table[k] \in Nat
         /\ \A k \in 1..(Len(f.table) + 1) : f.start[k] \in Nat
         /\ f.start[1] = 0
         /\ \A k \in 1..Len(f.table) : f.start[k + 1] = f.start[k] + f.table[k]
  BY DEF IsFile, TableStarts

\* The samples of a frame, and how many of every channel they are.
LEMMA SamplesType ==
  ASSUME NEW enc \in Nat, NEW dec \in 0..enc
  PROVE  LET n  == dec_ni32_perframe(dec, enc)
             m  == IF enc - dec < NSamplesPerFrame THEN enc - dec
                   ELSE NSamplesPerFrame
         IN  /\ n \in Nat /\ n = NChan * m /\ n \div NChan = m
             /\ m \in Nat /\ dec + m \in 0..enc
             /\ n # 0 <=> dec < enc
<1> DEFINE m == IF enc - dec < NSamplesPerFrame THEN enc - dec
                ELSE NSamplesPerFrame
<1>1. /\ m \in Nat /\ dec + m \in 0..enc
      /\ m # 0 <=> dec < enc
      /\ NChan \in Nat \ {0}
  BY FormatAssumption
<1>2. dec_ni32_perframe(dec, enc) = m * NChan
  BY FormatAssumption DEF dec_ni32_perframe
<1> HIDE DEF m
<1>3. /\ m * NChan = NChan * m /\ NChan * m \in Nat
      /\ (NChan * m) \div NChan = m
      /\ NChan * m # 0 <=> m # 0
  <2>1. m \in Nat /\ NChan \in Nat \ {0}
    BY <1>1
  <2> QED BY <2>1, MultNat
<1> QED BY <1>1, <1>2, <1>3 DEF m

\* Every entry of the seektable is of a frame with at least one sample, and
\* all together are no fewer than the header announces.
LEMMA EntriesCover ==
  ASSUME NEW f, IsFile(f), NEW n \in Nat
  PROVE  /\ n * NSamplesPerFrame \in Nat
         /\ (n + 1) * NSamplesPerFrame = n * NSamplesPerFrame + NSamplesPerFrame
         /\ n < Len(f.table) <=> n * NSamplesPerFrame < f.nsamples_enc
<1> DEFINE F == NSamplesPerFrame
           E == f.nsamples_enc
           L == Len(f.table)
           r == (E + F - 1) % F
<1>1. F \in Nat \ {0} /\ E \in Nat
  BY FormatAssumption, FileType
<1>2. L = (E + F - 1) \div F
  BY DEF IsFile, seektable_nmemb
<1> HIDE DEF F, E, L
<1>3. E + F - 1 \in Nat
  BY <1>1
<1>4. L \in Nat /\ r \in 0..(F - 1) /\ E + F - 1 = F * L + r
  BY <1>1, <1>2, <1>3, DivMod
<1> HIDE DEF r
<1>5. /\ n * F = F * n /\ F * n \in Nat
      /\ (n + 1) * F = F * (n + 1) /\ F * (n + 1) = F * n + F
      /\ F * L \in Nat
  BY <1>1, <1>4, MultNat
<1>6. n < L <=> F * n < F * L
  BY <1>1, <1>4, MultLess
<1>7. L < n + 1 <=> F * L < F * (n + 1)
  <2>1. L \in Int /\ n + 1 \in Int
    BY <1>4
  <2> QED BY <1>1, <2>1, MultLess
<1>8. n < L <=> F * n < E
  <2>1. CASE n < L
    <3>1. ~(L < n + 1)
      BY <1>4, <2>1
    <3>2. ~(F * L < F * n + F)
      BY <1>5, <1>7, <3>1
    <3> QED BY <1>1, <1>4, <1>5, <2>1, <3>2
  <2>2. CASE ~(n < L)
    <3>1. ~(F * n < F * L)
      BY <1>6, <2>2
    <3> QED BY <1>1, <1>4, <1>5, <2>2, <3>1
  <2> QED BY <2>1, <2>2
<1>9. /\ n * F \in Nat /\ (n + 1) * F = n * F + F
      /\ n < L <=> n * F < E
  BY <1>5, <1>8
<1> QED BY <1>9 DEF F, E, L

-----------------------------------------------------------------------------
(* The number of frames                                                    *)

\* There is a frame n.
Found(f, n) ==
  /\ n \in 1..Len(f.table)
  /\ \A k \in 1..n : ~Malformed(f, k)
  /\ \A k \in 1..(n - 1) : Whole(f, k)
  /\ ~NoneLeft(f, n)

\* Before a frame is a frame, for a whole one is not empty.
LEMMA FoundBefore ==
  ASSUME NEW f, IsFile(f), NEW n \in Nat, NEW m \in 1..n, Found(f, n)
  PROVE  Found(f, m)
<1>1. /\ m \in 1..Len(f.table)
      /\ \A k \in 1..m : k \in 1..n
      /\ \A k \in 1..(m - 1) : k \in 1..(n - 1)
  BY FileType DEF Found
<1>2. ~NoneLeft(f, m)
  <2>1. CASE m = n
    BY <2>1 DEF Found
  <2>2. CASE m # n
    <3>1. m \in 1..(n - 1) /\ Whole(f, m) /\ ~Malformed(f, m)
      BY <2>2 DEF Found
    <3>2. /\ f.table[m] \in Nat /\ f.start[m] \in Nat /\ f.avail \in Nat
          /\ CrcSize \in Nat
      BY <1>1, FileType, FormatAssumption, CrcAssumption
    <3> QED BY <3>1, <3>2 DEF Whole, Malformed, NoneLeft
  <2> QED BY <2>1, <2>2
<1> QED BY <1>1, <1>2 DEF Found

LEMMA FramesFound ==
  ASSUME NEW f, IsFile(f)
  PROVE  /\ IsFiniteSet({n \in 1..Len(f.table) : Found(f, n)})
         /\ NFramesFound(f) = Cardinality({n \in 1..Len(f.table) : Found(f, n)})
         /\ NFramesFound(f) \in Nat
<1> DEFINE S == {n \in 1..Len(f.table) : Found(f, n)}
<1>1. Len(f.table) \in Nat
  BY FileType
<1>2. IsFiniteSet(1..Len(f.table))
  BY <1>1, FS_Interval
<1>3. IsFiniteSet(S)
  BY <1>2, FS_Subset
<1>4. S = {n \in 1..Len(f.table) :
             /\ \A k \in 1..n : ~Malformed(f, k)
             /\ \A k \in 1..(n - 1) : Whole(f, k)
             /\ ~NoneLeft(f, n)}
  BY DEF Found
<1>5. NFramesFound(f) = Cardinality(S)
  BY <1>4 DEF NFramesFound
<1> QED BY <1>3, <1>5, FS_CardinalityType

LEMMA FramesAtLeast ==
  ASSUME NEW f, IsFile(f), NEW n \in Nat, Found(f, n)
  PROVE  n <= NFramesFound(f)
<1>1. 1..n \subseteq {m \in 1..Len(f.table) : Found(f, m)}
  BY FoundBefore DEF Found
<1>2. Cardinality(1..n) = n
  BY FS_Interval
<1>3. Cardinality(1..n) <= Cardinality({m \in 1..Len(f.table) : Found(f, m)})
  BY <1>1, FramesFound, FS_Subset
<1> QED BY <1>2, <1>3, FramesFound

LEMMA FramesExactly ==
  ASSUME NEW f, IsFile(f), NEW n \in Nat, n = 0 \/ Found(f, n), ~Found(f, n + 1)
  PROVE  NFramesFound(f) = n
<1>1. ASSUME NEW m \in Nat, Found(f, m)
      PROVE  m \in 1..n
  <2>1. m \in 1..Len(f.table) /\ Len(f.table) \in Nat
    BY <1>1, FileType DEF Found
  <2>2. ~(n + 1 \in 1..m)
    BY <1>1, FoundBefore
  <2> QED BY <2>1, <2>2
<1>2. ASSUME NEW m \in 1..n
      PROVE  Found(f, m)
  BY FoundBefore
<1>3. {m \in 1..Len(f.table) : Found(f, m)} = 1..n
  <2>1. \A m \in 1..Len(f.table) : m \in Nat
    BY FileType
  <2> QED BY <1>1, <1>2, <2>1 DEF Found
<1>4. Cardinality(1..n) = n
  BY FS_Interval
<1> QED BY <1>3, <1>4, FramesFound

-----------------------------------------------------------------------------
(* A turn of the loop                                                      *)

LEMMA SoFarInit ==
  ASSUME NEW f, IsFile(f)
  PROVE  TakenSoFar(f, 0, Len(f.table), 0, f.avail)
<1>1. /\ Len(f.table) \in Nat /\ f.nsamples_enc \in Nat /\ f.avail \in Nat
      /\ f.start[1] = 0 /\ 0 * NSamplesPerFrame = 0
  BY FileType, FormatAssumption, SMT
<1> QED BY <1>1 DEF TakenSoFar

\* After n frames the loop has counted their samples.
LEMMA SoFarCounts ==
  ASSUME NEW f, IsFile(f), NEW n \in Nat, NEW target, NEW total, NEW unread,
         TakenSoFar(f, n, target, total, unread)
  PROVE  total \in 0..f.nsamples_enc /\ total \in Nat
<1>1. f.nsamples_enc \in Nat /\ n * NSamplesPerFrame \in Nat
  BY FileType, EntriesCover
<1>2. total = IF n * NSamplesPerFrame < f.nsamples_enc
              THEN n * NSamplesPerFrame ELSE f.nsamples_enc
  BY DEF TakenSoFar
<1> QED BY <1>1, <1>2

\* While there are frames to take the loop knows where the next one starts.
LEMMA SoFarNext ==
  ASSUME NEW f, IsFile(f), NEW n \in Nat, NEW target, NEW total, NEW unread,
         TakenSoFar(f, n, target, total, unread), target # 0
  PROVE  /\ n < Len(f.table) /\ target = Len(f.table) - n
         /\ total = n * NSamplesPerFrame /\ total < f.nsamples_enc
         /\ \A k \in 1..n : Whole(f, k) /\ ~Malformed(f, k)
         /\ f.avail = f.start[n + 1] + unread
         /\ f.table[n + 1] \in Nat
         /\ n + 1 \in 1..Len(f.table)
<1>1. /\ target = Len(f.table) - n /\ n <= Len(f.table)
      /\ f.avail = f.start[n + 1] + unread
  BY DEF TakenSoFar
<1>2. n < Len(f.table) /\ Len(f.table) \in Nat
  BY <1>1, FileType
<1>3. n + 1 \in 1..Len(f.table) /\ f.table[n + 1] \in Nat
  BY <1>2, FileType
<1>4. total = n * NSamplesPerFrame /\ total < f.nsamples_enc
  BY <1>2, EntriesCover DEF TakenSoFar
<1>5. ASSUME NEW k \in 1..n
      PROVE  Whole(f, k) /\ ~Malformed(f, k)
  <2>1. k = n \/ k \in 1..(n - 1)
    BY <1>5
  <2>2. n # 0
    BY <1>5
  <2> QED BY <1>5, <2>1, <2>2 DEF TakenSoFar
<1> QED BY <1>1, <1>2, <1>3, <1>4, <1>5

\* Whether the next entry is of a frame depends on what is left to read.
LEMMA NextFound ==
  ASSUME NEW f, IsFile(f), NEW n \in Nat, NEW target, NEW total,
         NEW unread \in Nat,
         TakenSoFar(f, n, target, total, unread), target # 0,
         ~Malformed(f, n + 1)
  PROVE  /\ Found(f, n + 1) <=> unread # 0
         /\ n = 0 \/ Found(f, n)
         /\ f.start[n + 1] \in Nat
<1>1. /\ n < Len(f.table) /\ f.avail = f.start[n + 1] + unread
      /\ \A k \in 1..n : Whole(f, k) /\ ~Malformed(f, k)
      /\ n + 1 \in 1..Len(f.table)
  BY SoFarNext
<1>2. /\ f.start[n + 1] \in Nat /\ f.avail \in Nat /\ CrcSize \in Nat
      /\ Len(f.table) \in Nat
  BY <1>1, FileType, FormatAssumption, CrcAssumption
<1>3. \A k \in 1..(n + 1) : k = n + 1 \/ k \in 1..n
  OBVIOUS
<1>4. Found(f, n + 1) <=> ~NoneLeft(f, n + 1)
  BY <1>1, <1>3 DEF Found
<1>5. NoneLeft(f, n + 1) <=> unread = 0
  BY <1>1, <1>2 DEF NoneLeft
<1>6. ASSUME n # 0
      PROVE  Found(f, n)
  <2>1. /\ n \in 1..n /\ n \in 1..Len(f.table)
        /\ \A k \in 1..(n - 1) : k \in 1..n
    BY <1>1, <1>2, <1>6
  <2>2. f.start[n] \in Nat /\ f.table[n] \in Nat
    BY <2>1, FileType
  <2>3. ~NoneLeft(f, n)
    BY <1>1, <1>2, <2>1, <2>2 DEF NoneLeft, Whole, Malformed
  <2> QED BY <1>1, <2>1, <2>3 DEF Found
<1> QED BY <1>2, <1>4, <1>5, <1>6

\* The frames are those up to their number.
LEMMA FramesAreFound ==
  ASSUME NEW f, IsFile(f), NEW n \in Nat, n < NFramesFound(f)
  PROVE  /\ Found(f, n + 1) /\ n < Len(f.table)
         /\ n * NSamplesPerFrame \in 0..f.nsamples_enc
<1> DEFINE S == {k \in 1..Len(f.table) : Found(f, k)}
<1>0. NFramesFound(f) \in Nat
  BY FramesFound
<1>1. NFramesFound(f) \in Nat /\ n + 1 \in 1..NFramesFound(f) /\ NFramesFound(f) - 1 \in Nat
  BY <1>0
<1>2. Found(f, NFramesFound(f))
  <2> SUFFICES ASSUME ~Found(f, NFramesFound(f)) PROVE FALSE
    OBVIOUS
  <2>1. ASSUME NEW k \in S
        PROVE  k \in 1..(NFramesFound(f) - 1)
    <3>1. k \in Nat /\ Found(f, k) /\ 1 <= k
      BY FileType
    <3>2. k <= NFramesFound(f)
      BY <3>1, FramesAtLeast
    <3> QED BY <1>1, <3>1, <3>2
  <2>2. IsFiniteSet(1..(NFramesFound(f) - 1))
        /\ Cardinality(1..(NFramesFound(f) - 1)) = NFramesFound(f) - 1
    BY <1>1, FS_Interval
  <2>3. Cardinality(S) <= Cardinality(1..(NFramesFound(f) - 1))
    BY <2>1, <2>2, FS_Subset
  <2>4. Cardinality(S) = NFramesFound(f)
    BY FramesFound
  <2> HIDE DEF S
  <2> QED BY <1>1, <2>2, <2>3, <2>4
<1>3. Found(f, n + 1)
  BY <1>1, <1>2, FoundBefore
<1>4. n < Len(f.table)
  BY <1>3, FileType DEF Found
<1>5. n * NSamplesPerFrame \in Nat /\ n * NSamplesPerFrame < f.nsamples_enc
  BY <1>4, EntriesCover
<1>6. f.nsamples_enc \in Nat
  BY FileType
<1>7. n * NSamplesPerFrame \in 0..f.nsamples_enc
  BY <1>5, <1>6
<1> QED BY <1>3, <1>4, <1>7

LEMMA PcmFrameIs ==
  ASSUME NEW f, IsFile(f), NEW n \in Nat, n < NFramesFound(f)
  PROVE  LET ni32 == dec_ni32_perframe(n * NSamplesPerFrame, f.nsamples_enc)
         IN  /\ ni32 \in Nat
             /\ DecodedFrames(f)[n + 1]
                  = [frame     |-> n + 1,
                     ni32      |-> ni32,
                     corrupted |-> n + 1 \in f.damaged \/ ~Whole(f, n + 1)]
<1> DEFINE left == f.nsamples_enc - n * NSamplesPerFrame
           m    == IF left < NSamplesPerFrame THEN left ELSE NSamplesPerFrame
<1>0. NFramesFound(f) \in Nat
  BY FramesFound
<1>1. n + 1 \in 1..NFramesFound(f) /\ (n + 1) - 1 = n
  BY <1>0
<1>2. n * NSamplesPerFrame \in 0..f.nsamples_enc /\ f.nsamples_enc \in Nat
  BY FramesAreFound, FileType
<1>3. /\ dec_ni32_perframe(n * NSamplesPerFrame, f.nsamples_enc) = NChan * m
      /\ NChan * m \in Nat
  BY <1>2, SamplesType
<1>4. DecodedFrames(f)[n + 1]
        = [frame     |-> n + 1,
           ni32      |-> NChan * m,
           corrupted |-> n + 1 \in f.damaged \/ ~Whole(f, n + 1)]
  BY <1>1 DEF DecodedFrames
<1> QED BY <1>3, <1>4

LEMMA DecodedFramesType ==
  ASSUME NEW f, IsFile(f)
  PROVE  DecodedFrames(f) \in Seq(PcmFrame) /\ Len(DecodedFrames(f)) = NFramesFound(f)
<1>1. NFramesFound(f) \in Nat
  BY FramesFound
<1>2. ASSUME NEW k \in 1..NFramesFound(f)
      PROVE  DecodedFrames(f)[k] \in PcmFrame
  <2> DEFINE n == k - 1
             c == k \in f.damaged \/ ~Whole(f, k)
             ni32 == dec_ni32_perframe(n * NSamplesPerFrame, f.nsamples_enc)
  <2>1. n \in Nat /\ n < NFramesFound(f) /\ n + 1 = k
    BY <1>1
  <2>2. ni32 \in Nat /\ c \in BOOLEAN
        /\ DecodedFrames(f)[k] = [frame |-> k, ni32 |-> ni32, corrupted |-> c]
    <3> HIDE DEF n
    <3> QED BY <2>1, PcmFrameIs
  <2> HIDE DEF n, c, ni32
  <2> QED BY <2>2 DEF PcmFrame
<1>3. DecodedFrames(f) = [k \in 1..NFramesFound(f) |-> DecodedFrames(f)[k]]
  BY DEF DecodedFrames
<1> QED BY <1>1, <1>2, <1>3

\* A turn takes the next frame, and what it reads is empty only from a file
\* that is cut between two frames.
LEMMA TakeStep ==
  ASSUME NEW f, IsFile(f),
         NEW n \in Nat, NEW target, NEW total, NEW unread \in Nat,
         TakenSoFar(f, n, target, total, unread), target # 0,
         ~Malformed(f, n + 1),
         NEW size, size = f.table[n + 1] - CrcSize,
         NEW ni32, ni32 = dec_ni32_perframe(total, f.nsamples_enc)
  PROVE  LET whole == size + CrcSize <= unread
         IN  /\ TakenSoFar(f, n + 1, IF whole THEN target - 1 ELSE 0,
                          total + ni32 \div NChan,
                          IF whole THEN unread - size - CrcSize ELSE 0)
             /\ size \in Nat /\ size # 0 /\ ni32 \in Nat /\ ni32 # 0
             /\ fread_bytes(size, unread) \in Nat
             /\ fread_bytes(size, unread) # 0 <=> n < NFramesFound(f)
             /\ n < NFramesFound(f) \/ (n = NFramesFound(f) /\ CutBetweenFrames(f))
             /\ n < NFramesFound(f) =>
                  DecodedFrames(f)[n + 1] =
                    [frame |-> n + 1, ni32 |-> ni32,
                     corrupted |-> n + 1 \in f.damaged \/ ~whole]
             /\ whole => fread_bytes(size, unread) = size
<1> DEFINE F == NSamplesPerFrame
           E == f.nsamples_enc
           m == IF E - total < F THEN E - total ELSE F
           whole == size + CrcSize <= unread
<1>1. /\ n < Len(f.table) /\ target = Len(f.table) - n
      /\ total = n * F /\ total < E
      /\ \A k \in 1..n : Whole(f, k) /\ ~Malformed(f, k)
      /\ f.avail = f.start[n + 1] + unread
      /\ f.table[n + 1] \in Nat
      /\ n + 1 \in 1..Len(f.table)
  BY SoFarNext
<1>2. /\ Len(f.table) \in Nat /\ E \in Nat /\ f.avail \in Nat /\ CrcSize \in Nat
      /\ f.start[n + 1] \in Nat /\ F \in Nat \ {0}
      /\ f.start[n + 2] = f.start[n + 1] + f.table[n + 1]
  BY <1>1, FileType, FormatAssumption, CrcAssumption
<1>3. total \in 0..E /\ (n + 1) * F = total + F /\ total \in Nat
  BY <1>1, SoFarCounts, EntriesCover
<1>4. /\ ni32 \in Nat /\ ni32 \div NChan = m /\ m \in Nat /\ ni32 # 0
  BY <1>1, <1>2, <1>3, SamplesType
<1>5. size \in Nat /\ size # 0 /\ size + CrcSize = f.table[n + 1]
  <2>1. f.table[n + 1] \in Nat /\ CrcSize \in Nat
    BY <1>1, <1>2
  <2>2. ~(f.table[n + 1] <= CrcSize)
    BY DEF Malformed
  <2> QED BY <2>1, <2>2
<1>6. Whole(f, n + 1) <=> whole
  <2>1. /\ f.avail = f.start[n + 1] + unread /\ f.start[n + 1] \in Nat
        /\ f.table[n + 1] = size + CrcSize /\ CrcSize \in Nat
    BY <1>1, <1>2, <1>5
  <2> QED BY <1>5, <2>1 DEF Whole
<1>7. total + m = IF (n + 1) * F < E THEN (n + 1) * F ELSE E
  <2> HIDE DEF F, E
  <2> QED BY <1>2, <1>3
<1>8. /\ \A k \in 1..(n + 1) : ~Malformed(f, k)
      /\ \A k \in 1..((n + 1) - 1) : Whole(f, k)
  <2>1. \A k \in 1..(n + 1) : k = n + 1 \/ k \in 1..n
    OBVIOUS
  <2> QED BY <1>1, <2>1
<1>9. TakenSoFar(f, n + 1, IF whole THEN target - 1 ELSE 0,
                total + ni32 \div NChan,
                IF whole THEN unread - size - CrcSize ELSE 0)
  <2>1. CASE whole
    <3>1. target - 1 = Len(f.table) - (n + 1) /\ n + 1 <= Len(f.table)
      BY <1>1, <1>2
    <3>2. f.avail = f.start[(n + 1) + 1] + (unread - size - CrcSize)
      <4>1. (n + 1) + 1 = n + 2
        OBVIOUS
      <4>2. /\ f.avail = f.start[n + 1] + unread /\ f.start[n + 1] \in Nat
            /\ f.start[n + 2] = f.start[n + 1] + (size + CrcSize)
            /\ CrcSize \in Nat
        BY <1>1, <1>2, <1>5
      <4> HIDE DEF whole
      <4> QED BY <1>5, <4>1, <4>2
    <3> HIDE DEF whole, m
    <3> QED BY <1>4, <1>6, <1>7, <1>8, <2>1, <3>1, <3>2 DEF TakenSoFar
  <2>2. CASE ~whole
    <3>1. n + 1 # 0 /\ n + 1 <= Len(f.table)
      BY <1>1, <1>2
    <3> HIDE DEF whole, m
    <3> QED BY <1>4, <1>6, <1>7, <1>8, <2>2, <3>1 DEF TakenSoFar
  <2> QED BY <2>1, <2>2
<1>10. /\ fread_bytes(size, unread) \in Nat
       /\ fread_bytes(size, unread) # 0 <=> unread # 0
       /\ whole => fread_bytes(size, unread) = size
  BY <1>2, <1>5 DEF fread_bytes
<1>11. /\ Found(f, n + 1) <=> unread # 0
       /\ n = 0 \/ Found(f, n)
  BY NextFound
<1>12. NFramesFound(f) \in Nat
  BY FramesFound
<1>13. CASE unread # 0
  <2>1. n < NFramesFound(f)
    BY <1>11, <1>12, <1>13, FramesAtLeast
  <2>2. DecodedFrames(f)[n + 1] =
          [frame |-> n + 1, ni32 |-> ni32,
           corrupted |-> n + 1 \in f.damaged \/ ~whole]
    BY <1>1, <1>6, <2>1, PcmFrameIs
  <2> HIDE DEF whole
  <2> QED BY <1>4, <1>5, <1>9, <1>10, <1>13, <2>1, <2>2 DEF whole
<1>14. CASE unread = 0
  <2>1. n = NFramesFound(f)
    BY <1>11, <1>14, FramesExactly
  <2>2. NoneLeft(f, n + 1)
    BY <1>1, <1>2, <1>14 DEF NoneLeft
  <2>3. CutBetweenFrames(f)
    BY <1>1, <1>2, <2>1, <2>2 DEF CutBetweenFrames
  <2>4. ~(n < NFramesFound(f))
    BY <1>12, <2>1
  <2> HIDE DEF whole
  <2> QED BY <1>4, <1>5, <1>9, <1>10, <1>14, <2>1, <2>3, <2>4 DEF whole
<1> QED BY <1>13, <1>14

\* Of a file that is not cut between two frames the loop takes only frames.
LEMMA SoFarFound ==
  ASSUME NEW f, IsFile(f),
         NEW n \in Nat, NEW target, NEW total, NEW unread,
         TakenSoFar(f, n, target, total, unread), ~CutBetweenFrames(f)
  PROVE  n <= NFramesFound(f)
<1>1. /\ Len(f.table) \in Nat /\ NFramesFound(f) \in Nat /\ n <= Len(f.table)
      /\ \A k \in 1..n : ~Malformed(f, k)
      /\ \A k \in 1..(n - 1) : Whole(f, k)
  BY FileType, FramesFound DEF TakenSoFar
<1>2. CASE n = 0
  BY <1>1, <1>2
<1>3. CASE Found(f, n)
  BY <1>3, FramesAtLeast
<1>4. CASE n # 0 /\ ~Found(f, n)
  <2> DEFINE m == n - 1
  <2>1. m \in Nat /\ m + 1 = n /\ n \in 1..Len(f.table)
    BY <1>1, <1>4
  <2>2. NoneLeft(f, n)
    BY <1>1, <1>4, <2>1 DEF Found
  <2>3. m = 0 \/ Found(f, m)
    <3> SUFFICES ASSUME m # 0 PROVE Found(f, m)
      OBVIOUS
    <3>1. /\ m \in 1..Len(f.table) /\ m \in 1..(n - 1)
          /\ \A k \in 1..m : k \in 1..n
          /\ \A k \in 1..(m - 1) : k \in 1..(n - 1)
      BY <1>1, <2>1
    <3>2. /\ f.table[m] \in Nat /\ f.start[m] \in Nat /\ f.avail \in Nat
          /\ CrcSize \in Nat
      BY <3>1, FileType, FormatAssumption, CrcAssumption
    <3>3. Whole(f, m) /\ ~Malformed(f, m)
      BY <1>1, <3>1
    <3>4. ~NoneLeft(f, m)
      BY <3>2, <3>3 DEF Whole, Malformed, NoneLeft
    <3> HIDE DEF m
    <3> QED BY <1>1, <3>1, <3>4 DEF Found
  <2>4. NFramesFound(f) = m
    <3> HIDE DEF m
    <3> QED BY <1>4, <2>1, <2>3, FramesExactly
  <2>5. n = NFramesFound(f) + 1
    BY <2>1, <2>4
  <2> QED BY <1>1, <2>1, <2>2, <2>5 DEF CutBetweenFrames
<1> QED BY <1>2, <1>3, <1>4

\* The loop ends when it has taken every frame.
LEMMA TakingEnds ==
  ASSUME NEW f, IsFile(f),
         NEW n \in Nat, NEW target, NEW total, NEW unread \in Nat,
         TakenSoFar(f, n, target, total, unread),
         \/ target = 0
         \/ Malformed(f, n + 1)
         \/ dec_ni32_perframe(total, f.nsamples_enc) = 0
  PROVE  \/ n = NFramesFound(f)
         \/ n = NFramesFound(f) + 1 /\ CutBetweenFrames(f)
<1>1. /\ Len(f.table) \in Nat /\ f.nsamples_enc \in Nat
      /\ CrcSize \in Nat /\ NFramesFound(f) \in Nat
  BY FileType, FormatAssumption, CrcAssumption, FramesFound
<1>2. n <= Len(f.table) /\ \A k \in 1..n : ~Malformed(f, k)
  BY DEF TakenSoFar
<1>3. CASE n # 0 /\ ~Whole(f, n)
  <2>1. /\ n \in 1..Len(f.table) /\ n \in 1..((n + 1) - 1)
        /\ (n - 1) + 1 = n /\ n - 1 \in Nat
    BY <1>1, <1>2, <1>3
  <2>2. \A k \in 1..(n - 1) : Whole(f, k)
    BY DEF TakenSoFar
  <2>3. ~Found(f, n + 1)
    BY <1>3, <2>1 DEF Found
  <2>4. CASE ~NoneLeft(f, n)
    <3>1. Found(f, n)
      BY <1>2, <2>1, <2>2, <2>4 DEF Found
    <3> QED BY <2>3, <3>1, FramesExactly
  <2>5. CASE NoneLeft(f, n)
    <3>1. ~Found(f, n)
      BY <2>5 DEF Found
    <3>2. n - 1 = 0 \/ Found(f, n - 1)
      <4> SUFFICES ASSUME n - 1 # 0
                   PROVE  Found(f, n - 1)
        OBVIOUS
      <4>1. /\ n - 1 \in 1..(n - 1) /\ n - 1 \in 1..n
            /\ n - 1 \in 1..Len(f.table)
            /\ \A k \in 1..(n - 1) : k \in 1..n
            /\ \A k \in 1..((n - 1) - 1) : k \in 1..(n - 1)
        BY <1>1, <2>1
      <4>2. Whole(f, n - 1) /\ ~Malformed(f, n - 1)
        BY <1>2, <2>2, <4>1
      <4>3. /\ f.table[n - 1] \in Nat /\ f.start[n - 1] \in Nat
            /\ f.avail \in Nat
        BY <4>1, FileType
      <4>4. ~NoneLeft(f, n - 1)
        BY <1>1, <4>2, <4>3 DEF Whole, Malformed, NoneLeft
      <4> QED BY <1>2, <2>2, <4>1, <4>4 DEF Found
    <3>3. NFramesFound(f) = n - 1
      BY <2>1, <3>1, <3>2, FramesExactly
    <3>4. CutBetweenFrames(f)
      BY <1>2, <2>1, <2>2, <2>5, <3>3 DEF CutBetweenFrames
    <3> QED BY <2>1, <3>3, <3>4
  <2> QED BY <2>4, <2>5
<1>4. CASE target = Len(f.table) - n /\ (n # 0 => Whole(f, n))
  <2>1. ASSUME NEW k \in 1..n
        PROVE  Whole(f, k)
    <3>1. k = n \/ k \in 1..(n - 1)
      OBVIOUS
    <3>2. n # 0
      BY <2>1
    <3> QED BY <1>4, <3>1, <3>2 DEF TakenSoFar
  <2>2. n = 0 \/ Found(f, n)
    <3> SUFFICES ASSUME n # 0
                 PROVE  Found(f, n)
      OBVIOUS
    <3>1. /\ n \in 1..n /\ n \in 1..Len(f.table)
          /\ \A k \in 1..(n - 1) : k \in 1..n
      BY <1>1, <1>2
    <3>2. /\ f.table[n] \in Nat /\ f.start[n] \in Nat /\ f.avail \in Nat
      BY <3>1, FileType
    <3>3. Whole(f, n) /\ ~Malformed(f, n)
      BY <1>2, <2>1, <3>1
    <3>4. ~NoneLeft(f, n)
      BY <1>1, <3>2, <3>3 DEF Whole, Malformed, NoneLeft
    <3> QED BY <1>2, <2>1, <3>1, <3>4 DEF Found
  <2>3. ~Found(f, n + 1)
    <3>1. CASE target = 0
      <4>1. ~(n + 1 \in 1..Len(f.table))
        BY <1>1, <1>4, <3>1
      <4> QED BY <4>1 DEF Found
    <3>2. CASE Malformed(f, n + 1)
      <4>1. n + 1 \in 1..(n + 1)
        OBVIOUS
      <4> QED BY <3>2, <4>1 DEF Found
    <3>3. CASE target # 0 /\ dec_ni32_perframe(total, f.nsamples_enc) = 0
      <4>1. total < f.nsamples_enc /\ total \in 0..f.nsamples_enc
        BY <3>3, SoFarNext, SoFarCounts
      <4>2. dec_ni32_perframe(total, f.nsamples_enc) # 0
        BY <1>1, <4>1, SamplesType
      <4> QED BY <3>3, <4>2
    <3> QED BY <3>1, <3>2, <3>3
  <2> QED BY <2>2, <2>3, FramesExactly
<1> QED BY <1>3, <1>4 DEF TakenSoFar

=============================================================================
