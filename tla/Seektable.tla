----------------------------- MODULE Seektable ------------------------------
(***************************************************************************)
(* The seektable of a TTA file: the length of each frame, stored between   *)
(* the header and the frames (src/src/cli/formats/tta_seek.c and           *)
(* tta_write.c).  Room for it is reserved before the frames are written,   *)
(* from the announced size of the PCM; it is written when the frames are,  *)
(* with as many entries as there are frames.                               *)
(***************************************************************************)
EXTENDS Integers

CONSTANTS HeaderSize,               \* sizeof(struct TTA1Header)
          EntrySize,                \* sizeof(uint32_t)
          SEEKTABLE_INIT_DEFAULT    \* entries to grow by

ASSUME SeektableAssumption ==
  /\ HeaderSize \in Nat
  /\ EntrySize \in Nat \ {0}
  /\ SEEKTABLE_INIT_DEFAULT \in Nat \ {0}

\* off is 0 until write_tta1_header says where the header ends.
SeekTable == [off : Nat, nmemb : Nat, limit : Nat \ {0}]

RoundedUp(n, d) == (n \div d) + (IF n % d # 0 THEN 1 ELSE 0)

\* Mutant of seektable_nframes: a last frame that is not full is not counted.
seektable_nframes_full(decpcm_size, buflen, samplebytes) ==
  RoundedUp(decpcm_size, samplebytes) \div buflen

\* The frames that decpcm_size bytes of PCM make, the last one not always full.
seektable_nframes(decpcm_size, buflen, samplebytes) ==
  RoundedUp(RoundedUp(decpcm_size, samplebytes), buflen)

seektable_init(nframes) ==
  [off   |-> 0,
   nmemb |-> 0,
   limit |-> IF nframes # 0 THEN nframes ELSE SEEKTABLE_INIT_DEFAULT]

\* One more entry, in a table made larger if it is full.
seektable_add(st) ==
  [st EXCEPT
     !.nmemb = @ + 1,
     !.limit = IF st.nmemb = @ THEN @ + SEEKTABLE_INIT_DEFAULT ELSE @]

\* The table after n frames are written.
AfterFrames(st, n) ==
  LET after[k \in 0..n] == IF k = 0 THEN st ELSE seektable_add(after[k - 1])
  IN  after[n]

\* A table of n entries and its checksum
TableSize(n) == (n + 1) * EntrySize

\* prewrite_tta1_header_seektable: where the frames will start
ReservedSize(st) == HeaderSize + TableSize(st.limit)

\* write_tta_seektable: where the table that is written ends
TableEnd(st) == st.off + TableSize(st.nmemb)

=============================================================================
