------------------------------- MODULE MC_ST --------------------------------
(***************************************************************************)
(* The single-threaded loops, EncST and DecST, on every small file: 2      *)
(* channels, frames of two samples per channel, 16 bit samples (a frame of *)
(* 8 bytes) and checksums of 1 byte.  The program runs one of the two; the *)
(* other waits before a file nobody reads.                                 *)
(***************************************************************************)
EXTENDS EncST

CONSTANTS CrcSize, TTAFiles

VARIABLES
  loop,  \* the one that runs: "encst" or "decst"
  \* the decoder's, as in DecST
  dec_process, dec_file, dec_unread, pcmfile, dec_pc,
  nframes_target, nframes_taken, nsamples_perchan_dec_total,
  dec_ni32_perframe, nbytes_tta_perframe, crc_read, dec_pcmbuf, dec_retval

dec_vars == <<dec_process, dec_file, dec_unread, pcmfile, dec_pc,
              nframes_target, nframes_taken, nsamples_perchan_dec_total,
              dec_ni32_perframe, nbytes_tta_perframe, crc_read, dec_pcmbuf, dec_retval>>

Dec == INSTANCE DecST WITH
         process <- dec_process, file <- dec_file, unread <- dec_unread,
         outfile <- pcmfile, pc <- dec_pc, nframes_read <- nframes_taken,
         ni32_perframe <- dec_ni32_perframe, pcmbuf <- dec_pcmbuf

\* Every announced size up to three frames, with every number of bytes present
\* from none to a chunk after the PCM.
PcmFiles == {[decpcm_size |-> d, avail |-> a] : d \in 0..26, a \in 0..29}

\* A file with the seektable t.
TTAFile(t, n, avail, damaged) ==
  LET sum[k \in 1..(Len(t) + 1)] == IF k = 1 THEN 0 ELSE sum[k - 1] + t[k - 1]
  IN  [table |-> t, start |-> sum, nsamples_enc |-> n, avail |-> avail,
       damaged |-> damaged]

\* Every seektable of up to three entries, malformed ones (0 and 1) included,
\* with every number of bytes present up to one more than it can announce, whole
\* and damaged, the last frame full or not.
AllTTAFiles ==
  {TTAFile(t, n, a, d) :
     t \in [1..3 -> {0, 1, 2, 4}], n \in {5}, a \in 0..13, d \in {{}, {2}}}
  \cup
  {TTAFile(<<e>>, n, a, {}) :
     e \in 0..4, n \in {1, 2}, a \in 0..5}
  \cup
  {TTAFile(<<>>, 0, a, {}) :
     a \in 0..1}

-----------------------------------------------------------------------------
STInit ==
  /\ loop \in {"encst", "decst"}
  /\ \/ loop = "encst" /\ dec_file = CHOOSE f \in TTAFiles : TRUE
     \/ loop = "decst" /\ file = CHOOSE f \in Files : TRUE
  /\ Init /\ Dec!Init

STNext ==
  /\ \/ loop = "encst" /\ Next /\ UNCHANGED dec_vars
     \/ loop = "decst" /\ Dec!Next /\ UNCHANGED vars
  /\ UNCHANGED loop

STSpec == STInit /\ [][STNext]_<<loop, vars, dec_vars>>

\* The properties of DecST: the PCM of the frames is written in order, and only
\* a file cut between two frames ends with an unexpected decode status
\* (decst_loop).
WritesFramesInOrder == Dec!WritesFramesInOrder

DecRejectsOnlyCut == Dec!RejectsOnlyCut

=============================================================================
