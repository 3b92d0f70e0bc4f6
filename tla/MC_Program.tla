----------------------------- MODULE MC_Program -----------------------------
(***************************************************************************)
(* Program on command lines of up to two infiles: 2 channels of 16 bit     *)
(* samples, a frame of two samples per channel (8 bytes).                  *)
(***************************************************************************)
EXTENDS Program

\* "./" has a dot, and nothing before it.
MCBeforeDot == "./" :> ""

Named(d, b, s) == [dir |-> d, base |-> b, sfx |-> s]

awav  == Named("", "a", ".wav")
bwav  == Named("d/", "b", ".wav")
atta  == Named("", "a", ".tta")
btta  == Named("d/", "b", ".tta")
dot_a == Named("./", "a", "")
dot_b == Named("./", "b", "")

Dir == Named("e/", "", "")

\* The options, with or without --delete-src
Flags(out, isdir, decfmts) ==
  [outfile : {out}, outfile_is_dir : {isdir}, delete_src : BOOLEAN,
   threadmode : {"single", "multi"}, decfmt : decfmts]

\* The infiles ns, the k-th of which is a source fs[k].
Start(m, ns, fs, flag) ==
  [mode   |-> m,
   argv   |-> ns,
   g_flag |-> flag,
   entry  |-> [n \in {ns[k] : k \in DOMAIN ns} |->
                 CHOOSE k \in DOMAIN ns : ns[k] = n],
   data   |-> [k \in DOMAIN ns |->
                 [kind |-> IF m = "encode" THEN "pcm" ELSE "tta",
                  id   |-> ns[k],
                  file |-> fs[k]]]]

-----------------------------------------------------------------------------
(* Encode: two frames, the last one short; cut inside a frame; cut after   *)
(* the first frame; a frame and a byte; a frame, a sample and a byte; none.*)

Whole   == [decpcm_size |-> 12, avail |-> 20]
Cut     == [decpcm_size |-> 24, avail |-> 11]
Between == [decpcm_size |-> 24, avail |-> 8]
Stray   == [decpcm_size |-> 9, avail |-> 20]
Odd     == [decpcm_size |-> 13, avail |-> 13]
Nothing == [decpcm_size |-> 0, avail |-> 3]

EncFlags(out, isdir) == Flags(out, isdir, {".w64"})

EncFiles == {Whole, Cut, Between, Stray, Odd, Nothing}

EncStarts ==
  {Start("encode", <<awav, bwav>>, <<f, g>>, flag) :
     f \in EncFiles, g \in {Whole, Cut, Between},
     flag \in EncFlags(NULL, FALSE) \cup EncFlags(Dir, TRUE)
              \cup EncFlags(atta, FALSE)}

\* An outfile that is an infile, the same infile twice, no infile, an infile
\* that does not exist, and names that become the same.
EncOddStarts ==
  {Start("encode", ns, <<Whole, Whole>>, flag) :
     ns \in {<<awav, atta>>, <<atta, awav>>, <<awav, awav>>, <<dot_a, dot_b>>},
     flag \in EncFlags(NULL, FALSE)}
  \cup {Start("encode", <<>>, <<>>, flag) : flag \in EncFlags(NULL, FALSE)}
  \cup {[Start("encode", <<awav, bwav>>, <<Whole, Whole>>, flag)
           EXCEPT !.entry = awav :> 1] : flag \in EncFlags(NULL, FALSE)}

-----------------------------------------------------------------------------
(* Decode                                                                  *)

TTA(t, f) == [table |-> t, frames |-> f]

DecStarts ==
  {Start("decode", <<atta, btta>>, <<f, TTA("ok", "intact")>>, flag) :
     f \in TTAFile, flag \in Flags(NULL, FALSE, {".raw", ".wav"})}
  \cup {Start("decode", <<atta, btta>>, <<TTA("ok", "intact"), f>>, flag) :
          f \in TTAFile, flag \in Flags(Dir, TRUE, {".w64"})}

\* One outfile for all, or an infile that is its own outfile
DecOddStarts ==
  {Start("decode", <<atta, btta>>,
         <<TTA("ok", "intact"), TTA("ok", "intact")>>, flag) :
     flag \in Flags(atta, FALSE, {".w64"}) \cup Flags(awav, FALSE, {".wav"})}

AllStarts == EncStarts \cup EncOddStarts \cup DecStarts \cup DecOddStarts

\* A truncated source, and one that ends in a part of a sample
GapStarts ==
  {Start("encode", <<awav>>, <<f>>, flag) :
     f \in {Cut, Stray}, flag \in EncFlags(NULL, FALSE)}

=============================================================================
