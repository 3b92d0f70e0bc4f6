---------------------------- MODULE MC_FileCheck ----------------------------
(***************************************************************************)
(* FileCheck on the files the program writes, at the sizes around          *)
(* UINT32_MAX, and on files of other programs.                             *)
(***************************************************************************)
EXTENDS FileCheckInv

Resolution(nchan, bits, rate) ==
  [nchan |-> nchan, samplebits |-> bits, samplerate |-> rate, off |-> 0, size |-> 0]

Sane == Resolution(2, 16, 44)
Odd  == {Resolution(0, 16, 44), Resolution(2, 0, 44), Resolution(3, 24, 1),
         Resolution(2, 25, 44), Resolution(1, 8, 0)}

MCRawStat == Sane

Sizes == {0, 1, 8, 14, U32MAX - 60, U32MAX - 58, U32MAX - 56, U32MAX - 1, U32MAX, U32MAX + 1}

Own(formats, states, ats, tags, stats, sizes) ==
  [maker : {"own"}, format : formats, state : states, at : ats, tag : tags,
   stat : stats, size : sizes]

Foreign(format, chunks, tags, sizes) ==
  [maker : {"foreign"}, chunks : chunks, format : {format}, state : {"whole"},
   tag : tags, stat : {Sane}, size : sizes]

Ape == {"none", "ape", "apes"}

MCPlain == {<<"pcm">>, <<"pcm", "ext">>, <<"ext">>, <<"list", "pcm">>, <<"ext", "list">>, <<"list", "ext", "list">>}
Ragged == {<<"pcm18">>, <<"ext42">>, <<"ext42", "list">>, <<"odd", "pcm">>,
           <<"pcm", "odd">>, <<"float">>, <<"list">>}

RaggedW64 == {<<"float">>, <<"list">>, <<"back", "pcm">>, <<"pcm", "back">>}

\* A chunk whose size leads back to the one in front of it.
BackSources == Foreign("w64", {<<"list", "back">>}, {"none"}, {14})

\* Files behind an ID3 tag.
TaggedSources == Own({"wav", "tta1"}, {"whole"}, {0}, {"id3"}, {Sane}, {14})

SkippedSources == TaggedSources \cup BackSources

MCSources ==
  UNION {SkippedSources,
         Own({"wav", "w64", "tta1"}, {"whole"}, {0}, Ape, {Sane}, Sizes),
         Own({"wav", "w64", "tta1"}, {"whole"}, {0}, {"none"}, Odd, {14}),
         Own({"wav", "w64", "tta1"}, {"unfinished"}, {0}, {"none", "ape"}, {Sane}, {0, 14}),
         Own({"tta1"}, {"damaged"}, {5, 7, 12, 19}, {"none"}, {Sane}, {14}),
         Foreign("wav", MCPlain \cup Ragged, Ape, {1, 14}),
         Foreign("w64", MCPlain \cup RaggedW64, Ape, {1, 14})}

=============================================================================
