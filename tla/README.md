# libttaR and ttaR in TLA+

libttaR is a C library that encodes and decodes the TTA1 lossless audio format,
and `ttaR` the program on top of it. This directory holds TLA+ models of the
program, the TLC configurations that check them on small instances, and theorems
about them proved with TLAPS. Paths below are those of the repository under
`src/`; the code is in `src/src/cli` (the program) and `src/src/lib` (the
library).

The documented build defines `NDEBUG`: no assertion of the code stops anything
in these models.

## 1. The system

| component | where | state | operations |
|---|---|---|---|
| multi-threaded encoder | `cli/modes/mode_encode_loop.c`, `mt-struct.[ch]`, `pqueue.h`, `threads.*` | a ring of `framequeue_len` slots in parallel arrays (`encbuf`, `ni32_perframe`, `user`, `enc_retval`), the queue cursor under a spinlock, the semaphore `navailable`, one semaphore `post_encoder` per slot | `encmt_loop`, `encmt_io`, `encmt_encoder` |
| multi-threaded decoder | `cli/modes/mode_decode_loop.c`, the same helpers | the same ring with `nbytes_tta_perframe`, `crc_read`, `dec_retval`, `nsamples_flat_2pad` | `decmt_loop`, `decmt_io`, `decmt_decoder` |
| single-threaded loops | the same two files | one buffer, the counters of the loop | `encst_loop`, `decst_loop` |
| file lifecycle | `cli/modes/mode_encode.c`, `mode_decode.c`, `cli/main.c`, `cli/open.c`, `formats/tta_write.c`, `cli/debug.c`, `cli/system.posix.h` | open files, their names and stats, `g_rm_on_sigint`, `g_nwarnings` | `mode_encode`, `mode_decode`, `enc_loop`, `dec_loop`, `atexit_cleanup`, the signal handler |
| seektable | `cli/formats/tta_seek*.c`, `tta_write.c` | `table`, `nmemb`, `limit` | sizing, `seektable_add`, reservation, writing, checking |
| codec call protocol | `lib/3-0_tta_enc.c`, `3-1_tta_dec.c`, `tta_enc.h`, `tta_dec.h` | `LibTTAr_CodecState_User` and `_Priv` | `libttaR_tta_encode`, `libttaR_tta_decode`, in one call or several |
| Rice coder | `lib/rice24.h` and its tables | `k0`, `k1`, `sum0`, `sum1`, the bit cache | encode, decode, flush |
| filter, predictor, interleaving | `lib/filter/filter._C.h`, `tta.h`, `tta_state.h` | `qm`, `dx`, `dl`, `error`, `prev` | per sample |
| SIMD filters | `lib/filter/filter.{x86,arm,ppc}.h` | the same | the same in vectors |
| PCM conversion, queries, checksum | `lib/1-*.c`, `2-*.c`, `crc32.h` | none | pure functions |
| codec buffers | `cli/modes/bufs.c`, `align.h`, `alloc.c` | PCM, i32 and TTA buffers and their lengths | init, adjust, free |
| file checks and open | `cli/open.c`, `formats/*_check.c`, `metatags_skip.c` | file offset, `FileStats` | format recognition |
| WAV and W64 writers | `formats/wav_write.c`, `w64_write.c` | file offset | header layout |
| command line, diagnostics, platform | `cli/cli.c`, `opts/`, `help.c`, `debug.c`, `system.*` | global flags | parsing, messages, `exit` |

How they interact. `main` runs one of the modes on each file; the mode opens and
checks the input, reserves the place of the header and the seektable in the
output, and runs one of the two loops, then rewrites the header. A loop reads a
frame, calls the library on it, and writes the result. In the multi-threaded
loops an *io thread* does all reading and writing, the *coder threads* call the
library, and the thread that called the loop is the last coder. The threads
share the arrays of the ring without a lock: what keeps them off each other's
slots is only the order of semaphore operations. Any failed call ends the whole
process through `error_sys` or `error_tta`, from whatever thread it is on.

What is hard, and what has to be true:

* **Multi-threaded loops.** No two threads in one slot; a slot is handed over
  when it is complete, once; the coders finish in any order and the output is in
  the order of the file; the io thread does not read over a frame that is not
  written; every coder learns that it must stop and none learns it early; the
  loop returns; nothing is freed while it is in use. The value 0 in a slot means
  "the end", the path for files with fewer frames than slots skips the first
  writing loop altogether, and the number of posts at the end must match the
  number of coders.
* **Single-threaded loops.** The same stream of frames; short reads at any byte.
  A short read is remembered as a total of `SIZE_MAX`.
* **File lifecycle.** Any call may fail and a signal may come between any two.
  Nothing is written before every infile is checked; a finished file is
  consistent and an unfinished one is removed; with `--delete-src` a source goes
  only when its coding is on the disk; status 0 means that all went well.
  Between reservation and rewriting the seektable may have a different size, and
  names may clash: an outfile may be an infile, or the outfile of two.
* **Codec call protocol.** A frame in any number of calls gives what it gives in
  one; a call ends in time, within the margin of a buffer whose length it does
  not know before it has coded; the parameter checks subtract unsigned counters.
* **Rice coder, filter.** Encoder and decoder state move in lockstep through a
  filter and two adaptive sums that wrap; table indices, runs of ones and the bit
  cache stay in bounds whatever the bytes are; the vector versions compute what
  the C version computes.
* **File checks.** Each check reads a header of its own length and puts the
  stream back for the next one; chunks and tags are skipped by sizes from the
  file; what the program writes it must recognise, and what it left unfinished
  it must not.

`PROJECT.json` lists the hazards one by one with their lines and with the
properties that are about them.

## 2. The modules

| module | models | kind |
|---|---|---|
| `PQueue` | `pqueue.h` | operators |
| `Format` | the sample format of a stream, which encoder and decoder share | constants |
| `EncFrames` | `enc_readlen`, `enc_frame_zeropad`, the running total; and `InputFrames`, the frames a file has, without the loop | operators |
| `DecFrames` | `dec_ni32_perframe`, seektable entries, checksums; and `DecodedFrames` | operators |
| `FrameStream` | the abstract promise: frames reach the output in order, the output is closed when it has all, an error may abandon it | abstract specification |
| `EncMT`, `DecMT` | the multi-threaded loops | specifications |
| `EncST`, `DecST` | the single-threaded loops | specifications |
| `Seektable` | sizing, growth, reservation and writing of the seektable | operators |
| `CliFiles` | the disk, opening files, names of outfiles, exit, signal handler, the count of warnings | state and operations |
| `ModeLoop` | what `mode_encode` and `mode_decode` have in common | actions |
| `EncodeMode`, `DecodeMode` | `enc_loop`, `dec_loop` | actions |
| `Program` | `main` and the two modes; the properties of the file lifecycle | specification |
| `CodecArith` | the words and the pure functions of `tta.h`, the margin | operators |
| `Filter`, `FilterSIMD` | the adaptive filter in C, and as x86, Arm and PowerPC compute it | operators |
| `Rice24` | the Rice coder with its bit cache | operators |
| `Pcm` | PCM bytes to samples and back | operators |
| `TTACodec` | `libttaR_tta_encode` and `libttaR_tta_decode`: the call protocol | state and actions |
| `LosslessPipe` | the abstract promise of a codec: the samples taken come back in order | abstract specification |
| `FrameCodec` | a frame from PCM to PCM, with both kinds of callers, buffers and damage | specification |
| `Headers` | the headers of WAV, W64 and TTA1 and the tags, as cells of bytes | operators |
| `FileCheck` | `filestats_get`: tags, the checks of the formats, bounds | specification |
| `EncMTInv`, `DecMTInv`, `ProgramInv`, `CodecInv`, `FileCheckInv` | the inductive invariants of `EncMT`, `DecMT`, `Program`, `FrameCodec` and `FileCheck`; those of `EncST` and `DecST` are at the end of these modules | invariants |
| `Frames_proofs` | counting modulo the length of the ring, division with remainder; what one read adds to the frames read so far | proofs |
| `Codec_proofs` | words and powers of two; the filter in all its versions, the Rice coder and its bits, a group of samples, a frame, PCM | proofs |
| `EncMT_proofs`, `DecMT_proofs`, `EncST_proofs`, `DecST_proofs`, `FrameCodec_proofs` | the theorems of the specifications | proofs |
| `Program_proofs` | the theorems of `Program` and of `FileCheck` | proofs |
| `MC_EncMT`, `MC_DecMT`, `MC_ST`, `MC_Program`, `MC_Codec`, `MC_FileCheck` | instances for TLC; `MC_ST` has `EncST` and an instance of `DecST`, of which one runs | checking |

All four loops are shown to implement `FrameStream`, with `InputFrames(file)` or
`DecodedFrames(file)` as the source: two coders, whatever the interleaving, do
what the sequential loop does. `FrameCodec` is shown to implement
`LosslessPipe`; to the loops a frame is a number and "encoded" and "decoded" are
facts about it, and `FrameCodec` says what stands behind them.

### EncMT and DecMT

A thread is a program counter; an action is the code between two points at which
another thread can be noticed: one semaphore operation, one lock operation, one
access to a slot, one read or write of a file. The counters and the code they
stand for in `mode_encode_loop.c` (`mode_decode_loop.c` is alike):

| counter of the io thread | code | lines |
|---|---|---|
| `unborn` | not created yet (`encmt_loop`) | 335-338 |
| `read` | `loop0_entr`, the test of `readlen`, `fread`, padding, storing `ni32_perframe` | 638-670, 695-713 |
| `post0` | `semaphore_post(navailable)`, advance, "have we filled every slot" | 672-683 |
| `wait0`, `write0` | the wait on `post_encoder[idx]`, `enc_frame_write` | 685-694 |
| `tiny` | posting the rest of a ring that was never filled | 713-718 |
| `wait1`, `write1`, `post1` | the writing of what is left; each written slot is set to 0 and posted again to stop a coder | 719-738 |
| `done` | returned | 739 |

| counter of a coder | code |
|---|---|
| `unborn`, `create` (main thread only) | before and while the threads are created |
| `setup` | allocation of the private state |
| `wait` | `semaphore_wait(navailable)` |
| `lock`, `pop` | `spinlock_lock`; `pqueue_pop` and `spinlock_unlock` |
| `check` | the loop condition on `ni32_perframe[idx]` |
| `encode` (`decode`) | `enc_frame_encode` (`dec_frame_decode`) |
| `post` | `semaphore_post(&post_encoder[idx])` |
| `cleanup`, `gone` | freeing the private state; detached and ended |
| `join`, `free`, `returned` (main thread only) | joining the io thread; `encmt_state_free`; the loop has returned |

While a thread is at a counter it is *inside* that code and all the memory the
code touches counts as in use: that is how `NoDataRace` and `NoUseAfterFree` can
be stated on counters. The content of a slot is the number of the frame whose
PCM (or bytes) it holds and the frame that was coded from it, so that a mix-up
of slots, a stale length or a stale checksum shows in the output. `ErrorExit` is
any failed call: it ends all threads at once.

The input of the encoder is the number of bytes its header announces and the
number that follow the header; the input of the decoder is its seektable, the
announced samples, the bytes that follow and the set of frames that are damaged.
`fread` returns what is left. A checksum is a number that is different for every
intact frame and for anything that is not one; 0, the value the code stores for a
checksum that was not read, is different from all.

### EncST and DecST

One thread: `setup`, `read`, `encode` or `decode`, `write`, `returned`. They use
the operators of `EncFrames` and `DecFrames` that the other two use. The library
refuses a frame of no samples or bytes, and the write that follows exits
("unexpected encode status"): `process = "rejected"`.

### Program

`Program` EXTENDS `EncodeMode` and `DecodeMode`, both of which EXTEND `ModeLoop`,
which EXTENDS `CliFiles`. The disk is two functions: `entry` from names to
inodes and `data` from inodes to contents. A stream keeps its inode: `fopen` for
writing empties the file that a name names, also while it is open for reading,
and removing a name leaves what is open. One action is one call that can fail
or one assignment that matters to the removal:

| `pc` | code (encode; decode is alike) | lines of `mode_encode.c` |
|---|---|---|
| `args` | `optargs_process`, one infile at a time | 123-125 |
| `stat` | `filestats_get` of each; the error checks; exit or go on | 127-153 |
| `setup` | `seektable_nframes`, `seektable_init` (decode: `filecheck_tta_seektable`) | 235-248 |
| `open`, `note` | `fopen_check`; `g_rm_on_sigint = outfile_name` | 251-257 |
| `reserve` | `prewrite_tta1_header_seektable`, seek | 259-276 |
| `code` | the loop over the frames | 282-305 |
| `header` | `write_tta1_header`, `write_tta_seektable` | 307-319 |
| `close`, `forget` | `fclose`; `g_rm_on_sigint = NULL` | 325-330 |
| `next` | `fclose` of the infile, its removal | 163-176 |

`EarlyErrorExit`, `EncErrorExit` and `DecErrorExit` are the calls that end the
process when they fail, `Signal` a handled signal at any place. The loop over the
frames is one step here: its result is what `EncMT`, `EncST`, `DecMT` and `DecST`
show it to be (`NFrames` and `NSamples`, `NFramesFound`, rejection of a file cut between two
frames or without a frame, which in the multi-threaded loops means that only a
signal ends the program).

A path is a directory, a base and a suffix. `BeforeDot` says which directories
have a dot and what precedes the last one, which is all that `outfile_name_fmt`
depends on.

### FrameCodec

`FrameCodec` EXTENDS `TTACodec`, which EXTENDS `Filter` and `Rice24` over
`CodecArith`. The state is that of the library and of its caller:

| variable | code |
|---|---|
| `priv` | `LibTTAr_CodecState_Priv`: the bit cache, and per channel the filter, `k0 k1 sum0 sum1`, and the last sample |
| `user` | `LibTTAr_CodecState_User`: the counters of calls, samples and bytes, and the checksum |
| `call`, `status` | the call that runs, with its `..._MiscInfo`, samples and bytes so far; what the last one returned |
| `pcm`, `tta`, `out` | the three buffers: samples in, bytes, samples out |
| `ttabuf_len`, `stage`, `pad` | the caller's buffer, how far it is, the padding of a frame that failed |
| `frame`, `damaged`, `codes` | what was stored, whether it was changed, and a history of the codes |

`Enter` is the head of both functions: the parameter checks and, before the first
call counted, `state_priv_init`. `EncStep` and `DecStep` are one turn of the loop,
that is one sample of every channel through predictor, filter and Rice coder (or
back); `EncReturn` and `DecReturn` are what follows the loop: flush, checksum,
counters, status. The bit cache is the sequence of its bits, a checksum the
sequence of bytes it was computed from, the two tables of the Rice coder the
functions they tabulate.

There are two callers. `cli` is `enc_frame_encode` and `dec_frame_decode` with the
buffers of `bufs.c`: the whole frame, again with a longer buffer as long as the
status is OK_AGAIN. `api` is a program that keeps to the manual of
`libttaR_tta_encode`: calls of one group of samples or all that are left, buffers
of the margin or one byte more; a *rude* one also makes calls that violate one
rule, which must be refused without a trace. `StoreAndLoad` is the file between the
two halves: the frame is read back as it was, or with a byte overwritten by
zeroes or ones at one of a few places, or with ones only, into a buffer that holds old
bytes (all ones or all zeroes) behind it.

`BuildsAgree` compares the vector filters with `Filter` at every state of a filter
the encoder reaches, value by value and register by register, and the two
versions of the interleaving on the values in it.

### FileCheck

A file is a sequence of cells; a cell says which byte of which field it is, so
that a field can be read only where it begins, and a read in the middle of
something gives any of a few numbers. A step is one read with the seek behind
it; one read or seek may fail. `use` says who asks: `mode_encode`, `mode_encode` with
`--rawpcm`, or `mode_decode`. `check` is what is read next:

| `check` | code |
|---|---|
| `ape`, `id3` | one turn of `metatags_skip` |
| `wav`, `w64` | the RIFF header, `filecheck_wav`, `filecheck_w64` |
| `find` | one turn of `find_subchunk` |
| `fmt`, `wfx`, `data` | the bodies of the chunks |
| `tta1` | `filecheck_tta1` |
| `raw` | `rawpcm_statcopy` |
| `bounds`, `rest` | the checks in `filecheck_codecfmt` and `filestats_get` |

`Headers` builds the files from the writers of the program, so what the checks
read is what `write_wav_header`, `write_w64_header` and `write_tta1_header` write.

## 3. What is checked

| run | question |
|---|---|
| `encmt`, `decmt` | two coders, four slots, all kinds of files: type, data races, handover, early and missing stops, refinement of `FrameStream`, and that the loop returns; for the encoder also the inductive invariant of the proofs |
| `st` | both single-threaded loops on every small file: refinement, and errors only where they belong |
| `program` | both modes on command lines of up to two infiles, with failures and signals: type, order of checks, sources, incomplete files, removals, and what status 0 means |
| `codec` | frames through the codec and back: the stream is that of the codes, in one call or many, within the buffers; what comes back; when the program gives up; the other builds of the library; refinement of `LosslessPipe`; that a frame ends |
| `filecheck` | files of this program and of others, whole, unfinished and damaged, with faults: what is accepted, and as what; that a check ends |
| `encmt_uaf`, `encmt_hang`, `program_gap`, `codec_lax`, `filecheck_skip`, `codec_tail` | the findings of section 5: each ends with a violation |

The properties of the loops and of the program:

* `TypeOK`, in the modules where a type says more than the shape of the state: in
  `DecMT` the samples counted so far do not pass the announced ones, so that
  their difference does not wrap; in `Program` a count of warnings does not
  become 0; in `FrameCodec` `k` stays in its table and the cache in its word.
* `NoDataRace`: the cursor of the queue and every entry of the parallel arrays.
* `HandoverComplete`: a slot the io thread may write is posted once, complete,
  and no coder is in it.
* `NoEarlyStop`: a coder that stops has not mistaken a slot that is not filled
  yet for the end. `NoStrandedCoder`: at the return of the io thread enough posts
  are left for all coders that still have to stop. `CodersStopInTime` is both,
  of the decoder.
* `WritesInputInOrder`, `WritesFramesInOrder`: refinement of `FrameStream`.
* `EncmtReturns`, `DecmtReturns`: liveness.
* `RejectsOnlyCut`, and for the decoder `DecRejectsOnlyCut` (single-threaded): only a file cut between two frames ends
  with an unexpected status.
* `ChecksBeforeWriting`: no outfile is opened before every infile is open and
  checked.
* `NoSourceLost`: whatever fails and whenever a signal comes, an infile is as it
  was or its coding is on the disk. It excepts command lines on which names
  clash and files whose `fclose` failed, because the program warns of the latter
  and removes the source all the same.
* `NoIncompleteLeft`: an exit or a signal leaves no outfile that is not closed,
  except between `fopen` and the assignment to `g_rm_on_sigint`, or when the
  removal fails.
* `RemovesOnlyIncomplete` (an action property): a removal takes an infile that
  is coded or an outfile that is not complete; only a signal between `fclose`
  and the assignment of `NULL` removes a finished one.
* `CleanReturnMeansCoded`: if the program returns 0 and no names clash, every
  infile is coded completely, its outfile is laid out as the format asks, and
  the sources are deleted exactly if that was asked for. It excepts the layout of
  a run in which the PCM of an infile ends in a part of a sample where a frame
  would begin, for which the code leaves a gap (finding 3).

`NoEarlyStop` and the liveness properties of the loops are stated for inputs that
have a frame and are not cut exactly between two frames; for the others they are
false, which is finding 2. The files of both runs include those inputs.

Those of the codec:

* `StreamHoldsCodes`: bytes written and bits cached are the codes of the samples
  taken, each once and in order, wherever a call ended and the cache was emptied.
* `ChunksAgree`: a frame coded in pieces is the frame coded at once, and its
  checksum that of its bytes.
* `WithinBuffers`: neither side passes the end of its buffer, the decoder
  whatever the bytes are, the encoder as long as its codes are not longer than
  the sizes of the buffers stand for (`ModestCodes`; finding 4). At every moment of
  a call, of either caller, there is room behind the bytes written for the flush of
  what the bit cache holds, which `EncReturn` may do next.
* `Lossless`: a sound frame (not damaged, no code beyond the decoder's limit) comes
  back bit for bit, with its checksum, and the program never fails on it.
* `OneCallDecodes`: one call ends any frame, sound or damaged, and samples and
  padding are its length: the assertion in `dec_frame_decode`.
* `FailsOnlyOnCachedTail`: a sound frame decoded in pieces fails only in the case
  of finding 6, which is not what the library documents (`FailsAsDocumented`, of
  the run `codec_tail`), and in that case the bits of all samples still to come are
  in the bit cache.
* `GivesUpOnlyOnBursts`: `ttaR` gives up on a frame only if one sample of every
  channel, with the up to 39 + `KMax` bits the cache held before it, takes more than
  the buffer grows by.
* `BuildsAgree`: the vector filters and the version with conditional moves compute
  what the plain C code does; on PowerPC as long as no sum of products saturates,
  and with conditional moves as long as a value has a bit to spare.
* `KeepsPromise`: refinement of `LosslessPipe`. `FrameEnds`: liveness.

Those of the file checks:

* `ReadsWhatItWrites`: what one mode wrote the other reads: resolution, place and
  size of the data, unless the writer warned that the size does not fit.
* `FindsTheData`: the samples of other programs' files are found behind any number
  of chunks in any order, and never inside one, if every chunk has an even length and
  the fmt chunk ends with the structs that are read of it (`PlainChunks`; what other
  chunks do is in section 5).
* `RefusesUnfinished`: not accepted are a header only reserved, a damaged TTA1
  header, another format, and floating point, whatever fails on the way.
* `AcceptedIsCodable`: what is accepted has the bytes per sample, channels and
  frame length the codec can work with.
* `CheckEnds`: liveness, on any sizes in chunks and tags, unless sizes in a W64 file
  lead the stream back for ever (`SeeksBack`; finding 5).

### Bounds

* Coders 2, slots 4: `framequeue_len(2)` is 4. Two coders make every race of two
  coders and the io thread; the theorems say the same of every number of coders
  and slots.
* Whole files have 1 to 9 frames, so both sides of the tiny-file path, files of
  exactly as many frames as slots, and rings that are filled more than twice.
* A frame of the encoder has one sample of two channels of 16 bits (4 bytes):
  odd sizes, half samples, missing channels and cuts at any byte all occur within
  7 bytes. `EncST` has frames of 8 bytes and takes every announced size to 26
  with every number of bytes present to 29.
* A frame of the decoder is 3 bytes with a checksum of 1; malformed entries are
  0 and 1 as in the code they are 0 to 4. `DecST` takes every table of three
  entries from {0, 1, 2, 4} with any number of bytes present.
* `SIZE_MAX` is 255, out of reach of the totals except as the mark of a short
  read, as on a machine of 64 bits.
* `program`: two infiles, so that one file can be done while the other is not
  and names can clash; sources that are whole, cut inside a frame and cut between
  two, that announce a frame and a byte, or a frame, a sample and a byte, or
  nothing; every state of a seektable and of the frames; all of `-o FILE`, `-o DIR`
  and neither, with and without `-d`, both thread modes, the three output formats
  of the decoder; a missing infile, none at all, the same one twice, an outfile
  that is an infile. `UINT8_MAX` is 3, which two files with warnings pass.
* `codec`: words of `W` = 15 bits and PCM bytes of `ByteBits` = 4, so samples of
  4, 8 and 12 bits; in 15 bits the sums of the filter and of the Rice coder wrap
  within a frame, and no product leaves the integers of TLC. `KMax` = `W` - 8 = 7
  as 24 = 32 - 8, and `KInit` = 1, so that `k` runs from its first value to 0 and
  to `KMax`. `UnaryMaxBytes` is 32, 32, 512 for 8192, 8192, 2097152: the limit
  is a little above the longest code of the largest sample at `k` = 0, as in the
  code, and short enough that a swing passes it. A TTA byte has 8 bits.
  `NCALLS_MAX` = 2 makes the count of calls saturate. Buffers of
  `TTABUF_LEN_DEFAULT` = 32 bytes per channel (8192) are too short for some frames,
  which then take two or three steps of `encbuf_adjust`, and for some bursts.
* The frames of `codec`: every frame of up to four samples of extreme and small
  values, mono, stereo and of three channels; quiet passages that end in every
  pair of such values; loud ones that bring `k` to `KMax`. That the small instance
  is the code at another width was seen from the code's own output: with `W` = 28,
  `KMax` = 20, `KInit` = 10, `UnaryMaxBytes` = 8192, 8192, 2097152 and `ByteBits`
  = 8 the frame of `FrameCodec` is byte for byte the one `ttaR` makes (53 bytes
  from 7 stereo samples of 16 bits).
* `filecheck`: struct sizes are those of the code; `UINT32_MAX` is 160, and the
  sizes of data are 0, 1, and those around every sum with a struct that passes it. A
  number read where none begins is one of 0, 3, 30 and 4000: a malformed chunk, one that
  ends inside the file, and one beyond it. `UINT64_MAX` is 19999, more than twice any
  file, so that a size in a W64 header can have its top bit set without being that of
  data: where no number begins, eight bytes may also give 19944 and 16000, which as an
  `off_t` lead back by a little, and to before the start of the file. One fault per
  check. WAV and W64 files of other programs have up to three chunks of eight kinds,
  among them two fmt chunks, a chunk that holds the header of another, in WAV one of odd
  length, and in W64 one whose size leads back to the chunk in front of it.
* No action is bounded: files and frames are finite and so are the behaviours. The
  configurations with `CHECK_DEADLOCK FALSE` contain files on which the code
  really stops (finding 2), or end when the check of a file has ended
  (`FileCheck`); in the others TLC looks for deadlocks.

### Fairness

Weak fairness of the io thread, of each coder and of each step of the main
thread: the operating system runs every thread that can run. A semaphore that is
positive stays so until somebody takes it, and whoever waits for `lock` finds it
free again and again only until all others wait too; the runs show that no
stronger assumption about spinlock or semaphores is needed. `ErrorExit` is not
fair: no property relies on an error. The single-threaded loops and `Program`
state safety only. `FileCheck` is one thread under `WF_checkVars(CheckNext)`. `FrameCodec`
asks that its only thread goes on while the frame has not ended, which is
`WF_vars(Next)` where some step is always possible; that it is possible is what
the search for deadlocks shows.

## 4. What is proved

For every set of coders, every ring longer than their number, every sample
format, every set of files, every command line and every disk; for every frame,
every word from 10 to 32 bits (so for the code's own 32) and every way of cutting a
frame into calls; for every file with any number of chunks: unbounded threads,
slots, frames, samples, infiles and sizes. Every invariant and action property of
the passing runs is a theorem, and so are the four refinements of `FrameStream` and
that of `LosslessPipe`.

| theorem | states |
|---|---|
| **`EncMT_proofs`** | |
| `EncMTInvariant`, `EncMTSync` | the inductive invariant `IInv`, and its part about the synchronisation |
| `EncMTType`, `EncMTNoDataRace`, `EncMTHandoverComplete`, `EncMTNoStrandedCoder` | the invariants of the run `encmt` |
| `EncMTNoFrameOverwritten` | no frame is read over one that is not written |
| `EncMTNoEarlyStop` | no coder takes a slot that is not filled yet for the end |
| `EncMTWritesInputInOrder` | refinement of `FrameStream` |
| **`EncST_proofs`** | |
| `EncSTInvariant`, `EncSTRejectsOnlyCut`, `EncSTWritesInputInOrder` | invariant, the error, refinement of the same `FrameStream` |
| **`DecMT_proofs`** | |
| `DecMTInvariant`, `DecMTSync` | the inductive invariant, and its part about the synchronisation |
| `DecMTType`, `DecMTNoDataRace`, `DecMTHandoverComplete`, `DecMTCodersStopInTime` | the invariants of the run `decmt` |
| `DecMTWritesFramesInOrder` | refinement of `FrameStream` |
| **`DecST_proofs`** | |
| `DecSTInvariant`, `DecSTRejectsOnlyCut`, `DecSTWritesFramesInOrder` | as for the encoder |
| **`Program_proofs`** | |
| `ProgramInvariant` | the inductive invariant `IInv` |
| `ProgramTypeOK`, `ProgramChecksBeforeWriting`, `ProgramNoSourceLost`, `ProgramNoIncompleteLeft`, `ProgramCleanReturn` | the invariants of the run `program` |
| `ProgramRemovesOnlyIncomplete` | its action property |
| **`Program_proofs`**, the file checks | |
| `CheckedSafely`, `FollowsTheChunks`, `FileCheckInvariant` | the two halves of the inductive invariant of `FileCheck`, and both together |
| `AcceptsOnlyCodable`, `NeverAcceptsUnfinished`, `DataIsFound`, `WrittenIsRead` | `AcceptedIsCodable`, `RefusesUnfinished`, `FindsTheData`, `ReadsWhatItWrites` |
| **`FrameCodec_proofs`** | |
| `Inductive` | the inductive invariant `IInv` of `CodecInv` |
| `Promise` | refinement of `LosslessPipe` |
| `TypesKept`, `StreamHoldsAlways`, `ChunksAlwaysAgree`, `AlwaysWithinBuffers`, `AlwaysLossless`, `OneCallAlwaysDecodes`, `TailFailsOnly`, `BurstsGiveUpOnly`, `BuildsAlwaysAgree` | the invariants of the run `codec`, in the order of section 3 |
| **`Codec_proofs`** | |
| `GroupComesBack` | wherever the bits of one sample of every channel lie, the decoder that starts from the channels of the encoder takes exactly those bits, gives the samples back, and ends with the encoder's channels |
| `SimdHolds` | from every filter and for every value, the vector filters compute what the C filter computes |
| **`Frames_proofs`** | |
| `NextIsMod` | walking the ring with `pqueue_next` is counting modulo its length |

### Assumptions

* Loops: there is a coder and they are finitely many; the ring is longer than
  their number; formats are of 1 to 3 bytes and of at least one channel and one
  sample per frame; files are what `File` and `IsFile` say, that is, any two
  numbers for the encoder and any table of numbers for the decoder.
* The refinements of the encoder, `EncMTNoEarlyStop` and `EncSTRejectsOnlyCut`
  have the hypothesis `FilesFit`: the products of `enc_readlen` do not wrap. With
  a `size_t` of 64 bits this is so of every file a file system holds, whatever
  the header announces; with 32 bits it is so below 4 GiB less a frame, and
  section 5 says what happens above. The theorems about synchronisation do not
  need it, nor do those about the decoder.
* `Program`: the files on the disk are sources, and no two names name the same
  file (`StartsAssumption`). Hard links and symbolic links are excluded: with
  them an outfile can be an infile although their names differ, which `Clash`
  does not see. `StringsAssumption` and `NullAssumption` say that `""` and
  `".tta"` are strings and that `NULL` is neither a number nor a path.
* The codec: a word of `W` bits, 10 to 32, `KMax = W - 8`, and `KInit` up to that
  (`WordAssumption`); three bytes of PCM fit a word (`BufferAssumption`); limits,
  buffers and the count at which `ncalls_codec` stops are positive numbers. A frame
  (`JobsAssumption`) is any PCM of whole samples of 1 to 3 bytes, the same number in
  every channel and at least one. Its caller keeps to the manual of the library, or is
  `ttaR`. The vector filters are compared at the filters the encoder reaches; on PowerPC
  the hypothesis is that no sum saturates (section 5).
* The file checks (`SourcesAssumption`): any stats, sizes and tags of four kinds; files
  of this program whole, not finished, or TTA1 with one byte of the header changed;
  WAV and W64 files of others with any number of chunks of eight kinds in any order
  (in W64 only lengths that are multiples of eight), of which
  only one is a fmt chunk if it says that the samples are floating point; no data as
  large as `UINT64_MAX`. `FindsTheData`
  and `ReadsWhatItWrites` have conditions of their own, which are those of section 3.
* A file of the decoder carries the sums of its entries as a field `start`, with
  the equations that define it (`Starts`), instead of a recursive operator.

### The loops

Slots are reused, so no statement about a slot is inductive: the same id stands
for one frame after the other. `EncMTInv` and `DecMTInv` therefore number the
posts of `navailable` and the pops of the queue from 0. Number *n* is about slot
`n % QueueLen`; below `nframes_read` it is about frame *n + 1*, above it is a
slot that tells a coder to stop. Three counts are ordered,

    Written <= Popped <= Posted

where `Posted` is computed from the place of the io thread and `Popped` is
`Posted` less what is left in the semaphore and what coders have taken from it
but not popped yet. The conjuncts of `SyncInv`:

* `RingInv`: how far reading is ahead of writing at each place of the io thread;
* `QueueInv`: the cursor is `Popped % QueueLen`, one coder pops at a time;
* `CoderInv`: a coder in a slot has popped a number from `Written` to
  `Popped - 1`, and is alone there (numbers less than `QueueLen` apart are in
  different slots: lemma over `NextIsMod`);
* `HandoverInv`: a slot is at a coder, or posted once and complete, or being
  written;
* `PillInv`: the slots after the last frame hold 0;
* `StopInv`: every number popped beyond the frames has stopped a coder, so that
  pills suffice when there are more slots than coders;
* `ContentInv` (encoder): the PCM of a frame that is not written is in its slot,
  and what is written is in order; `FrameInv` (decoder): frames taken and frames
  to take add up to the table, and a slot has the checksum of its own frame.

`SyncInv` says nothing of what the frames are. That is `StreamInv`, proved on top
of it:

* `ReadInv`: after *n* frames the counters of the io thread are what `ReadSoFar`
  computes from *n* and the file alone, and every slot in the ring holds what
  `InputFrames` (`DecodedFrames`) says of its number;
* `PrefixInv`: what is written are the first frames of the input;
* `EndInv`: a coder stops and the shared state is freed only after all is read.

`ReadStep` and `ReadEnds`, `TakeStep` and `TakingEnds` of `Frames_proofs` are the
arithmetic of one read: short reads, a last frame that is not full, samples
padded, entries too small for a frame. `EncST_proofs` and `DecST_proofs` use the
same lemmas for the loops with one thread. Refinement follows from `PrefixInv`: each
action maps to a step of `FrameStream` or to a stutter. TLC checks `IInv` of
`EncMT` in `encmt`.

### The program

`IInv` of `ProgramInv` relates names, files and the stream at hand:

* `DiskInv`: a name names one file, and a source only its own name;
* `ChecksInv`: while infiles are opened and looked at, no file is an outfile, and
  no error so far means that every infile so far is what its stats say;
* `OutfileInv`: at most one outfile is open, it is the one of infile `i`, and it
  is noted in `g_rm_on_sigint` exactly from `note` to `forget`;
* `CodingInv`: unless names clash, infiles behind `i` are kept, coded, or failed
  to close, and those ahead are still the files that were checked.

At an exit what is removed is what is noted, so the last two give
`NoSourceLost` and `NoIncompleteLeft`. An outfile is written without disturbing a
source because two names that differ name different files: that is where the
exclusion of links is needed.

`TypeInv` adds what the types rest on. That errors stay within the number of
infiles needs `ErrorsInv`: `nerrors_file` is the number of infiles that could not
be opened or were refused, each counted once though there are two places that
count. That the seektable never grows needs that the frames read are no more than
were announced (`FramesFitTable`: rounding up to samples and then to frames is no
less than rounding the samples that are there up to frames). `AfterFrames` is a
recursive function; what it is after *n* steps is proved from the least
number of steps for which it would be something else, since the induction
theorems of the library cannot be used.

`CleanInv` is about runs without a warning. `FinishedInv`: every infile behind `i`
is coded whole and removed exactly if that was asked for, and a seektable that is
used is one whose checksum holds. `LayoutInv`: where the frames of the outfile
start is where the table will end; it follows from `FramesFillTable`: if no
sample is missing and none of the sources ends in a part of a sample where a
frame would begin, the frames are as many as were reserved for.

### The codec

A frame can be cut into calls at any place, buffers differ and grow, and a call may
empty the cache earlier or later than another would. `IInv` of `CodecInv` says that
none of it matters: there is a number *g* of groups (a group is one sample of every
channel) such that everything is a function of the frame and of *g*. `CodedOf` is that
function: the groups coded one after the other on a buffer without end.

* `EncodedTo`: the channels are those after *g* groups, and the bytes written with the
  bits cached are the bits of *g* groups. How many of these bits are in the cache is
  left open, which is what makes the statement independent of the calls.
* `DecodedTo`: for a sound frame the decoder has the channels the *encoder* had after
  *g* groups, and its cache with the bytes not read yet is the rest of the encoder's
  bits. `GroupComesBack` is its step, and with `EncodedTo` it gives `Lossless`,
  `ChunksAgree` and the refinement of `LosslessPipe`.
* `EncCallOK`, `DecCallOK`: a call that runs asked for whole groups, no more than are
  left, and its soft limits end a margin before the buffers do. For a damaged frame
  that, and the limit on a run of ones, is all there is, and it is enough for
  `WithinBuffers` and `OneCallDecodes`.
* `RoomInv`: as long as the codes are modest, there is room for what is in the cache.
  It needs the width of the cache (39 + `KMax` bits after a group at most) and that the
  margin covers a group.
* `GrowthInv`: as long as no group outgrows the step of `encbuf_adjust`, the encoder of
  `ttaR` always gets past the next group. This is where the proof first failed: the
  cache may hold bits of the groups before, which count too. `GivesUpOnlyOnBursts` said
  less and was false; it has the term `39 + KMax` since, and a frame in which no two
  channels take as much as the buffer grows by was added to the run.
* `EndedInv`: what a status says of the counters, by which `FailsOnlyOnCachedTail` is
  proved.

Under it lie lemmas about each operator. A word is proved to wrap to the one number
in its range that differs by a multiple of `2^W`; the unary and the binary part of a
code give the value back for any `k`; the sums stay in a `uint32_t` and `k` moves by
at most one and stays in 0..`KMax`; the filter of the decoder undoes that of the
encoder because both update themselves from the sign of the same residue;
interleaving, in both versions, and prediction are undone; what is written is cut
into bytes without loss; PCM bytes of any width come back.

The provers know nothing of an exponent that is not a number, of recursion, or of
induction over data. All three are reached through sets: a nonempty set of numbers has a
least member (by well-foundedness, `LeastNumber`), from which follow induction for a set
(`Induction`) and the existence of a function with given steps (`Recursion`); `2^n` is
the number that doubles at each step, and the order of powers follows.

`IInv` of `CodecInv` was tried with TLC on a part of the frames of `codec` before it was
proved. It is not a property of that run, because it recomputes each frame in each
state, which takes the full set of frames beyond the time of a run.

### The file checks

The sizes in a file lead the stream: one that is malformed sends it anywhere, and a
check may then read its header in the middle of samples. `SafeInv` says nothing of
where the stream is. It says what the checks that were passed prove of the *file*,
wherever they were passed: `FoundInv` that the file has the id of RIFF, that a fmt
chunk of PCM or an extensible one begins somewhere in it, or a TTA1 header whose
checksum holds; `StatInv` what the stats were checked for. Acceptance of something
unfinished is then refuted from its bytes: a header that was only reserved has no id,
the files of the other mode have no id of this one, every id of a fmt chunk in a file is
followed by a format of that file, and one changed byte of a TTA1 header is not what
its checksum was computed from, or takes the checksum itself away.

`CourseInv` is about a file that is meant to be accepted and reads that succeed. Over
such a file the stream is at the end of a tag (`TagBounds`) or of a chunk (`Bound`)
whenever a check begins: it is never inside a chunk, so no id in the content of one
can be mistaken for a chunk. The chunks a program writes around the data are folded
over their number; the size of each is what its header says, so that a skip leads from
one bound to the next. `FindsTheData` and `ReadsWhatItWrites` follow from the place of the
last bound. Both halves were checked with TLC on the files of `filecheck`.

### What is only model-checked

* Liveness (`EncmtReturns`, `DecmtReturns`, `FrameEnds`, `CheckEnds`): fairness and
  `ENABLED` are outside what the prover does.
* The violations of section 5, which are about single runs.

## 5. Findings

1. **The shared state is freed while coders may still use it** (`encmt_uaf`).
   `encmt_loop` and `decmt_loop` join the io thread and then
   destroy the semaphores and free the arrays. Nobody waits for the detached
   coders: one that has not run since the last post will still wait on
   `navailable`, pop the queue and look at its slot.
2. **Deadlock on a cut at a frame boundary** (`encmt_hang`). A read
   that returns nothing is still posted as a slot, of length 0, which its coder
   takes for the end; the io thread then waits for that slot for ever. The same
   happens with a file without frames, and in the decoder in both cases and when
   the first seektable entry is malformed. The single-threaded loops exit with an
   error or return with no frames.
3. **The seektable of a truncated source is in the wrong place**
   (`program_gap`). The room is reserved for the frames the header announces,
   the table is written with one entry for each frame there was. There are two kinds
   of sources that have fewer frames than were reserved for. One is cut inside a
   frame, of which the program warns. The other announces a size that ends in a part
   of a sample right after a full frame (or no more than that part, or
   nothing): `seektable_nframes` counts the part as a frame, `enc_readlen` drops
   it; there is no warning, the status is 0, and `-d` removes the source. Either
   way the decoder takes what follows the table for the first frame and reports
   every frame as bad.
4. **Not every frame comes back** (`codec_lax`). `k` follows the sum slowly. After
   a quiet passage both `k` of a channel are 0, and a swing between the extremes
   then has a unary code of more ones than the decoder's limit, which ends it
   there (`rice24.h:898`). The encoder writes such a code without a complaint, and the
   frame is reported as damaged when it is decoded, against "lossless" (README.md:8), the
   comment at `rice24.h:494` and the assertion at `tta_enc.h:171`. With 24 bits
   such a code needs more bytes than the buffer has left and than
   `encbuf_adjust` adds, and the program exits with "unexpected encode status";
   `ModestCodes` and `GivesUpOnlyOnBursts` mark the borders.
5. **Tags and chunks are not always skipped to their end** (`filecheck_skip`).
   `id3syncsafeint` puts the four bytes of the length of an ID3v2 tag together in the
   wrong order. And the search for a W64 chunk skips one by `(off_t) (size - 24)`
   (`w64_check.c:162-166`): a size with its top bit set is a negative offset, and a
   chunk whose size leads to the chunk in front of it makes
   `filecheck_w64_find_subchunk`, which is to "seek to end of current subchunk", read
   the two in turn without an end. A size that leads to before the start of the file is
   a seek error and ends the check, as does any other mix of sizes (`CheckEnds`). The
   trace of the run is that of a tag; with `Sources <- BackSources` in the
   configuration it is that of a chunk, back at the offset 40 it met before.
6. **A sound frame can be answered with FAIL_DECODE** (`codec_tail`). A
   frame ends with its last byte (`TTADEC_POSTLOOP`, `tta_dec.h:141-143`), but a caller
   that decodes in pieces may have read that byte while the codes of the samples still
   to come are in the bit cache. The status is then FAIL_DECODE with all bytes read and
   samples missing: `src/lib/tta.h:31-34` has it for an unfinished frame only if more
   bytes were read than the frame has, and `man/libttaR_tta_encode.3:286-292` says it
   "would be caused by either corrupted or malformed TTA data". In the run the frame
   of a quiet passage has its last codes in one byte. `ttaR` decodes in one call and is
   not affected (`OneCallDecodes`, `Lossless`).
Seen while modelling, and without a run of their own:

* `enc_readlen` wraps where `size_t` has 32 bits: when the PCM ends within a
  frame of 4 GiB, the end of the next frame wraps to a small number and the
  chunks after the PCM are encoded as audio.
* Two infiles, one outfile: the suffix is cut off at the last dot of the whole
  path, so `./a` and `./b` both become `.tta`. The second coding overwrites the
  first without a warning, and `-d` deletes both sources. The same happens with
  `-o FILE` and several infiles, of which the program warns, and an infile named
  as its own outfile is emptied before it is read.
* `ni32_perframe - ni32_total` in `tta_dec.h:85` is unsigned and not guarded as it is
  in `tta_enc.h`: a caller that lowers `ni32_perframe` between calls passes the check
  (`ExceedsRest` in `TTACodec`). The callers of `FrameCodec` do not: that
  `ni32_total` stays within the frame is part of the invariant that is proved.
* `vec_sums` saturates on PowerPC where the other filters wrap, and with
  LIBTTAr_OPT_PREFER_CONDITIONAL_MOVES the interleaving of values from 2^30 on
  (`tta.h:319-325`, `tta.h:354-361`) differs from the one without: a residue that
  large is coded differently by different builds.
* The sum for the size in a RIFF header wraps for data just below `UINT32_MAX`, and
  the labels of the two warnings about sizes are swapped.
* The tail of an extensible fmt chunk of another length is skipped in the wrong
  direction; a PCM fmt chunk of 18 bytes and the padding byte of an odd chunk are
  not skipped at all. WAV and W64 files without samples and TTA files of less than
  32 bytes, which the program writes, it does not read.
* `priv_free` (`bufs.c:290`) frees an address other than the one allocated where
  `malloc` does not align to 16 bytes.

## 6. What is not modelled, and the plan

Not modelled, because it is sequential and its result only names one of the
behaviours the models have: option parsing (`cli.c`, `opts/`), progress and
statistics, messages. Pure functions that the models take as given: the
table of the checksum, byte order, the tests for overflow of sizes
(FAIL_OVERFLOW, for counts beyond `size_t`) and MISCONFIG (a build without the
loop asked for). Addresses of buffers and their alignment. The window in which an
exit on one thread runs beside the others (`debug.c:154`): it needs the loops
inside the file lifecycle. The Windows layer, whose primitives the models already
stand for.

What would come next: hard links in `Program`, with `Clash` as a relation between files
instead of names; and the loops of `EncMT` inside the file lifecycle, for the window
of `debug.c:154`.
