# A TLA+ model of compcol

compcol is a Rust library of streaming compression codecs, the adapters that turn them into
`std::io` and tokio readers and writers, one-shot helpers, two header codecs (HPACK and QPACK) and a
command line tool. This directory holds TLA+ modules of the parts with state and control worth
checking, the TLC configurations that check them, and proofs. Paths below are relative to `src/src/`.

Contents: [inventory](#inventory) · [modules and the code](#modules-and-the-code) · [runs](#runs) ·
[fairness](#fairness) · [proofs](#proofs) · [disagreements](#disagreements-found) ·
[not modelled](#what-is-not-modelled) · [plan](#plan) · [how to run](#how-to-run)

## Inventory

Nothing in the library is threaded. What is hard is *resumption*: every codec and adapter may be
stopped by a full output buffer, an exhausted input, an error or `Pending` of the stream below, and
must go on later without losing, repeating or misreporting a byte. Two-party agreement (HPACK,
QPACK, an LZ or LZW dictionary kept alike at both ends) and the file system (the tool) are the other
sources of difficulty.

| Component | State it keeps | Operations | Interacts with | Correct when |
|---|---|---|---|---|
| Codec contract, `traits.rs` | the codec's own | `encode`, `decode`, `flush`, `finish`, `reset`, `discard_output` | blanket bridge from the raw traits: derives `Status` from byte counts | stops only for want of room or input; `StreamEnd` exactly at the end |
| std adapters, `io.rs` | codec, scratch or input buffer with cursors, `taken`/`finished`/`inner_eof` | `write`, `flush`, `finish`, `read`, drop | one codec, one inner `Read`/`Write` | nothing lost or repeated; Ok and end of file mean complete; calls return |
| tokio adapters, `tokio_io.rs` | the same, plus what a poll in progress needs | `poll_write`, `poll_flush`, `poll_shutdown`, `poll_read` | a codec, an inner `AsyncRead`/`AsyncWrite` that may be pending; a caller that may abandon a poll | the same; `Pending` takes nothing; a marker per flush, not per poll |
| Limited decoder, `limit.rs` | budget and bytes written | `decode`, `finish`, `discard_output`, `reset` | any decoder | never over the budget; no error for a stream that fits |
| One-shot helpers, `vec.rs` | output vector | `compress_to_vec*`, `decompress_to_vec*` | a codec or a limited decoder | Ok means the whole plaintext; always stops |
| HPACK, `hpack/` | a dynamic table at each end, a pending size update | `encode`, `decode` | the peer, over one ordered connection | tables stay equal; fields arrive as sent |
| QPACK, `qpack/` | a dynamic table at each end, whether its capacity was announced | `encode`, `feed_encoder_stream`, `decode_field_section` | the peer, over an ordered encoder stream and unordered sections | what is accepted is right; sections in order decode |
| Tool, `bin/compcol.rs` | two buffers, two files | `run` | file system, codecs, other processes | data in at least one file; exit status true |
| Run-length codecs, `rle.rs`, `packbits.rs`, `rle90.rs` | a small state machine each, a queue in two | raw encode/decode/finish/reset | the contract | round trip for every division into calls |
| DEFLATE and deflate64, `deflate/`, `deflate64/` | encoder: window, hash chains, a block buffer, the pending flush; decoder: bit reader, window, place inside a field | encode, four flushes, finish, `set_params`; decode, `decode_block` | the contract; `huffman.rs`, `bits.rs` | round trip; a flush delivers; unused bytes handed back |
| gzip and zlib, `gzip/`, `zlib/` | header and trailer cursors, checksum, dictionary | the same, `set_dictionary` | DEFLATE | trailer checked; members in a row; nothing behind the end taken |
| LZMA, LZMA2 and xz, `lzma*/`, `xz/` | a model and dictionary at each end that chunks reset; check, sizes and index of blocks | encode, two flushes, finish; decode | range coder | round trip; chunk resets agree; every size and check of the container compared |
| bzip2, `bzip2/` | encoder: run in progress, block, bits of the byte in progress; decoder: all input not parsed, place in the stream, block being read, output owed | the same, flush | the contract; its own bits, tables, BWT, MTF and run lengths | round trip; blocks and streams start at any bit or byte; broken tables, selectors, origins and checksums refused |
| LZW family, `lzw/`, `arc_crunch/`, `arc_squash/`, `zip_shrink/` | a dictionary that widens, clears or is pruned in step at both ends, bits in groups | raw encode/decode/finish/reset | the contract | dictionaries stay in step for every division into calls |
| Block LZ formats, `lz4/`, `lz5/`, `lzo/`, `snappy/`, `lzf/` | a block being gathered or handed out, a window between linked blocks, the place in a frame | raw encode/decode/finish/reset, a flush in LZF | the contract | round trip for every parse; linked blocks agree on the window; lengths, offsets and checksums of a broken stream refused |
| Token LZ formats, `lzs/`, `xpress/`, `adc/`, `lznt1/`, `lzss/` | encoder: all the plaintext until finish; decoder: what it has absorbed or the place inside a token, a history or ring, a literal or match that waits for room | raw encode/decode/finish/reset | the contract | round trip; a token that must wait for input or room is read once; the promised length kept |
| Entropy coders, `huffman_codec/`, `rangecoder/`, `arc_squeeze/`, `zip_reduce/` | all the input until finish, or a tree, a staged output and the place in a run | raw encode/decode/finish/reset | the contract | round trip; tables, counts and follower sets of a broken stream refused |
| Heap-free DEFLATE, `embed/` | decoder: step to take, 32 bits, window; encoder: a block, its place in it, 32 bits | push decode and encode, one-shot calls, `write` and `finish` of `embed::flate` | the contract; caller's memory | a step runs whole or not at all, however input and output are cut |
| Block transforms and filters, `delta/`, `mtf/`, `bwt/`, `bcj*/` | a ring, a list or the last bytes of the text that may still become an instruction, with the place in the address space; all the input in BWT and BCJ2 | raw encode/decode/finish/reset | the contract | round trip however the text is cut; only whole instructions converted, and the same ones at both ends |
| The other formats | windows, tables, bit buffers | the same | the contract | their bits are right |

## Modules and the code

**Contracts.** `EncoderCodec` and `DecoderCodec` (`traits.rs`) define the *set of outcomes* one codec
call may have: how much it takes, what it writes, which `Status` the bridge derives. The encoded
stream is a sequence of tokens (a byte's position, a sync marker, the trailer), the compressed one a
number of units that each expand to `Expand` plaintext bytes. A decoder may be *strict* (gzip and
zlib: finish fails unless it can complete in that call) or not, *eager* (gives all it has room for)
or not, and owes at most `Hold` bytes (`StrictHold` if strict) for what it has absorbed.

**Adapters.** One step is one call out of the adapter, so that every interleaving of codec calls,
inner calls, failures and retries is a behaviour.

| Module | Code | Correspondence |
|---|---|---|
| `EncoderWriter` | `io.rs` 97–237 | `staged` is `scratch[out_pos..out_len]`, `wire` what the inner writer took; `InnerAccepts`/`InnerFails` are `drain_pending`; `Encode`, `Flush`, `Finish` the codec calls of `write`, `flush`, `do_finish`; `CallDrop` the best-effort finish |
| `DecoderWriter` | `io.rs` 358–470 | the same for the decoding writer |
| `EncoderReader`, `DecoderReader` | `io.rs` 243–582 and, with `Pending` for a retried error, `tokio_io.rs` 329–538 | `Refill` the inner read, `Encode`/`Decode`/`Finish` the calls straight into the caller's buffer |
| `AsyncEncoderWriter`, `AsyncDecoderWriter` | `tokio_io.rs` 64–322 | each poll starts its function from the top; `InnerRefuses` is pending or failing; the caller may poll anything else next, until it starts to shut down |
| `Pipe` | — | the abstract specification: taken, delivered in order without gap or repeat, closed only with everything delivered |
| `VecDecode` | `limit.rs`, `vec.rs` | `LimitedDecode` and `LimitedFinish` are the limited decoder: `Spent` is the probe at budget zero, `Cap` the clamp of the buffer (with `usize` of `USIZE` values, so that the 32-bit comment of the code is checked); the rest drives it as `drive_decoder` does |
| `DecoderAdapters`, `EncoderAdapters` | all of these but `EncoderWriter` | a behaviour picks one adapter and is one of its module's; the promises they share (`EndIsComplete`, `WholeStreamNotRefused`, `ImplementsPipe`) are stated once for all |

**Header codecs.** `Hpack` composes encoder, ordered wire and decoder, one field or representation per
step. `Qpack` has `qpack/dynamic_table.rs` as operators, the encoder, the ordered
encoder stream, a *set* of field sections (they may arrive in any order or never) and the decoder.
Names and values are numbers, a value being also its length, so that entries have sizes and evict
each other. `MCHpack` and `MCQpack` choose the fields.

**Tool.** `Cli` is `run()` with every file operation a step that may fail, `Killed` and
`SomebodyCreates` around it, and the codecs as in the contracts.

**Formats.** `CodecCall` has the caller and the call in progress (input slice, output room): encode
calls, flushes, finish, then a decoder over the whole stream or a part of it; or a decoder alone over
given bytes; and `reset` between any two calls. The modules of the formats say what one turn of each
loop does. Bulk copies and fast paths of the code are symbol by symbol there: no call can end between
the two. Alphabets, fields and limits are cut down (a *byte* has `ByteBits` bits, a checksum is a
small sum), and every module says to what; which parse or block an encoder finds cheapest is left
open where its heuristics decide. Next to each decoder stands the meaning of its format as a function of the
whole stream, for properties only.

| Module | Code | Correspondence |
|---|---|---|
| `RunLength` | `rle.rs`, `packbits.rs`, `rle90.rs` | one turn of each loop, every state; `StreamCodecs` composes them with `MCLzw`, `Bzip2`, `Lzma` and `Filters`, and puts bzip2 and LZMA streams together from their parts |
| `Lzw` | `lzw/mod.rs`, `arc_crunch/`, `arc_squash/`, `zip_shrink/mod.rs` | `Encode`… the dictionary as a function from codes to strings, groups of codes padded when the width changes or a CLEAR is sent; the Shrink decoder with its input buffer and staging, partial clearing as a prune of leaves |
| `Deflate` | `deflate/`, `huffman.rs`, `deflate64/` | the decoder: canonical codes (a decoder with some bits held finds a symbol, wants more, or meets bits that are no code), a stage per state of the code's enum, `Refill` and `Unfeed` the reading ahead and the hand-back at the end of a call, `PushHistory` the window. The encoder: `Accepting`, the block buffer and its drains, the four kinds of flush, strategies and the change of them by `set_params`. Deflate64: the decoder's stages with the long lengths and far distances of its own symbols (`Wide`); it reads ahead and hands nothing back, which `Trailing64` (`drain_trailing_bytes`) makes good; `fed` is whether a call has made progress |
| `GzipZlib` | `gzip/`, `zlib/` | headers with optional fields, dictionary, trailer, members, around the two |
| `Containers` | RFC 1951, 1950, 1952 | the meaning of gzip and zlib; chosen texts and streams; composes `GzipZlib` with `Xz` and `Embed`, and remembers the full flushes in `restart` |
| `Xz` | `lzma2_internal/`, `lzma2/mod.rs`, `xz/mod.rs` | chunks, the control bytes, what each resets at either end; a packet of the range coder is a byte or two that depend on the model's state; headers, blocks, index, footer, padding, streams in a row; raw LZMA2 is the same without the container. A reset of the dictionary keeps the positions in the hash chains (`win`) and moves `base`, which bounds the walk of a chain (`Lzma2Matches`) |
| `Bzip2` | `bzip2/` | the encoder byte by byte, its block coded in one step; the decoder's `step` functions over all the bytes it took, `stage` being the place inside a call |
| `Lzma` | `lzma/` | a packet is a sequence of bits with the place of the probability of each; the range coder with its carry and the bytes held back, and the decoder that runs it backwards; `WindowsFrom` any parse the prices may choose, `FinishSmall` the shorter of two encodings, `LzEnter`…`LzReturn` one call of the decoder with what ZIP hands back |
| `Embed` | `embed/` | one action per state of the decoders; `RunsDry` takes a step back and keeps the bytes it left, `Ready`/`Waits` the encoder's check that all of a token fits; `surface` tells push codec, one-shot call and `embed::flate` apart |
| `Filters` | `huffman_codec/`, `rangecoder/`, `arc_squeeze/`, `zip_reduce/`; `delta/`, `mtf/`, `bwt/`, `bcj/`, `bcj2/` | entropy coders that gather everything and code at finish, as functions of the whole; Squeeze's run-length layer and Reduce's followers and copies token by token; the byte filters turn by turn; a BCJ converter as a function of the bytes held, the address and whether the end is known, the x86 one with its mask of earlier opcodes; BCJ2's four streams around the range coder |
| `LzBlocks` | `lz4/`, `lzo/`, `snappy/` | what they share: the legal parses of a block, continued lengths, an encoder that gathers a block and hands out what it became, a decoder of a sequence of items |
| `Lz4` (with LZ5), `ByteLz` (Snappy, LZF, LZO) | the directories of these names | the block functions as operators, the phases of each container or frame as actions; `LzCodecs` composes them, with a `restart` as in `Containers` |
| `LzTokens` | `lzs/`, `xpress/`, `adc/`, `lznt1/`, `lzss/` | `TableParses` the parses a table of last positions can find; decoders token by token, the ones of LZS and Plain LZ77 over the bytes they have absorbed |

## Runs

Passing runs, with what they show; `PROJECT.json` names a mutation of the model for each property
that TLC must reject.

| Run | Shows | Bounds |
|---|---|---|
| `encoder_writer` | `NothingLostOrRepeated`, `NothingFedTwice` (a failing inner writer never makes the caller resend what the codec has), `FinishIsComplete`, `FlushIsComplete`, `CallsReturn` | 3 bytes, scratch 2, 2 flushes: the trailer and a marker do not fit with a byte, so every loop turns more than once |
| `decoder_adapters` | the four decoding adapters: `EndIsComplete`, `WholeStreamNotRefused` (also with strict decoders), `NothingFedTwice`, `NothingHeldBack`, `LimitErrorIsTrue`, `CallsAnswer`; each implements `Pipe` | 4 units of 4 bytes, scratch 2, up to 2 units behind the stream; held output needs several scratch buffers; budgets below, one below and at what the streams need, a `usize` of 8 values |
| `encoder_adapters` | the tokio encoding writer and the encoding reader: `PendingTakesNothing`, `OneMarkerPerFlush`, `FedInOrder`, `EndIsComplete`, `ShutdownCompletes`; each implements `Pipe` | 4 and 6 bytes, scratch 2, caller buffers up to 3 |
| `hpack` | `FieldsArrive`, `TablesInSync` | tables of 70, 40 and 0 bytes against entries of 33 to 63; 5 fields in 2 blocks; a list cap that is met |
| `qpack` | `OwnChunkDecodes`, `AcceptedIsRight`, `MirrorsAgree` | capacity 70, so MaxEntries is 2 and the count wraps at 4 with 3 sections of 2 fields |
| `cli` | `InputSafe`, `OldOutputKept`, `ExitTellsTruth` | buffers of 2 against 3 units of 5 bytes, 1 unit of junk |
| `stream_codecs` | `DecodesToPlain`, `FollowsFormat`, `StopsForRoom` | run-length: plaintext up to 6 of 2 values, of which one is RLE90's marker and also a legal count; any stream up to 4 of 5 values; caps of 3–4 instead of 255 and 128. LZW: bytes of 2 bits, codes of 3 and 4, groups of 2 codes, Shrink staging 2 bytes before it stops (`Cap`) with rooms of up to 8, texts that widen, fill and clear the dictionary, any stream of up to 3 bytes and longer ones of two values that widen the codes. bzip2: blocks of 3 bytes, runs of 2 to 5, groups of 2 symbols, codes of up to 3 bits; 30 streams, of which 20 have one field spoilt. LZMA: bytes of 4 bits, a range of 12, probabilities of 5, distances up to 15 in 8 slots of every kind (plain, special, direct and aligned), lengths up to 7 in three ranges; 19 `.lzma` streams and 17 entries with a size that fits, is too small or too large, with and without a marker. Entropy coders: bytes of 2 or 3 bits, codes of up to 4 bits, streams with each field spoilt or cut. Filters: bytes of 4 bits and addresses of 16 that wrap inside a text, 8 bytes held instead of 16, distances up to 4; x86 texts of opcodes and of the two signs, for starts in and at the end of the address space |
| `containers` | the same three, `FlushDelivers`, `FullFlushRestarts`, for DEFLATE, deflate64, zlib, gzip, LZMA2 and xz | bytes of 2 bits, codes of up to 4 bits, a bit reader of 5, history 3, blocks of 3: every field straddles calls, matches overlap themselves and cross blocks; about 80 streams with every header option and one with each kind of damage. A dictionary of 4 and chunks of 6: chunks that continue, reset or replace the model, two streams with padding, each size and check of xz wrong in some stream. Deflate64: window 6, lengths up to 5, four distance symbols, texts of up to 10 bytes with one flush (the empty one with two); two flushes in xz and LZMA2 for the short texts only. Heap-free: blocks of 6, a step reads up to 5 bytes, a window of 2 or 3, rooms of 1 and 3 (`EmRooms`), or `Ample` where the output has no bound |
| `lz_codecs` | the same five for LZ4 blocks and frames, LZ5, LZO, Snappy, LZF, LZS, Plain LZ77, ADC, LZNT1 and LZSS | bytes of 4 bits, nibbles of 2, windows of 8 and blocks of 8 to 25: matches overlap themselves, reach back over two blocks, and lengths are continued once and twice; some 190 streams by hand, of which most are broken in one place; 2 flushes of LZF |

The adapters treat bytes by position and differ only in whether something fits, so small buffers with
more than one turn of every loop are enough to meet each of their branches. All of them, the
tool, HPACK and QPACK are also proved for all sizes. In the formats a call takes a byte or all there is, and leaves room for a byte
or two or for more than a codec ever holds, so that every call boundary inside a field, a code, a match or a trailer is met.

Three more runs each refute one claim that a comment of the code makes; they are under
[Disagreements found](#disagreements-found).

`CHECK_DEADLOCK FALSE` is set where a run ends: after finish, shutdown, exit, or the last section.

`AcceptedIsRight` has a window, and both of its edges are necessary (TLC refutes it without either):
a section at most MaxEntries inserts early and fewer than twice MaxEntries late.

## Fairness

- `EncoderWriter`: weak fairness of the adapter's own steps. Rust code runs once called; the caller
  and the inner writer's choices are not forced. `CallsReturn` needs that an inner writer takes at
  least a byte or fails (`Ok(0)` is turned into an error).
- The async writers (in `DecoderAdapters` and `EncoderAdapters`): weak fairness of the steps inside a
  poll, and of polling again once shutdown has begun: an executor polls a woken task. Strong fairness
  of the two steps that belong to the inner writer, that it takes bytes and that its own shutdown
  completes: tokio's contract for `Pending` is that the writer wakes the task when it can go on, so it
  cannot refuse for ever. Errors are not excluded; a call that fails has returned.
- `VecDecode`: weak fairness of its loop, which has no environment.
- All other runs check safety only and have no fairness: that a codec's call comes back is
  `StopsForRoom`'s other half, and each turn takes a byte, gives a byte or leaves a state for good.

## Proofs

Every theorem holds for all values of the constants that the `ASSUME`s of its module allow; bounds on
input, budgets or extra bytes are constants like any other and are not used in the proofs. Each proof
is one inductive invariant `IInv`, strong enough that every action preserves it: none of the
properties is inductive alone. TLC checked each `IInv` on the run's instance before it was proved,
except the ones of `HpackProof` and `QpackProof`, which say that a history and a sequence of tables
exist and so cannot be enumerated; the properties that follow from them are those of the runs.

**`EncoderWriterProof`**, for every `SCRATCH`, `Atom` and `Flushes`:

| Theorem | States |
|---|---|
| `TypeCorrect` | `TypeOK` |
| `LosslessStream` | the inner writer's bytes, then the staged ones, are the plaintext's tokens in order, once each |
| `ReportsAreExact` | between calls the caller was told of exactly the bytes the codec has |
| `FinishDelivers` | Ok from finish: whole stream, trailer last, at the inner writer |
| `FlushDelivers` | Ok from flush: every reported byte and the marker at the inner writer |

`IInv == TypeOK /\ Counts /\ StreamInv /\ Roles /\ Lasts`. `StreamInv` says that wire and staged
together are the stream of exactly the tokens the codec has emitted (a part moving from one to the
other leaves it alone: `AcceptKeepsStream`). What one codec call may do to such a stream are the
lemmas of **`EncoderCodecProof`** (`EncodeContract`, `DrainContract`, `FlushContract`,
`FinishContract`), which the next module rests on too. `Counts` relates what the codec took to what the call in
progress and the earlier ones report. `Roles` says what each place inside a call implies (a flush that
will return has its marker as last token of the stream, a finish that will return has the trailer),
and `Lasts` carries that over to the moment after the return, when nothing is staged.

**`EncoderAdaptersProof`**, the tokio encoding writer and the encoding reader, for every input and
buffer size (`AnyRoomAssumption`: the encoder can do something with any room, which `io.rs` asks of the
caller's buffer):

| Theorem | States |
|---|---|
| `PendingIsClean` | `PendingTakesNothing` |
| `FlushedOnce` | `OneMarkerPerFlush` |
| `ReaderFeedsInOrder` | `FedInOrder` |
| `EndIsTrue` | `EndIsComplete`: a shutdown that is done and a read of 0 mean the whole stream, trailer last |
| `AdaptersArePipes` | `ImplementsPipe`, the refinement of `Pipe` |

The writer's invariant (`AsyncInv`) speaks of what it has sent and what it still has to send as one
sequence: no two sync marks in it are neighbours, and if the last token is a mark, then either
`sync_flushed` says so or the codec holds a byte, which it puts out before the next mark. That is the
argument for `OneMarkerPerFlush`, however often a flush is polled in between. `ReaderInv` says where
every byte pulled from the inner reader is: fed to the codec, or in the buffer behind `in_consumed`,
and at the same place in the order; the end of the inner reader is then all of it, and the trailer
comes out only once the buffer is used up.

For the refinement the bytes of a stream are numbered (`Number`): the byte at a place is the one with
as many bytes up to there. `AsyncOrder` says that what the writer has sent and has still to send is in
that order and complete up to what the codec has put out, and that the end mark is the last of it; a
beginning of such a stream is one too (`PrefixInOrder`), so what the inner writer has is. `PipeInv` is
that for both adapters, and a step leaves the stream alone or adds to an open one (`StreamMoves`).

**`DecoderCodecProof`** has the lemmas about one call of a decoder that the proofs of the decoding
adapters and of the tool rest on: in
`Sound` a decoder has handed over no more than its units expand to, and has reported the end just when
all of it is out; `DecodeOutcome` and `FinishOutcome` say what every outcome of a call preserves and
when it may leave output owed.

**`DecoderAdaptersProof`**, the four decoding adapters, for every stream length, expansion, hold,
scratch and input buffer (`AdaptersAssumption`: a strict decoder behind the blocking writer owes no
more than a scratch buffer, see below):

| Theorem | States |
|---|---|
| `WriterFeedsOnce` | `NothingFedTwice` |
| `EndIsTrue` | `EndIsComplete`: finish, shutdown, a read of 0 and a returned Vec each mean the whole plaintext of a whole stream |
| `LimitErrorIsDeserved` | `LimitErrorIsTrue` |
| `WholeStreamIsTaken` | `WholeStreamNotRefused` |
| `ReaderHoldsNothing` | `NothingHeldBack` |
| `AdaptersArePipes` | `ImplementsPipe`, the refinement of `Pipe` |

`Relayed` says that what was handed over, then what is staged, is the beginning of the plaintext up to
what the decoder has emitted. Per adapter the invariant adds where the units are (`reported`,
`in_filled - in_consumed`, `consumed`) and what a place in the code knows of the decoder. The heart of
`WholeStreamNotRefused` is there: the blocking writer's decoder owes at most `WriterHold`; the tokio
writer comes to finish only behind an empty decode, so a decoder with the whole stream has ended; the
reader's `drained` means that the stream is cut short or not all pulled; and the one-shot call leaves
its first loop only for a stream that is cut short, since a call with room left over either takes all
its input or ends. Each action preserves the invariant and is a step of `Pipe` (`PipeStep`), proved
together (`WriterStep`, `AsyncStep`, `ReaderStep`, `VecStep`).

**`CliProof`**, the tool, for every buffer, stream and atomic step that fits a buffer (`AtomFits`):

| Theorem | States |
|---|---|
| `InputIsSafe` | `InputSafe` |
| `ExitIsTrue` | `ExitTellsTruth` |
| `OldOutputIsKept` | `OldOutputKept` |

`Files` says whose the output is (what the cleanup may remove is not what was there before), `Progress`
where every unit read and every byte made is, `Told` what a failure without trouble means. That a
strict decoder is not refused rests on the drain before finish: in the phase `finish` a decoder that
was given a whole stream has ended.

**`HpackProof`**, the two ends of a HPACK connection, for every static table, set of fields, list cap
and table sizes (`SizeAssumption`: an encoder is given no size beyond the decoder's):

| Theorem | States |
|---|---|
| `FieldsAsEncoded` | `FieldsArrive` |
| `TablesAgree` | `TablesInSync` |

The two properties say nothing of a representation in the middle of the wire, and what it means depends
on every one before it. `IInv` therefore has a chain (`Linked`): a table before each representation in
flight, the first being the decoder's and the last the encoder's, each representation leading from one
to the next (`After`) and meaning its field over the table before it (`Faithful`). Encoding adds a link
at one end, because the encoder represents a field over its table before it inserts
(`RepresentIsRead`); decoding takes one off at the other, because `Decode` does to the decoder's table
what `After` says (`DecodeIsAfter`). `Unsaid` covers the time before the first block, when the encoder
has a table size that the decoder has not been told.

**`QpackProof`**, the two ends of a QPACK connection, for every set of fields, static table, capacity
and section cap:

| Theorem | States |
|---|---|
| `Invariant` | the inductive invariant `IInv` |
| `OwnChunkIsRead` | `OwnChunkDecodes`: right after its own chunk a section gives its fields, or the size error exactly when they exceed the cap |
| `AcceptedIsTrue` | `AcceptedIsRight`: at any other time it is refused or right, inside the window that wrapping allows |
| `MirrorIsTrue` | `MirrorsAgree`: no instruction is refused, and the tables are the same with all of them fed |

Sections may be decoded late, early or never, so an invariant over the two tables is not enough.
`IInv` says that a history `h` of all entries ever inserted exists, of which every table is a part
(`Window`: the entries from `dropped` up to `inserts`), and that a section means its fields over `h`
(`SectionMeans`), wherever the tables are. `Chain` puts a table between any two chunks under way, from
the decoder's to what the encoder has announced (`Mirror`), each chunk leading from one to the next;
`OwnTable` says that the table right after a section's chunk still has all the section refers to.
`OneMoreEntry` is why: the encoder lets an insert evict only below the entries its section has
referred to (`evict_floor`), and `PassOK`, the invariant of the pass over the fields, carries that
from field to field (`EncodeFieldStep`, `WholePass`, `SectionOK`). What the decoder then does with the
section is `SectionDecodes`. That the count on the wire comes back is arithmetic of residues
(`RequiredIsBack`), for which a table must never hold more than MaxEntries entries (`FewEntries`: an
entry takes at least 32 bytes). The model's sums and passes are recursive functions
over the places of a sequence; `SizesAre`, `PassesAre`, `AppliedAre` and `DecodedAre` unfold them, by
the least place at which they would fail (`NoneFails`, `ByPlace`), as the library's induction rules
take an operator and cannot be used.

Only model-checked:

- liveness (`CallsReturn`, `CallsAnswer`, `ShutdownCompletes`), out of the prover's reach with `ENABLED`;
- the formats: the meaning of a stream is an induction over its bytes, by operators that are recursive
  themselves, which no proof can unfold here.

## Disagreements found

Each of the first three is a run whose violation TLC must find. The next three are exceptions that
`FollowsFormat` and `StopsForRoom` of `stream_codecs` have to make for the code as it is, as are those
for the second and third; each is named below, and TLC refutes the property without any one of them.

- **QPACK, early sections** (`qpack_blocked`). `qpack/mod.rs` 29–31 says
  a section whose Required Insert Count exceeds the decoder's Insert Count "returns `Error::Corrupt`
  rather than waiting". The count travels modulo twice MaxEntries, and the encoder never waits for the
  decoder, so one that is more than MaxEntries inserts ahead can be taken for a smaller count and
  decode to other entries. A caller that keeps the documented order of delivery does not meet it
  (`OwnChunkDecodes`).
- **.Z, a call that ends behind CLEAR** (`lzw_clear`). `lzw/mod.rs` 731 says that `codes_in_group`
  "remembers how far we got" in the padding of a CLEAR code. It does, but not that a CLEAR is being
  padded: the next call reads the rest of the padding as codes and does not reset the dictionary.
  `Forgot` excepts what is decoded after that cut.
- **Shrink, finish with codes in hand** (`shrink_finish`). `zip_shrink/mod.rs` 607 says of the error of
  `raw_finish` that more is owed "than we have buffered, and the input is gone". Its one pump stops when
  16 KiB are staged, and `in_buf` may still hold codes. `CodesLeft` excepts that failure.
- **Shrink, a buffer larger than the staging.** `traits.rs` 27 says of `InputEmpty` that the codec "can't make
  further progress without more input bytes". `raw_decode` (`zip_shrink/mod.rs` 429, 553) moves its input
  to `in_buf`, pumps once and drains once. With room for more than the 16 KiB staged it returns with
  codes left, all input taken and room to spare, and the bridge makes `InputEmpty` of that. A call
  without input would give more; finish may fail as above. `StagingWasFull` excepts it from `StopsForRoom`.
- **Squeeze, a marker without its count.** `arc_squeeze/mod.rs` 785 says that "a dangling RLE flag (0x90
  with no count) at true EOF is malformed", and `raw_finish` refuses it; `raw_decode` (728) ends the
  same stream without looking, so the verdict depends on which of the two comes to the end of the codes.
  `MarkerMissed` excepts that end and no other: the stream itself counts as broken.
- **bzip2, bytes behind a single stream.** `bzip2/decoder.rs` 57–60 says that with `multi_stream` off `decode`
  "leaves every byte after it unconsumed", and 672–673 that the end "is thus exact". A block header longer
  than the input at hand makes `try_block_or_end` wait for an eighth more (`retry_at`, 276), and the
  calls in between take what is behind the trailer with it; only bytes of the last call can go back.
  The history variable `late` of `Bzip2` is what they took, and the end is exact up to that (`BcFollows`).
- Not exercised by a run: `decode_int` (`hpack/integer.rs` 36–40) promises to reject what overflows
  `usize`, but at shift 63 `checked_shl` drops the upper bits of the continuation byte silently;
  `packbits.rs` 222–226 bounds the growth of the queue per input byte by two, where a literal chunk
  may come with the run (the model has the real queue, and nothing depends on the bound).
- Worth knowing, and as modelled: the heap-free decoders do not look at the checksum of a gzip header,
  refuse a preset dictionary and every incomplete code but one of single bits, and, as the window is not
  cleared, let a member's match reach into the member before it; `embed::flate` consumes the byte
  behind a gzip member that tells it is not another.
- A branch filter for ARM, PowerPC or SPARC whose `start_offset` is no multiple of the instruction decodes to
  other bytes than it encoded; the model starts at multiples only.
- Also: after a member gzip takes any byte but 0x1F for the end, and a 0x1F
  for a header to come; LZMA2 accepts a chunk that continues the state after a raw chunk that reset the
  dictionary, as the reference decoder does not.

## What is not modelled

- The bits of zstd, brotli, the other archive and RAR formats and the rest: they are seen through
  `EncoderCodec` and `DecoderCodec` only.
- In the formats that are: the heuristics that choose among parses, codes and blocks (lazy matching,
  length-limiting, levels, the prices of LZMA), the range coder inside LZMA2 and the optional
  sizes of an xz block. LZMA's hash chains are followed to their end or to the first position out of bounds, LZMA2's packets
  repeat no earlier distance, and what an encoder does after it
  has finished is left out.
- Huffman strings and prefixed integers of HPACK and QPACK; QPACK's static-only encoder, and the
  decoder paths this encoder never takes (Duplicate, post-base references, lower capacity).
- `discard_output` and `raw_skip`; `compress_to_vec*` (the plain loop that `EncoderWriter`
  covers with more behaviours); argument parsing and file naming of the tool.
- The branch converters of IA-64 and RISC-V, and the filters as xz applies them in place. The suffix sort of
  BWT and bzip2 is the order of the rotations.
- `factory.rs` and shared helpers. Of `embed/`: skipping and counting without output, inputs pulled
  through callbacks, the window that hands itself to a callback, and `BufferedCompressor`, which
  gathers as the block encoder does. Reduce's encoder, which refuses everything.

Assumptions of the model, where the code leaves a choice:

- After an error a codec fails again, or is reset (the documentation leaves it unspecified, most codecs are poisoned).
- `Atom = 1` for the readers: with a non-empty buffer an encoder can do something, as `io.rs` says.
  Writers allow any `Atom` up to the scratch buffer; beyond it `write` would not return.
- A strict decoder behind the synchronous `DecoderWriter` owes no more than the scratch buffer
  (about 8 KiB against 64 KiB in the code); `AsyncDecoderWriter` and the tool need no such bound.
- An async caller does not write or flush after it has begun to shut down, as `AsyncWrite` demands.
- An encoder made by `HpackEncoder::new` meets a decoder of the default size; an HPACK error ends the
  connection.
- The tool's files: no power loss (the code does not `fsync`), and the output is not the input file.
- A flush is called with the same kind until it is done.

## Plan

Done first, because everything else is used through them: the contracts and adapters; then the
two-party codecs, the tool and the formats in the order of their use, DEFLATE and xz with their
containers and the LZ formats that work on blocks; then the proofs, of every safety property of the
adapters, the tool, HPACK and QPACK. Next:

1. *Extend.* a bit-level module of `decode_int`/`encode_int`; QPACK's other instructions, from an
   arbitrary peer.
2. *Prove.* A round trip of the simplest format, the run-length codecs, whose meaning would first have
   to become a recursive function, as `Qpack`'s passes are.

## How to run

In this directory, with the TLA+ tools and the community modules on the path:
`tlc -config EncoderWriter.cfg EncoderWriter`, and so on for each run of `PROJECT.json`;
`tlapm` on each module whose name ends in `Proof`. The longest run takes about two minutes on two workers.
