----------------------------- MODULE Containers -----------------------------
(***************************************************************************)
(* The stream formats and the containers around them: DEFLATE, zlib and    *)
(* gzip, xz and raw LZMA2, the heap-free codecs and Deflate64, driven by   *)
(* CodecCall: encoders with flushes of every kind, then a decoder over     *)
(* what they made or over a prefix of it; and decoders alone over chosen   *)
(* streams, sound and broken: several members, blocks and streams,         *)
(* optional header fields, dictionaries, padding, bytes behind the end.    *)
(***************************************************************************)
EXTENDS Embed, Xz

CONSTANT MaxAsked   \* bound: flushes and changes of strategy of an encoder

(* What the run remembers of the flushes.                                  *)
VARIABLE restart   \* bytes written and taken when a full flush ended

Remember ==
    restart' = IF FlushEnds /\ state.kind = "full" THEN <<Len(out'), pos>>
               ELSE IF phase' = "encode" /\ out' = << >> THEN << >> ELSE restart

-----------------------------------------------------------------------------
(* What DEFLATE, zlib and gzip streams mean (RFC 1951, 1950 and 1952, as   *)
(* cut down in Deflate.tla and GzipZlib.tla), read all at once: the bytes, *)
(* whether the stream is sound and whole, and how much of the input it is. *)
(* The reference the decoders are checked against.                         *)
Part(s, p, n) == SubSeq(s, p + 1, Smaller(p + n, Len(s)))
Field(bits, p, n) == Value(SubSeq(bits, p + 1, p + n))

Broken(h, p) == [h |-> h, p |-> p, ok |-> FALSE]
CodeAt(table, bits, p) == NextCodeOf(table, Part(bits, p, MaxCode))
IsCodeAt(table, bits, p) == Found(table, Part(bits, p, MaxCode))

RECURSIVE Extended(_, _, _)
Extended(h, n, far) == IF n = 0 THEN h ELSE Extended(Append(h, h[Len(h) + 1 - far]), n - 1, far)

-----------------------------------------------------------------------------
(* The symbols of a block from bit p on, over the history h; the code has  *)
(* its two tables and the alphabet they are for.                           *)
RECURSIVE SymbolsMean(_, _, _, _)
MatchMeans(bits, p, h, code, n, far) ==
    IF far > Smaller(Len(h), code.set.far) THEN Broken(h, p)
    ELSE SymbolsMean(bits, p, Extended(h, n, far), code)

DistanceMeans(bits, p, h, code, n, c) ==
    IF c \notin DOMAIN code.set.distBase \/ p + code.set.distBits[c] > Len(bits) THEN Broken(h, p)
    ELSE MatchMeans(bits, p + code.set.distBits[c], h, code, n, code.set.distBase[c] + Field(bits, p, code.set.distBits[c]))

LengthMeans(bits, p, h, code, n) ==
    IF ~IsCodeAt(code.dist, bits, p) THEN Broken(h, p)
    ELSE DistanceMeans(bits, p + Len(CodeAt(code.dist, bits, p)), h, code, n,
                       code.dist[CodeAt(code.dist, bits, p)] + 1)

SymbolMeans(bits, p, h, code, s) ==
    IF IsLiteral(s) THEN SymbolsMean(bits, p, Append(h, s), code)
    ELSE IF s = EOB THEN [h |-> h, p |-> p, ok |-> TRUE]
    ELSE IF s \notin DOMAIN code.set.lenBase \/ p + code.set.lenBits[s] > Len(bits) THEN Broken(h, p)
    ELSE LengthMeans(bits, p + code.set.lenBits[s], h, code,
                     code.set.lenBase[s] + Field(bits, p, code.set.lenBits[s]))

SymbolsMean(bits, p, h, code) ==
    IF ~IsCodeAt(code.lit, bits, p) THEN Broken(h, p)
    ELSE SymbolMeans(bits, p + Len(CodeAt(code.lit, bits, p)), h, code, code.lit[CodeAt(code.lit, bits, p)])

-----------------------------------------------------------------------------
(* The n code lengths of a dynamic block, in h.                            *)
RECURSIVE LengthsMean(_, _, _, _, _)
RepeatMeans(bits, p, h, cl, n, i) ==
    IF p + RepeatBits[i] > Len(bits) \/ (i = 1 /\ h = << >>) THEN Broken(h, p)
    ELSE LengthsMean(bits, p + RepeatBits[i],
                     h \o Copies(IF i = 1 THEN h[Len(h)] ELSE 0,
                                 RepeatBase[i] + Field(bits, p, RepeatBits[i])), cl, n)

LengthsMean(bits, p, h, cl, n) ==
    IF Len(h) = n THEN [h |-> h, p |-> p, ok |-> TRUE]
    ELSE IF Len(h) > n \/ ~IsCodeAt(cl, bits, p) THEN Broken(h, p)
    ELSE IF cl[CodeAt(cl, bits, p)] < RepeatPrev
    THEN LengthsMean(bits, p + Len(CodeAt(cl, bits, p)), Append(h, cl[CodeAt(cl, bits, p)]), cl, n)
    ELSE RepeatMeans(bits, p + Len(CodeAt(cl, bits, p)), h, cl, n,
                     cl[CodeAt(cl, bits, p)] - RepeatPrev + 1)

TablesMean(bits, h, lens, hlit, set) ==
    IF ~lens.ok THEN Broken(h, lens.p)
    ELSE IF Oversubscribed(Part(lens.h, 0, hlit)) \/ Oversubscribed(After(lens.h, hlit)) THEN Broken(h, lens.p)
    ELSE SymbolsMean(bits, lens.p, h, [lit |-> Table(Part(lens.h, 0, hlit)), dist |-> Table(After(lens.h, hlit)),
                                       set |-> set])

CodesMean(bits, p, h, cl, hlit, hdist, set) ==
    IF Oversubscribed(cl) THEN Broken(h, p)
    ELSE TablesMean(bits, h, LengthsMean(bits, p, << >>, Table(cl), hlit + hdist), hlit, set)

DynamicMeans(bits, p, h, hlit, hdist, k, set) ==
    IF hlit > 2 \/ hdist > set.hdist \/ p + 2 * k > Len(bits) THEN Broken(h, p)
    ELSE CodesMean(bits, p + 2 * k, h, Ordered([i \in 1..k |-> Field(bits, p + 2 * (i - 1), 2)]),
                   MinLit + hlit, hdist + 1, set)

(* The n bytes of a stored block, as far as they are there.                *)
StoredMeans(bits, p, h, n) ==
    LET m == Smaller(n, (Len(bits) - p) \div ByteBits) IN
    [h |-> h \o WholeBytes(Part(bits, p, m * ByteBits)), p |-> p + m * ByteBits, ok |-> m = n]

NextByteAt(p) == p + ((ByteBits - (p % ByteBits)) % ByteBits)

StoredBlockMeans(bits, p, h) ==
    IF p + 2 * LenBits > Len(bits) THEN Broken(h, p)
    ELSE IF Field(bits, p, LenBits) + Field(bits, p + LenBits, LenBits) # 2^LenBits - 1 THEN Broken(h, p)
    ELSE StoredMeans(bits, p + 2 * LenBits, h, Field(bits, p, LenBits))

BlockMeans(bits, p, h, type, set) ==
    CASE type = 0 -> StoredBlockMeans(bits, NextByteAt(p), h)
      [] type = 1 -> SymbolsMean(bits, p, h, [lit |-> FixedLit, dist |-> FixedDist, set |-> set])
      [] type = 2 -> IF p + 6 > Len(bits) THEN Broken(h, p)
                     ELSE DynamicMeans(bits, p + 6, h, Field(bits, p, 2), Field(bits, p + 2, 2),
                                       MinCl + Field(bits, p + 4, 2), set)
      [] type = 3 -> Broken(h, p)

(* Blocks up to the final one.                                             *)
RECURSIVE BlocksMean(_, _, _, _)
RestMeans(bits, r, final, set) == IF ~r.ok \/ final THEN r ELSE BlocksMean(bits, r.p, r.h, set)
BlocksMean(bits, p, h, set) ==
    IF p + 3 > Len(bits) THEN Broken(h, p)
    ELSE RestMeans(bits, BlockMeans(bits, p + 3, h, Field(bits, p + 1, 2), set), bits[p + 1] = 1, set)

InBytes(r, primed) ==
    [bytes |-> After(r.h, primed), ok |-> r.ok, used |-> NextByteAt(r.p) \div ByteBits]

Narrow ==
    [lenBase |-> LengthBases, lenBits |-> LengthBits, distBase |-> DistBases, distBits |-> DistBits,
     hdist |-> 2, far |-> WinCap]
Inflated(s, dictionary) == InBytes(BlocksMean(BitsOf(s), 0, dictionary, Narrow), Len(dictionary))

-----------------------------------------------------------------------------
Nothing == [bytes |-> << >>, ok |-> FALSE, used |-> 0]

(* A zlib stream; the application has the dictionary it may ask for.       *)
ZlibTrailed(s, data, p) ==
    [data EXCEPT !.ok = @ /\ Part(s, p + data.used, 2) = BE(Sum(0, data.bytes)),
                 !.used = p + @ + 2]

ZlibMeans(s, dictionary) ==
    IF Len(s) < 2 THEN Nothing
    ELSE IF s[1] # 2 \/ s[2] % 2 # 0 THEN Nothing
    ELSE IF s[2] # 2 THEN ZlibTrailed(s, Inflated(After(s, 2), << >>), 2)
    ELSE IF Part(s, 2, 2) # BE(Sum(0, dictionary)) THEN Nothing
    ELSE ZlibTrailed(s, Inflated(After(s, 4), dictionary), 4)

(* Where the optional fields of a gzip header end, -1 if they do not.      *)
ExtraEnd(s) ==
    IF "extra" \notin Flags(s[3], s[4]) THEN 4
    ELSE IF Len(s) < 6 THEN -1
    ELSE IF Len(s) < 6 + s[5] + 4 * s[6] THEN -1 ELSE 6 + s[5] + 4 * s[6]

TextEnd(s, field, p) ==
    LET zeros == {i \in (p + 1)..Len(s) : s[i] = 0} IN
    IF p < 0 \/ field \notin Flags(s[3], s[4]) THEN p
    ELSE IF zeros = {} THEN -1 ELSE CHOOSE i \in zeros : \A j \in zeros : i <= j

CrcEnd(s, p) ==
    IF p < 0 \/ "hcrc" \notin Flags(s[3], s[4]) THEN p
    ELSE IF Part(s, p, 2) = LE(Sum(0, SubSeq(s, 1, p))) THEN p + 2 ELSE -1

FieldsEnd(s) == CrcEnd(s, TextEnd(s, "comment", TextEnd(s, "name", ExtraEnd(s))))

(* Members until something else than the magic's first byte follows.       *)
RECURSIVE GzipMeans(_, _)
ThenMore(first, more, used) ==
    [bytes |-> first.bytes \o more.bytes, ok |-> more.ok, used |-> used + more.used]

GzipTrailed(s, data, q, multi) ==
    IF ~data.ok \/ Part(s, q, 4) # LE(Sum(0, data.bytes)) \o LE(Len(data.bytes) % 16)
    THEN [data EXCEPT !.ok = FALSE]
    ELSE IF ~multi \/ Part(s, q + 4, 1) # <<1>> THEN [data EXCEPT !.used = q + 4]
    ELSE ThenMore(data, GzipMeans(After(s, q + 4), multi), q + 4)

GzipBodyMeans(s, data, p, multi) ==
    IF p < 0 THEN Nothing ELSE GzipTrailed(s, data, p + data.used, multi)

GzipMeans(s, multi) ==
    IF Len(s) < 4 THEN Nothing
    ELSE IF s[1] # 1 \/ s[2] # 2 THEN Nothing
    ELSE GzipBodyMeans(s, Inflated(After(s, FieldsEnd(s)), << >>), FieldsEnd(s), multi)

-----------------------------------------------------------------------------
GzFormats == {"deflate", "zlib", "gzip"}
Kinds == {"sync", "full", "partial", "block"}

Preset == <<2, 1, 0>>
GzTexts(dictionary) ==
    [f \in GzFormats |-> CASE f = "deflate" -> {IF dictionary = << >> THEN <<0, 0, 0, 0, 0>> ELSE <<1, 0, 2, 1>>}
                           [] f = "gzip" -> {<< >>, <<3, 3>>}
                           [] f = "zlib" -> {<<2, 1, 2>>}]

-----------------------------------------------------------------------------
(* The streams given to a decoder alone.                                   *)
Bytes(bits) == CHOOSE w \in {WholeBytes(a) : a \in {Aligned(b) : b \in {bits}}} : TRUE
Fixed(final, toks) == <<final, 1, 0>> \o FixedBlock(toks)
Dynamic(final, toks) == <<final, 0, 1>> \o DynamicBlock(toks)
StoredBlock(bits, final, bytes) ==
    Aligned(bits \o <<final, 0, 0>>) \o Bits(Len(bytes), LenBits) \o Bits(3 - Len(bytes), LenBits)
    \o BitsOf(bytes)

Overlap == <<<<1>>, <<3, 1>>>>
Pair == <<<<0>>, <<2>>, <<4, 2>>>>
TooFar == <<<<1>>, <<2, 3>>>>

Sound ==
    {Fixed(1, << >>), Fixed(0, Overlap) \o Fixed(1, <<<<2, 3>>>>), Dynamic(1, Pair),
     StoredBlock(<< >>, 1, <<3, 0, 1>>), StoredBlock(Fixed(0, << >>), 1, <<2>>),
     StoredBlock(<< >>, 0, << >>) \o Fixed(1, <<<<3>>>>)}

Unsound ==
    {<<1, 1, 1>>, Fixed(1, TooFar),
     <<1, 1, 0>> \o CodeOf(FixedLitLengths, 7),
     <<1, 1, 0>> \o CodeOf(FixedLitLengths, 1) \o CodeOf(FixedLitLengths, EOB + 1) \o CodeOf(FixedDistLengths, 3),
     <<1, 0, 0, 0>> \o Bits(2, LenBits) \o Bits(2, LenBits),
     <<1, 0, 1>> \o Bits(3, 2) \o Bits(0, 2) \o Bits(0, 2),
     \* code lengths: a repeat first, one past the end, an oversubscribed code
     <<1, 0, 1>> \o Bits(0, 2) \o Bits(0, 2) \o Bits(0, 2) \o <<1, 0, 1, 0, 0, 0, 0, 0>> \o <<0, 0, 0, 0, 0, 0>>,
     <<1, 0, 1>> \o Bits(0, 2) \o Bits(0, 2) \o Bits(0, 2) \o <<0, 0, 0, 0, 1, 0, 1, 0>> \o <<1, 1, 1, 1, 1, 1, 1, 1>>,
     <<1, 0, 1>> \o Bits(0, 2) \o Bits(0, 2) \o Bits(0, 2) \o <<1, 0, 1, 0, 1, 0, 1, 0>> \o <<0, 0, 0, 0>>}

Plains == {Bytes(b) : b \in Sound \cup Unsound}

DeflateStreams ==
    {s \o behind : s \in Plains, behind \in {<< >>, <<1, 2>>}} \cup UNION {Prefixes(s) : s \in {Bytes(Dynamic(1, Pair))}}

Member(head, body, bytes) == head \o Bytes(body) \o LE(Sum(0, bytes)) \o LE(Len(bytes))
Plain_ == <<1, 2, 0, 0>>
AllFields == <<1, 2, 3, 3>> \o <<1, 0, 2>> \o <<3, 0>> \o <<1, 0>>
WithCrc == AllFields \o LE(Sum(0, AllFields))
ExtraCrc == <<1, 2, 1, 2>> \o <<0, 0>>
One == Member(Plain_, Fixed(1, <<<<3>>>>), <<3>>)
Two == Member(Plain_, StoredBlock(<< >>, 1, <<1>>), <<1>>)
UnsoundCrc == Member(AllFields \o <<0, 0>>, Fixed(1, << >>), << >>)
IntoFirst == One \o Member(Plain_, Fixed(1, <<<<2, 1>>>>), <<3, 3>>)

GzipStreams ==
    {One, One \o Two, Two \o One, One \o <<3>>, One \o <<1, 3>>, One \o <<1, 2>>,
     Member(WithCrc, Fixed(1, Overlap), <<1, 1, 1, 1>>), UnsoundCrc,
     Member(ExtraCrc \o LE(Sum(0, ExtraCrc)), Fixed(1, << >>), << >>),
     Member(Plain_, Fixed(1, <<<<3>>>>), <<2>>), Member(Plain_, Fixed(1, TooFar), << >>),
     \* the second member may not refer to the first
     IntoFirst, <<1, 3, 0, 0>>}
    \cup UNION {Prefixes(s) : s \in {One}}

ZlibStream(head, body, bytes) == head \o Bytes(body) \o BE(Sum(0, bytes))

ZlibStreams ==
    {ZlibStream(<<2, 0>>, Fixed(1, Overlap), <<1, 1, 1, 1>>) \o <<3>>,
     ZlibStream(<<2, 0>>, Dynamic(1, Pair), <<0, 2, 0, 2, 0, 2>>),
     ZlibStream(<<2, 2>> \o BE(Sum(0, Preset)), Fixed(1, <<<<3, 3>>>>), Preset),
     ZlibStream(<<2, 2>> \o <<0, 0>>, Fixed(1, <<<<3, 3>>>>), Preset),
     ZlibStream(<<2, 0>>, Fixed(1, <<<<3>>>>), <<2>>), <<2, 1>>, <<1, 0>>}
    \cup UNION {Prefixes(s) : s \in {ZlibStream(<<2, 2>> \o BE(Sum(0, Preset)), Fixed(1, <<<<3, 3>>>>), Preset)}}

DeflateMeaning == [d \in {<< >>, Preset} |-> [s \in DeflateStreams |-> Inflated(s, d)]]
GzipMeaning == [multi \in BOOLEAN |-> [s \in GzipStreams |-> GzipMeans(s, multi)]]
ZlibMeaning == [s \in ZlibStreams |-> ZlibMeans(s, Preset)]

-----------------------------------------------------------------------------
GzFresh ==
    IF "def" \in DOMAIN state THEN [NewWriter(state.dictionary, state.def.strategy) EXCEPT !.asked = state.asked]
    ELSE NewContainer(state.dictionary, state.multi, state.stop)

GzInit ==
    /\ format \in GzFormats
    /\ \E dictionary \in {<< >>, IF format = "gzip" THEN << >> ELSE Preset} :
           \/ given = "plain" /\ phase = "encode" /\ plain \in GzTexts(dictionary)[format] /\ src = plain
                /\ \E strategy \in Strategies : state = NewWriter(dictionary, strategy)
           \/ given = "any" /\ phase = "decode" /\ plain = << >>
                /\ src \in (CASE format = "deflate" -> DeflateStreams
                              [] format = "gzip" -> GzipStreams [] format = "zlib" -> ZlibStreams)
                /\ \E multi \in {TRUE, format # "gzip"}, stop \in BOOLEAN :
                       state = NewContainer(dictionary, multi, stop)
    /\ pos = 0 /\ avail = 0 /\ room = 0
    /\ out = << >>
    /\ calling = FALSE
    /\ restart = << >>

GzNext ==
    \/ Caller /\ Remember
    \/ \E kind \in Kinds, cap \in Rooms : CallFlush(kind, cap, MaxAsked) /\ Remember
    \/ \E strategy \in Strategies :
           "def" \in DOMAIN state /\ state.asked < MaxAsked /\ SetParams(strategy) /\ Remember
    \/ SetDictionary(Preset) /\ Remember
    \/ Reset(GzFresh) /\ Remember
    \/ calling /\ phase = "encode" /\ ContainerEncode /\ Remember
    \/ calling /\ phase = "flush" /\ ContainerFlush(state.kind) /\ Remember
    \/ calling /\ phase = "encode_finish"
         /\ ContainerFinish(NewContainer(state.dictionary, TRUE, FALSE)) /\ Remember
    \/ calling /\ phase \in {"decode", "decode_finish"} /\ ContainerDecode /\ Remember

-----------------------------------------------------------------------------
GzMeaning ==
    CASE format = "deflate" -> DeflateMeaning[state.dictionary][src]
      [] format = "gzip" -> GzipMeaning[state.multi][src]
      [] format = "zlib" -> ZlibMeaning[src]

(* What was encoded comes back, whatever the blocks, the flushes and the   *)
(* cuts into calls.                                                        *)
GzDecodes == RoundTrip

(* Sound streams decode to what they mean and broken ones fail; the end of *)
(* a stream is found exactly, so that the bytes behind it stay the         *)
(* caller's (decoder.rs `unfeed`).                                         *)
GzFollows ==
    given = "any" => \A meant \in {GzMeaning} : Follows(meant) /\ (phase = "ok" => pos = meant.used)

(* Calls stop only for want of output room or input; zlib's also where the *)
(* dictionary is wanted, and decode_block between blocks.                  *)
GzStops ==
    \/ "inf" \in DOMAIN state /\ (state.stop \/ state.at = "NeedDict")
    \/ StopsOnlyForRoom("inf" \in DOMAIN state /\ InflateOwes)

(* When a flush other than a block flush is done, what has been written    *)
(* decodes to all that was taken (encoder.rs `raw_flush_kind`).            *)
Written == After(out', Len(HeaderBytes(state.dictionary)))
Primer == LastBytes(state.dictionary, WinCap)

GzDelivers ==
    FlushEnds /\ state.kind # "block" => Inflated(Written, Primer).bytes = SubSeq(plain, 1, pos)

(* A decoder of the whole stream came to an end of any kind.               *)
Settled == given = "whole" /\ phase \in {"ok", "failed"}

(* A full flush is a place to start decoding from, with no history.        *)
GzRestarts ==
    restart # << >> /\ Settled =>
        Inflated(After(src, restart[1]), << >>).bytes = SubSeq(plain, restart[2] + 1, Len(plain))

-----------------------------------------------------------------------------
(***************************************************************************)
(* xz and raw LZMA2.                                                       *)
(***************************************************************************)
CONSTANTS
    XzRooms,   \* bound: sizes of an output buffer
    XzAsked,   \* bound: flushes of an encoder
    EmRooms    \* bound: sizes of an output buffer of the heap-free codecs

XzFormats == {"xz", "lzma2"}

XzTexts == [f \in XzFormats |-> CASE f = "xz" -> {<< >>, <<0, 0, 0, 0, 0, 1>>}
                              [] f = "lzma2" -> {<<0, 1, 1>>, <<0, 1, 2, 0, 2, 1, 1, 1, 1, 1>>, <<0, 0, 0, 0, 0, 0, 0, 0, 0, 0, 0>>}]

-----------------------------------------------------------------------------
(* What is in a sequence of chunks, read at one go: the bytes, whether all *)
(* of it is sound, and where it ends.                                      *)
ChunksMean(bytes, start) ==
    LET bad(c) == [c EXCEPT !.ok = FALSE, !.stop = TRUE]
        step(c) ==
            LET at == c.at
                has(k) == at + k <= Len(bytes)
                control == bytes[at + 1]
                size == bytes[at + 2] + 1
                raw == SubSeq(bytes, at + 3, Smaller(at + 2 + size, Len(bytes)))
                header == IF control >= 6 THEN 4 ELSE 3
                body == SubSeq(bytes, at + header + 1, Smaller(at + header + bytes[at + 3] + 1, Len(bytes)))
                core == ResetFor(c.core, control, IF control >= 6 THEN bytes[at + 4] ELSE Props)
                u == DecodeBody(core, body, 1, size, 0, Dict)
            IN IF c.stop THEN c
               ELSE IF ~has(1) THEN bad(c)
               ELSE IF control = 0 THEN [c EXCEPT !.stop = TRUE, !.at = at + 1]
               ELSE IF at = start /\ control \notin {1, 7} THEN bad(c)
               ELSE IF control \in {1, 2} /\ has(2)
               THEN [(IF has(2 + size) THEN c ELSE bad(c)) EXCEPT
                        !.core = Lzma2Fed(IF control = 1 THEN NoCore ELSE @, raw, Dict), !.at = at + 2 + size,
                        !.bytes = @ \o raw]
               ELSE IF control \in 4..7 /\ has(header) /\ core.q <= MaxProps
               THEN [(IF has(header + bytes[at + 3] + 1) /\ body[1] = 0 /\ u.error = "" THEN c ELSE bad(c)) EXCEPT
                        !.core = u.core, !.at = at + header + bytes[at + 3] + 1,
                        !.bytes = @ \o (IF body # << >> /\ body[1] = 0 THEN u.fresh ELSE << >>)]
               ELSE bad(c)
    IN FoldLeft(LAMBDA c, b : step(c), [at |-> start, ok |-> TRUE, stop |-> FALSE, core |-> NoCore, bytes |-> << >>],
                Append(bytes, 0))

-----------------------------------------------------------------------------
(* The streams given to a decoder alone, each with its meaning.            *)
Vector(bytes, ok, data, used) == [src |-> bytes, ok |-> ok, bytes |-> data, used |-> used]
XzSound(bytes, data) == Vector(bytes, TRUE, data, Len(bytes))
XzBroken(bytes, data) == Vector(bytes, FALSE, data, 0)

(* Chunks: literals with their model, a match, a model that goes on, one   *)
(* reset after raw bytes, and a match into raw bytes.                      *)
Start == CompChunk(7, 5, 1, <<0, 1, 1, 3, 0>>)
XzOnward == CompChunk(4, 3, 1, <<0, 3, 1>>)
StartData == <<0, 1, 1, 1, 1>>
OnwardData == <<1, 1, 1>>
RawFirst == RawChunk(TRUE, <<2, 0>>)
IntoRaw == CompChunk(6, 4, 2, <<0, 3, 1, 0>>)

Chunks_ == {Start \o XzOnward \o <<0>>, RawFirst \o IntoRaw \o <<0>>, <<0>>,
            Start \o RawChunk(FALSE, <<2>>) \o CompChunk(5, 3, 1, <<0, 3, 3>>) \o <<0>>,
            Start \o RawFirst \o <<0>>, Start \o CompChunk(7, 1, 0, <<0, 0>>) \o <<0>>}

BadChunks == {XzOnward, RawChunk(FALSE, <<1>>), <<3>>, CompChunk(7, 3, 1, <<0, 3, 0>>),
              CompChunk(7, 2, 1, <<0, 1, 3, 0>>), CompChunk(7, 1, 1, <<1, 1>>), CompChunk(7, 1, 3, <<0, 1>>),
              CompChunk(7, 2, 1, <<0, 1>>), Start \o CompChunk(7, 3, 1, <<0, 3, 1>>)}

Lzma2Vectors ==
    {LET m == ChunksMean(c, 0) IN Vector(c, m.ok, m.bytes, m.at) :
        c \in Chunks_ \cup BadChunks \cup {Start \o XzOnward \o <<0, 9>>} \cup Prefixes(Start \o XzOnward \o <<0>>)}

Block(id, chunks, data) ==
    BlockHeaderOf(DictFlag) \o chunks \o Padding(HeaderSize + Len(chunks))
    \o (IF id = 0 THEN << >> ELSE IF id = 1 THEN CrcBytes(Summed(0, data)) ELSE <<9, 9>>)
Size(id, chunks) == HeaderSize + Len(chunks) + CheckSize(id)

StreamWith(id, blocks, records) ==
    StreamHeaderOf(id) \o blocks \o IndexOf(records) \o FooterOf(id, Len(IndexOf(records)))

Payload == Start \o XzOnward \o <<0>>
Data_ == StartData \o OnwardData
Small == RawFirst \o <<0>>

XzOne(id) == StreamWith(id, Block(id, Payload, Data_), <<<<Size(id, Payload), Len(Data_)>>>>)
Short == StreamWith(1, Block(1, Small, <<2, 0>>), <<<<Size(1, Small), 2>>>>)
XzTwo == StreamWith(0, Block(0, Small, <<2, 0>>) \o Block(0, Payload, Data_),
                  <<<<Size(0, Small), 2>>, <<Size(0, Payload), Len(Data_)>>>>)
Empty == StreamWith(1, << >>, << >>)

XzVectors ==
    {XzSound(XzOne(1), Data_), XzSound(XzTwo, <<2, 0>> \o Data_), XzSound(Empty, << >>),
     \* a check of an unknown kind is not verified
     XzSound(StreamWith(2, Block(2, Small, <<2, 0>>), <<<<Size(2, Small), 2>>>>), <<2, 0>>),
     XzSound(Short \o Empty, <<2, 0>>), XzSound(Short \o <<0, 0>> \o Short, <<2, 0, 2, 0>>),
     XzSound(Short \o <<0, 0, 0, 0>>, <<2, 0>>), XzBroken(Short \o <<0>>, <<2, 0>>),
     XzBroken(Short \o <<0>> \o Short, <<2, 0>>), XzBroken(Short \o <<0, 9>>, <<2, 0>>),
     Vector(Short \o <<9, 6>>, TRUE, <<2, 0>>, Len(Short)),
     Vector(Short \o <<6, 9>>, TRUE, <<2, 0>>, Len(Short)), Vector(Short \o <<6>>, TRUE, <<2, 0>>, Len(Short)),
     Vector(Short \o <<0, 0, 6, 9>>, TRUE, <<2, 0>>, Len(Short) + 2),
     XzBroken(Short \o Magic, <<2, 0>>), XzBroken(<<6, 9>>, << >>), XzBroken(StreamHeaderOf(4), << >>),
     XzBroken(Magic \o <<1, 0, 0>>, << >>),
     \* block headers: another filter, another checksum, padding that is not
     XzBroken(StreamHeaderOf(1) \o XzWithCrc(<<2, 1, 1, 0>>), << >>), XzBroken(StreamHeaderOf(1) \o <<2, 0, 1, 0, 0, 0>>, << >>),
     XzBroken(StreamHeaderOf(1) \o XzWithCrc(<<3, 0, 1, 0, 0, 1>>), << >>),
     \* what the check, the index and the footer say
     XzBroken(StreamHeaderOf(1) \o Block(1, Small, <<2, 1>>), <<2, 0>>),
     XzBroken(StreamWith(1, Block(1, Small, <<2, 0>>), <<<<Size(1, Small), 1>>>>), <<2, 0>>),
     XzBroken(StreamWith(1, Block(1, Small, <<2, 0>>), <<<<Size(1, Small) + 1, 2>>>>), <<2, 0>>),
     XzBroken(StreamWith(1, Block(1, Small, <<2, 0>>), << >>), <<2, 0>>),
     XzBroken(StreamHeaderOf(1) \o IndexOf(<< >>) \o FooterOf(1, 6), << >>),
     XzBroken(StreamHeaderOf(1) \o IndexOf(<< >>) \o FooterOf(0, 4), << >>),
     XzBroken(StreamHeaderOf(1) \o XzWithCrc(<<0, 8, 0, 0>>), << >>)}
    \cup {XzBroken(s, <<2, 0>>) : s \in Prefixes(Short) \ {Short}}
    \cup {XzBroken(s, Data_) : s \in {SubSeq(XzOne(0), 1, n) : n \in 12..(11 + Len(Payload))}}

Meanings(vectors) == [s \in {v.src : v \in vectors} |-> CHOOSE v \in vectors : v.src = s]
XzMeaning == [f \in XzFormats |-> IF f = "xz" THEN Meanings(XzVectors) ELSE Meanings(Lzma2Vectors)]

-----------------------------------------------------------------------------
XzFresh == IF "enc" \in DOMAIN state THEN [XzNewWriter EXCEPT !.asked = state.asked] ELSE NewDecoder

XzInit ==
    /\ format \in XzFormats
    /\ \/ given = "plain" /\ phase = "encode" /\ plain \in XzTexts[format] /\ src = plain /\ state = XzNewWriter
       \/ given = "any" /\ phase = "decode" /\ plain = << >> /\ src \in DOMAIN XzMeaning[format] /\ state = NewDecoder
    /\ pos = 0 /\ avail = 0 /\ room = 0
    /\ out = << >>
    /\ calling = FALSE
    /\ restart = << >>

(* Bound: a text that is more than a flush can be about gets one less.     *)
XzFlushes == IF Len(plain) >= ChunkMax THEN XzAsked - 1 ELSE XzAsked

XzNext ==
    \/ CallerWith(XzRooms) /\ Remember
    \/ \E kind \in {"sync", "full"}, cap \in XzRooms : CallFlush(kind, cap, XzFlushes) /\ Remember
    \/ Reset(XzFresh) /\ Remember
    \/ calling /\ phase = "encode" /\ XzEncode /\ Remember
    \/ calling /\ phase = "flush" /\ XzFlush /\ Remember
    \/ calling /\ phase = "encode_finish" /\ XzFinish(NewDecoder) /\ Remember
    \/ calling /\ phase \in {"decode", "decode_finish"} /\ XzDecode /\ Remember

-----------------------------------------------------------------------------
(* What was encoded comes back, whatever the chunks, the flushes and the   *)
(* cuts into calls; a stream cut short gives what it holds and an error.   *)
XzDecodes == RoundTrip /\ (phase = "ok" => given # "prefix" \/ out = plain)

(* Sound streams decode to what they mean and broken ones fail; the bytes  *)
(* behind the last stream stay the caller's, but for the beginning of a    *)
(* magic an earlier call ended in (xz/mod.rs, StreamPadding).              *)
XzFollows ==
    given = "any" => \A meant \in {XzMeaning[format][src]} :
        /\ Follows(meant)
        /\ phase = "ok" =>
               pos - meant.used \in (IF format = "xz" THEN 0..(Len(Magic) - 1) ELSE {0})

(* Calls stop only for want of output room or input; a decoder that does   *)
(* has handed out all that it decoded.                                     *)
XzStops ==
    phase = "decode_finish" \/ StopsOnlyForRoom("fresh" \in DOMAIN state /\ state.fresh # << >>)

XzHeaderBytes == IF format = "xz" THEN Len(StreamHeaderOf(CheckId)) + HeaderSize ELSE 0

(* When a flush is done, what has been written decodes to all that was     *)
(* taken (xz/mod.rs `raw_flush`: "a decoder fed the bytes produced so far  *)
(* outputs all of it").                                                    *)
XzDelivers ==
    FlushEnds => ChunksMean(out', XzHeaderBytes).bytes = SubSeq(plain, 1, pos)

(* After a full flush nothing refers to what came before it.               *)
XzRestarts ==
    restart # << >> /\ Settled /\ restart[2] > 0 =>
        ChunksMean(After(src, restart[1]), 0).bytes = SubSeq(plain, restart[2] + 1, Len(plain))

-----------------------------------------------------------------------------
(* The heap-free codecs: streams with codes given outright, as              *)
(* <<code length code, lengths, symbols sent, bits of data>>.               *)
Sent(c, s) == CodeOf(c, s[1]) \o (IF s[1] < RepeatPrev THEN << >> ELSE Bits(s[2], RepeatBits[s[1] - RepeatPrev + 1]))
HandMade(hlit, hdist, c, sent, data) ==
    Bytes(<<1, 0, 1>> \o Bits(hlit, 2) \o Bits(hdist, 2) \o Bits(3, 2)
          \o FoldLeft(LAMBDA acc, s : acc \o Bits(c[s + 1], 2), << >>, CodeLengthOrder)
          \o FoldLeft(LAMBDA acc, s : acc \o Sent(c, s), << >>, sent) \o data)
Direct(lens) == [i \in DOMAIN lens |-> <<lens[i]>>]

ZeroOne == <<1, 1, 0, 0, 0, 0, 0>>
Runs == <<2, 2, 0, 0, 2, 2, 0>>
LongRuns == <<2, 2, 0, 0, 0, 2, 2>>

HandVectors ==
    {XzSound(s, << >>) : s \in
        {HandMade(0, 0, ZeroOne, Direct(<<0, 0, 0, 0, 1, 0>>), <<0>>),
         HandMade(0, 1, Runs, <<<<5, 0>>, <<0>>, <<0>>, <<1>>, <<4, 0>>>>, <<0>>),
         HandMade(0, 0, LongRuns, <<<<6, 0>>, <<1>>, <<0>>>>, <<0>>)}}
    \cup {XzSound(HandMade(0, 0, ZeroOne, Direct(<<1, 0, 0, 0, 1, 1>>), <<0, 0, 1>>), <<0, 0>>)}
    \cup {XzBroken(s, << >>) : s \in
        {\* bits that are no code, no end of block, too many codes, too few
         HandMade(0, 0, ZeroOne, Direct(<<0, 0, 0, 0, 1, 0>>), <<1, 1, 1, 1, 1, 1>>),
         HandMade(0, 0, ZeroOne, Direct(<<1, 1, 0, 0, 0, 0>>), << >>),
         HandMade(0, 0, ZeroOne, Direct(<<1, 1, 0, 0, 1, 0>>), << >>),
         HandMade(0, 2, ZeroOne, Direct(<<0, 0, 0, 0, 1, 1, 1, 1>>), <<0>>),
         HandMade(0, 0, <<1, 2, 0, 0, 0, 0, 0>>, Direct(<<0, 0, 0, 0, 1, 0>>), <<0>>),
         HandMade(0, 0, Runs, <<<<4, 0>>>>, << >>),
         HandMade(0, 0, Runs, <<<<5, 1>>, <<5, 0>>, <<5, 0>>>>, << >>),
         Bytes(Dynamic(1, <<<<0>>, <<1>>>>))}}

(* How far back a match may reach, or how far the whole output does.       *)
FarVectors(limit) ==
    {LET data == IF d > limit THEN << >> ELSE IF d = 4 THEN <<0, 1>> ELSE <<1, 2>>
         s == Bytes(Fixed(1, <<<<0>>, <<1>>, <<2>>, <<3>>, <<2, d>>>>))
     IN Vector(s, d <= limit, <<0, 1, 2, 3>> \o data, Len(s)) : d \in 3..4}

(* Trio's codes are complete, one of Pair's is not, and is refused.        *)
Trio == Bytes(Dynamic(1, <<<<0>>, <<2>>, <<0>>, <<4, 3>>>>))
TrioStream == <<2, 0>> \o Trio \o BE(Sum(0, <<0, 2, 0, 0, 2, 0, 0>>))
RefusedPair == Bytes(Dynamic(1, Pair))
Trios == {Trio \o <<1, 2>>} \cup Prefixes(Trio)

(* A header's checksum is not looked at, a member may refer to the one     *)
(* before it, and a dictionary is refused.                                 *)
EmSpecial ==
    [raw |-> HandVectors \cup {XzBroken(RefusedPair, << >>)},
     gzip |-> {XzSound(UnsoundCrc, << >>), XzSound(IntoFirst, <<3, 3, 3>>)},
     zlib |-> {XzBroken(<<2, 0>> \o RefusedPair, << >>), XzSound(TrioStream, <<0, 2, 0, 0, 2, 0, 0>>)}
              \cup {XzBroken(s, << >>) : s \in {z \in ZlibStreams : Len(z) > 1 /\ z[2] = 2}}]
EmUsual == [raw |-> Plains \cup Trios, gzip |-> GzipStreams,
            zlib |-> {s \in ZlibStreams : ~IsPrefix(<<2, 0>> \o RefusedPair, s)}]
EmFar == [limit \in {2, 3, 4} |-> FarVectors(limit)]

EmUsualMean(box, s) ==
    CASE box = "raw" -> Inflated(s, << >>)
      [] box = "gzip" -> GzipMeans(s, TRUE)
      [] box = "zlib" -> ZlibMeans(s, << >>)
EmUsualMeaning == [box \in {"raw", "gzip", "zlib"} |-> [s \in EmUsual[box] |-> EmUsualMean(box, s)]]

Sources(vectors) == {v.src : v \in vectors}
EmSpecialFor(box, limit) ==
    (IF box = "raw" THEN EmFar[limit] ELSE {}) \cup (IF limit < WinCap THEN {} ELSE EmSpecial[box])
EmStreams(box, limit) == Sources(EmSpecialFor(box, limit)) \cup (IF limit < WinCap THEN {} ELSE EmUsual[box])
EmTexts(box) == CASE box = "raw" -> {<<1, 0, 2, 1, 0, 2, 1>>} [] box = "gzip" -> {<< >>, <<3, 3>>} [] box = "zlib" -> {<<2, 2, 2>>}

Limit(surface, far) == IF surface = "slice" THEN 4 ELSE far
BoxMet == IF src # << >> /\ src[1] = 1 THEN "gzip" ELSE "zlib"
BoxNow == IF state.box # "" THEN state.box ELSE BoxMet
FarNow == Limit(state.surface, state.far)
EmMeant(special) == IF special = {} THEN {EmUsualMeaning[BoxNow][src]} ELSE special

EmInit ==
    /\ format = "embed"
    /\ \E box \in {"raw", "gzip", "zlib"}, surface \in {"push", "slice", "flate"} :
           \/ given = "plain" /\ phase = "encode" /\ plain \in EmTexts(box) /\ src = plain
                /\ state = EmEncoder(box, surface)
           \/ /\ given = "any" /\ phase = "decode" /\ plain = << >>
              /\ \E far \in {2, WinCap} :
                     /\ far < WinCap => surface = "push" /\ box = "raw"
                     /\ src \in EmStreams(box, Limit(surface, far))
                     /\ \/ state = EmDecoder(box, surface, far)
                        \/ surface = "flate" /\ box = BoxMet /\ state = EmDecoder("", "detect", far)
    /\ pos = 0 /\ avail = 0 /\ room = 0
    /\ out = << >>
    /\ calling = FALSE
    /\ restart = << >>

EmFresh ==
    IF "block" \in DOMAIN state THEN EmEncoder(state.box, state.surface)
    ELSE EmDecoder(IF state.surface = "detect" THEN "" ELSE state.box, state.surface, state.far)

(* A one-shot call is given all there is, embed::flate's room for all.     *)
EmRoomsNow ==
    CASE OneShot -> EmRooms \cup {Ample} [] Flate -> {Ample} [] OTHER -> EmRooms

EmCaller ==
    \/ ~OneShot /\ CallerWith(EmRoomsNow)
    \/ OneShot /\ \E cap \in EmRoomsNow : Call(Len(src) - pos, cap) \/ (Encoding /\ CallFinish(cap))

EmNext ==
    \/ EmCaller /\ Remember
    \/ Reset(EmFresh) /\ Remember
    \/ calling /\ phase = "encode" /\ EmEncode /\ Remember
    \/ calling /\ phase = "encode_finish"
         /\ EmFinish(IF Flate /\ ~Box("raw") THEN EmDecoder("", "detect", WinCap)
                     ELSE EmDecoder(state.box, state.surface, WinCap)) /\ Remember
    \/ calling /\ phase \in {"decode", "decode_finish"} /\ EmDecode /\ Remember

(* What is behind the end stays the caller's, but for the byte that tells  *)
(* embed::flate that no other member follows.                              *)
EmFollows ==
    given = "any" => \A special \in {{v \in EmSpecialFor(BoxNow, FarNow) : v.src = src}} : \A meant \in EmMeant(special) :
        /\ Follows(meant)
        /\ phase = "ok" => pos - meant.used \in (IF Flate /\ Box("gzip") THEN {0, 1} ELSE {0})

EmStops == StopsOnlyForRoom("lit" \in DOMAIN state /\ EmOwes)

-----------------------------------------------------------------------------
(* Deflate64: streams of every kind of block, with matches as long and as  *)
(* far as only this format has them, and what no stream may have.          *)
Inflated64(s, dictionary) == InBytes(BlocksMean(BitsOf(s), 0, dictionary, Wide), Len(dictionary))

WideFixed(final, toks) == <<final, 1, 0>> \o FixedBlock64(toks)
WideDynamic(final, toks) == <<final, 0, 1>> \o DynamicBlock64(toks)
Long == <<<<1>>, <<0>>, <<5, 2>>, <<3>>, <<4, 6>>>>
Far == <<<<1>>, <<2, 1>>, <<0>>, <<3, 5>>>>
EmptyStored == StoredBlock(<< >>, 0, << >>)

WideSound ==
    {WideFixed(1, << >>), WideFixed(1, Long), WideDynamic(1, Far), EmptyStored \o EmptyStored \o WideFixed(1, << >>),
     EmptyStored \o WideFixed(0, <<<<2>>>>) \o WideFixed(1, <<<<2, 1>>>>),
     StoredBlock(WideFixed(0, <<<<3>>>>), 0, <<3, 0, 1>>) \o StoredBlock(<< >>, 1, << >>)}
WideUnsound ==
    {WideFixed(1, <<<<1>>, <<2, 2>>>>), <<1, 1, 0>> \o CodeOf(FixedLitLengths, 7), <<1, 1, 1>>,
     <<1, 0, 0, 0>> \o Bits(1, LenBits) \o Bits(1, LenBits), <<1, 0, 1>> \o Bits(3, 2) \o <<0, 0, 0, 0>>}

WideStreams ==
    {Bytes(b) \o behind : b \in WideSound, behind \in {<< >>, <<1, 2, 3, 0, 1, 2, 3, 0>>}}
    \cup {Bytes(b) : b \in WideUnsound}
    \cup UNION {Prefixes(Bytes(b)) : b \in {WideDynamic(1, Far), EmptyStored \o WideFixed(1, <<<<2>>>>)}}

WideMeaning == [d \in {<< >>, Preset} |-> [s \in WideStreams |-> Inflated64(s, d)]]

(* Bound: the longer the text, the fewer flushes.                          *)
WideTexts == {<< >>, <<1, 2, 1, 2, 1>>, <<3, 0, 3, 1, 2, 0, 3, 0, 3, 0>>}
WideAsked == IF Len(plain) > 5 THEN 0 ELSE IF plain = << >> THEN MaxAsked + 1 ELSE MaxAsked

D64Init ==
    /\ format = "deflate64"
    /\ \/ given = "plain" /\ phase = "encode" /\ \E lazy \in BOOLEAN : state = NewEncoder64(lazy)
            /\ plain \in WideTexts /\ src = plain
       \/ given = "any" /\ phase = "decode" /\ plain = << >> /\ src \in WideStreams
            /\ \E dictionary \in {<< >>, Preset} : state = NewDecoder64(dictionary)
    /\ pos = 0 /\ avail = 0 /\ room = 0
    /\ out = << >>
    /\ calling = FALSE
    /\ restart = << >>

D64Fresh == IF "def" \in DOMAIN state THEN [NewEncoder64(state.lazy) EXCEPT !.asked = state.asked] ELSE NewDecoder64(state.dictionary)

D64Next ==
    \/ Caller /\ Remember
    \/ \E kind \in {"sync", "full"}, cap \in Rooms : CallFlush(kind, cap, WideAsked) /\ Remember
    \/ Reset(D64Fresh) /\ Remember
    \/ calling /\ phase = "encode" /\ Encode64 /\ Remember
    \/ calling /\ phase = "flush" /\ Flush64(state.kind) /\ Remember
    \/ calling /\ phase = "encode_finish" /\ Finish64(NewDecoder64(<< >>)) /\ Remember
    \/ calling /\ phase \in {"decode", "decode_finish"} /\ Decode64 /\ Remember

(* What was read behind the end can be had back (decoder.rs                *)
(* `drain_trailing_bytes`).                                                *)
D64Follows ==
    given = "any" => \A meant \in {WideMeaning[state.dictionary][src]} :
        /\ Follows(meant)
        /\ phase = "ok" => SubSeq(src, meant.used + 1, pos) = Trailing64

D64Stops == StopsOnlyForRoom("inf" \in DOMAIN state /\ Owes64)

D64Delivers == FlushEnds => Inflated64(out', << >>).bytes = SubSeq(plain, 1, pos)
D64Restarts ==
    restart # << >> /\ Settled =>
        Inflated64(After(src, restart[1]), << >>).bytes = SubSeq(plain, restart[2] + 1, Len(plain))

-----------------------------------------------------------------------------
Xz == format \in XzFormats
Wider == format = "deflate64"
Em == format = "embed"

Init == GzInit \/ XzInit \/ EmInit \/ D64Init

Next ==
    \/ format \in GzFormats /\ GzNext
    \/ Xz /\ XzNext
    \/ Em /\ EmNext
    \/ Wider /\ D64Next

Spec == Init /\ [][Next]_<<vars, restart>>

-----------------------------------------------------------------------------
(* What was encoded comes back, whatever the blocks or chunks, the flushes *)
(* and the cuts into calls.                                                *)
DecodesToPlain == IF Xz THEN XzDecodes ELSE GzDecodes

(* Sound streams decode to what they mean, broken ones fail, and what is   *)
(* behind the end stays the caller's (deflate/decoder.rs `unfeed`,         *)
(* xz/mod.rs StreamPadding).                                               *)
FollowsFormat ==
    /\ Xz => XzFollows
    /\ Em => EmFollows
    /\ Wider => D64Follows
    /\ format \in GzFormats => GzFollows

(* Calls stop only for want of output room or input.                       *)
StopsForRoom == [][IF Xz THEN XzStops ELSE IF Em THEN EmStops ELSE IF Wider THEN D64Stops ELSE GzStops]_vars

(* When a flush is done, what has been written decodes to all that was     *)
(* taken (encoder.rs `raw_flush_kind`, xz/mod.rs `raw_flush`).             *)
FlushDelivers == [][IF Xz THEN XzDelivers ELSE IF Wider THEN D64Delivers ELSE Em \/ GzDelivers]_vars

(* A full flush is a place to start decoding from.                         *)
FullFlushRestarts == IF Xz THEN XzRestarts ELSE IF Wider THEN D64Restarts ELSE Em \/ GzRestarts
=============================================================================
