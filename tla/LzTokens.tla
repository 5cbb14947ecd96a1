------------------------------ MODULE LzTokens ------------------------------
(***************************************************************************)
(* The formats whose tokens are decoded as they arrive: LZS (lzs/), ADC    *)
(* (adc/), LZNT1 (lznt1/), LZSS (lzss/) and Plain LZ77 (xpress/).  Their   *)
(* encoders collect the plaintext and build the stream at the end.  A flag *)
(* byte covers 4 tokens; the other scales are with the definitions.        *)
(***************************************************************************)
EXTENDS LzBlocks

MaxLength == 31   \* u32::MAX, what LZS, LZSS and Plain LZ77 take

NewTokenEncoder == [raw |-> << >>, pending |-> << >>, finished |-> FALSE]

CollectAtMost ==
    IF Len(state.raw) + avail - pos > MaxLength THEN Fail ELSE Collect

(* A table remembers the last position of a prefix of `min` bytes: a match *)
(* reaches back to the nearest one known with that prefix, or is missed.   *)
(* The last `keep - 1` positions a match covers are never entered.         *)
Known(parse, keep, q) ==
    \A i \in DOMAIN parse :
        LET over == parse[i].at + parse[i].len IN ~(q > parse[i].at /\ q < over /\ q + keep > over)

FromTable(data, parse, min, keep) ==
    \A i \in DOMAIN parse :
        LET m == parse[i]
            before == SubSeq(parse, 1, i - 1)
        IN /\ Known(before, keep, m.at - m.dist)
           /\ \A d \in 1..(m.dist - 1) : Known(before, keep, m.at - d) => ~Agree(data, m.at, d, min)

TableParses(data, min, max, far, keep) ==
    IF Len(data) < min THEN {<< >>}
    ELSE {p \in Parses(data, 0, [min |-> min, max |-> max, far |-> far, greedy |-> TRUE,
                                 start |-> Len(data) - min + 1, end |-> Len(data)])
              : FromTable(data, p, min, keep)}

(* A parse with its literals, as tokens of length 1 and distance 0.        *)
RECURSIVE TokensFrom(_, _, _)
TokensFrom(data, at, parse) ==
    IF at = Len(data) THEN << >>
    ELSE IF parse # << >> /\ parse[1].at = at
         THEN <<parse[1]>> \o TokensFrom(data, at + parse[1].len, Tail(parse))
         ELSE <<[at |-> at, len |-> 1, dist |-> 0]>> \o TokensFrom(data, at + 1, parse)

FieldBits(v, n) == [i \in 1..n |-> (v \div 2^(n - i)) % 2]
FieldValue(bits) == FoldLeft(LAMBDA v, b : 2 * v + b, 0, bits)

(* Four tokens behind a byte that flags them, the first in its low bit.    *)
RECURSIVE Groups(_)
Groups(items) ==
    IF items = << >> THEN << >>
    ELSE LET g == SubSeq(items, 1, Smaller(4, Len(items))) IN
         <<FoldRight(LAMBDA t, v : 2 * v + t.flag, g, 0)>>
         \o FlattenSeq([i \in DOMAIN g |-> g[i].bytes]) \o Groups(After(items, 4))
FlagsOf(byte) == Reverse(FieldBits(byte, 4))

-----------------------------------------------------------------------------
(* LZS: bits, high first.  An offset has 2 bits or 3, a chained length is  *)
(* continued in fields of 2 bits.                                          *)
LzsFar == 7

Unpacked(bytes) == FlattenSeq([i \in DOMAIN bytes |-> FieldBits(bytes[i], 4)])
Packed(bits) == [i \in 1..(Len(bits) \div 4) |-> FieldValue(SubSeq(bits, 4 * i - 3, 4 * i))]
PaddedWithOnes(bits) == bits \o Copies(1, (4 - (Len(bits) % 4)) % 4)

LzsLength(n) ==
    IF n <= 4 THEN FieldBits(n - 2, 2)
    ELSE IF n <= 7 THEN <<1, 1>> \o FieldBits(n - 5, 2)
    ELSE <<1, 1, 1, 1>> \o Copies(1, 2 * ((n - 8) \div 3)) \o FieldBits((n - 8) % 3, 2)

LzsToken(data, t) ==
    IF t.dist = 0 THEN <<0>> \o FieldBits(data[t.at + 1], 4)
    ELSE (IF t.dist < 4 THEN <<1, 1>> \o FieldBits(t.dist, 2) ELSE <<1, 0>> \o FieldBits(t.dist, 3)) \o LzsLength(t.len)

LzsPayload(data, parse) ==
    LET tokens == TokensFrom(data, 0, parse) IN
    FlattenSeq([i \in DOMAIN tokens |-> LzsToken(data, tokens[i])]) \o <<1, 1, 0, 0>>

LzsBuilt(s) ==
    {[s EXCEPT !.pending = Word(Len(s.raw)) \o Packed(PaddedWithOnes(LzsPayload(s.raw, p)))]
     : p \in TableParses(s.raw, 2, Len(s.raw), LzsFar, 1)}

LzsEncode == CollectAtMost
LzsEncodeFinish(newDecoder) == CollectedFinish(LzsBuilt, newDecoder)

-----------------------------------------------------------------------------
(* The decoders of LZS and Plain LZ77 keep what they are given in `buf`,   *)
(* behind a length of two bytes, and `hist` of what they made.             *)
Absorb(Unit(_)) ==
    \/ /\ state.at = "Reading" /\ ~NoInput
       /\ LET n == Smaller(avail - pos, 2 - Len(state.hdr))
              hdr == state.hdr \o Take(n)
          IN IF Len(hdr) < 2 THEN Turn([state EXCEPT !.hdr = hdr], n, << >>)
             ELSE Turn([state EXCEPT !.hdr = hdr, !.target = WordAt(hdr, 0),
                                     !.at = IF WordAt(hdr, 0) = 0 THEN "Done" ELSE "Active"], n, << >>)
    \/ /\ state.at # "Reading" /\ ~NoInput
       /\ Turn([state EXCEPT !.buf = @ \o Unit(Take(avail - pos))], avail - pos, << >>)

AtEof == phase = "decode_finish"
Short == IF AtEof THEN Fail ELSE Return(state, << >>)
Drained == IF AtEof THEN DecodeDone ELSE End([state EXCEPT !.at = "Done"], << >>)

NoWholeHeader ==
    IF AtEof /\ (state.hdr # << >> \/ room > 0) THEN Fail ELSE Return(state, << >>)

Trimmed(h, far) == IF Len(h) > 2 * far THEN LastBytes(h, far) ELSE h
Made(bytes, far) ==
    [state EXCEPT !.hist = Trimmed(@ \o bytes, far), !.made = @ + Len(bytes)]

EmitLiteralOf(far) == Turn([Made(state.lit, far) EXCEPT !.lit = << >>], 0, state.lit)

CopyOfMatch(far) ==
    LET n == Smaller(Smaller(state.rem, room), state.target - state.made)
        bytes == LastBytes(CopyOf(state.hist, state.dist, n), n)
    IN Turn([Made(bytes, far) EXCEPT !.rem = @ - n], 0, bytes)

More == [kind |-> "more"]
Invalid == [kind |-> "bad"]
Owed == state.lit # << >> \/ state.rem > 0

-----------------------------------------------------------------------------
NewLzsDecoder ==
    [at |-> "Reading", hdr |-> << >>, target |-> 0, buf |-> << >>, hist |-> << >>, made |-> 0,
     lit |-> << >>, rem |-> 0, dist |-> 0, eos |-> FALSE]

(* try_read_length: of the bits b, never more than the stream can hold.    *)
LzsLengthAt(b, cap) ==
    LET pairs == [i \in 1..(Len(b) \div 2) |-> 2 * b[2 * i - 1] + b[2 * i]]
        k == CHOOSE k \in 0..Len(pairs) : (\A i \in 1..k : pairs[i] = 3) /\ (k = Len(pairs) \/ pairs[k + 1] # 3)
    IN IF k >= 3 /\ 8 + 3 * (k - 2) > cap THEN Invalid
       ELSE IF k = Len(pairs) THEN More
       ELSE [kind |-> "length", used |-> 2 * (k + 1),
             n |-> pairs[k + 1] + (CASE k = 0 -> 2 [] k = 1 -> 5 [] OTHER -> 8 + 3 * (k - 2))]

LzsMatchAt(b, width, made, cap) ==
    LET offset == FieldValue(SubSeq(b, 3, 2 + width))
        length == LzsLengthAt(After(b, 2 + width), cap)
    IN IF offset = 0 THEN IF width = 2 THEN [kind |-> "end", used |-> 4] ELSE Invalid
       ELSE IF length.kind # "length" THEN length
       ELSE IF offset > made \/ offset > LzsFar THEN Invalid
       ELSE [kind |-> "match", n |-> length.n, dist |-> offset, used |-> 2 + width + length.used]

LzsTokenAt(b, made, cap) ==
    IF b = << >> THEN More
    ELSE IF b[1] = 0
    THEN IF Len(b) < 5 THEN More ELSE [kind |-> "literal", byte |-> FieldValue(SubSeq(b, 2, 5)), used |-> 5]
    ELSE IF Len(b) < 2 THEN More
    ELSE LET width == IF b[2] = 1 THEN 2 ELSE 3 IN
         IF Len(b) < 2 + width THEN More ELSE LzsMatchAt(b, width, made, cap)

ReadLzsToken ==
    LET t == LzsTokenAt(state.buf, state.made, state.target)
        s == [state EXCEPT !.buf = After(@, t.used)]
    IN CASE t.kind = "more" -> Short
         [] t.kind = "bad" -> Fail
         [] t.kind = "end" -> Continue([s EXCEPT !.eos = TRUE])
         [] t.kind = "literal" -> Continue([s EXCEPT !.lit = <<t.byte>>])
         [] t.kind = "match" -> Continue([s EXCEPT !.rem = t.n, !.dist = t.dist])

(* drain: more than the length promised is an error, and so is less.       *)
LzsDrain ==
    \/ state.lit # << >> /\ state.made >= state.target /\ Fail
    \/ state.lit # << >> /\ state.made < state.target /\ NoRoom /\ Return(state, << >>)
    \/ state.lit # << >> /\ state.made < state.target /\ ~NoRoom /\ EmitLiteralOf(LzsFar)
    \/ state.rem > 0 /\ NoRoom /\ Return(state, << >>)
    \/ state.rem > 0 /\ ~NoRoom /\ state.made >= state.target /\ Fail
    \/ state.rem > 0 /\ ~NoRoom /\ state.made < state.target /\ CopyOfMatch(LzsFar)
    \/ ~Owed /\ state.eos /\ IF state.made = state.target THEN Drained ELSE Fail
    \/ ~Owed /\ ~state.eos /\ ReadLzsToken

LzsDecode ==
    \/ Absorb(Unpacked)
    \/ NoInput /\ state.at = "Reading" /\ NoWholeHeader
    \/ NoInput /\ state.at = "Done" /\ Drained
    \/ NoInput /\ state.at = "Active" /\ LzsDrain
LzsDecodeFinish == LzsDecode

-----------------------------------------------------------------------------
(* Plain LZ77: a word of 8 flags (32), first flag high, before its         *)
(* symbols; a symbol is a word with 2 bits of length (3); a half byte has  *)
(* 2 bits.  A long match takes the low half of a byte, the next one the    *)
(* high half of the same byte.                                             *)
XpressFar == 8

(* write_half_byte                                                         *)
PutHalf(s, nibble) ==
    IF s.owner = 0 THEN [s EXCEPT !.owner = Len(s.bytes) + 1, !.bytes = Append(@, nibble)]
    ELSE [s EXCEPT !.owner = 0, !.bytes = [@ EXCEPT ![s.owner] = @ + 4 * nibble]]

PutBytes(s, bytes) == [s EXCEPT !.bytes = @ \o bytes]

PutMatch(s, dist, len) ==
    LET more == len - 6
        lc == IF len < 6 THEN len - 3 ELSE 3
        e == PutBytes(s, Word(4 * (dist - 1) + lc))
    IN IF len < 6 THEN e
       ELSE IF more < 3 THEN PutHalf(e, more)
       ELSE IF len < 24 THEN PutBytes(PutHalf(e, 3), <<len - 9>>)
       ELSE PutBytes(PutHalf(e, 3), <<15>> \o (IF len - 3 < 256 THEN Word(len - 3)
                                               ELSE Word(0) \o Word((len - 3) % 256) \o Word((len - 3) \div 256)))

(* The flags of a last group that is not full end in ones.                 *)
RECURSIVE XpressGroups(_, _, _)
XpressGroups(data, tokens, s) ==
    IF tokens = << >> THEN s.bytes
    ELSE LET g == SubSeq(tokens, 1, Smaller(8, Len(tokens)))
             flags == [i \in 1..8 |-> IF i <= Len(g) THEN IF g[i].dist = 0 THEN 0 ELSE 1 ELSE 1]
             e == FoldLeft(LAMBDA a, t : IF t.dist = 0 THEN PutBytes(a, <<data[t.at + 1]>>)
                                         ELSE PutMatch(a, t.dist, t.len),
                           PutBytes(s, Word(FieldValue(flags))), g)
         IN XpressGroups(data, After(tokens, 8), e)

XpressBuilt(s) ==
    {[s EXCEPT !.pending = Word(Len(s.raw))
                           \o XpressGroups(s.raw, TokensFrom(s.raw, 0, p), [bytes |-> << >>, owner |-> 0])]
     : p \in TableParses(s.raw, 3, Len(s.raw), XpressFar, Len(s.raw) + 1)}

XpressEncode == CollectAtMost
XpressEncodeFinish(newDecoder) == CollectedFinish(XpressBuilt, newDecoder)

NewXpressDecoder ==
    [at |-> "Reading", hdr |-> << >>, target |-> 0, buf |-> << >>, hist |-> << >>, made |-> 0,
     lit |-> << >>, rem |-> 0, dist |-> 0, flags |-> << >>, half |-> << >>]

(* try_read_length_at: the length behind a symbol, where it ends, and the  *)
(* half byte that is kept.                                                 *)
Length_(n, used, half) == [kind |-> "length", n |-> n, used |-> used, half |-> half]

WordLength(b, at, half, cap) ==
    IF Len(b) < at + 2 THEN More
    ELSE IF WordAt(b, at) # 0
    THEN IF WordAt(b, at) < 6 THEN Invalid ELSE Length_(WordAt(b, at) + 3, at + 2, half)
    ELSE IF Len(b) < at + 6 THEN More
    ELSE LET n == WordAt(b, at + 2) + 256 * WordAt(b, at + 4) IN
         IF n < 6 \/ n > cap THEN Invalid ELSE Length_(n + 3, at + 6, half)

XpressLengthAt(b, lc, kept, cap) ==
    LET at == IF kept = << >> THEN 3 ELSE 2
        nibble == IF kept = << >> THEN b[3] % 4 ELSE kept[1]
        half == IF kept = << >> THEN <<b[3] \div 4>> ELSE << >>
    IN IF lc < 3 THEN Length_(lc + 3, 2, kept)
       ELSE IF Len(b) < at THEN More
       ELSE IF nibble < 3 THEN Length_(nibble + 6, at, half)
       ELSE IF Len(b) < at + 1 THEN More
       ELSE IF b[at + 1] < 15 THEN Length_(b[at + 1] + 9, at + 1, half)
       ELSE WordLength(b, at + 1, half, cap)

XpressMatchAt(b, kept, made, cap) ==
    LET length == XpressLengthAt(b, WordAt(b, 0) % 4, kept, cap)
        dist == (WordAt(b, 0) \div 4) + 1
    IN IF length.kind # "length" THEN length
       ELSE IF dist > XpressFar \/ dist > made THEN Invalid
       ELSE [kind |-> "match", dist |-> dist, n |-> length.n, used |-> length.used, half |-> length.half]

XpressTokenAt(b, flag, kept, made, cap) ==
    IF Len(b) < 1 + flag THEN More
    ELSE IF flag = 0 THEN [kind |-> "literal", byte |-> b[1], used |-> 1]
    ELSE XpressMatchAt(b, kept, made, cap)

ReadXpressToken ==
    LET t == XpressTokenAt(state.buf, state.flags[1], state.half, state.made, state.target)
        s == [state EXCEPT !.buf = After(@, t.used), !.flags = Tail(@)]
    IN CASE t.kind = "more" -> Short
         [] t.kind = "bad" -> Fail
         [] t.kind = "literal" -> Continue([s EXCEPT !.lit = <<t.byte>>])
         [] t.kind = "match" -> Continue([s EXCEPT !.rem = t.n, !.dist = t.dist, !.half = t.half])

ReadXpressFlags ==
    IF Len(state.buf) < 2 THEN Short
    ELSE Continue([state EXCEPT !.flags = FieldBits(WordAt(state.buf, 0), 8), !.buf = After(@, 2)])

(* drain: the promised length ends the stream, in the midst of a match too.*)
XpressDrain ==
    \/ state.made >= state.target /\ Drained
    \/ /\ state.made < state.target
       /\ \/ Owed /\ NoRoom /\ Return(state, << >>)
          \/ state.lit # << >> /\ ~NoRoom /\ EmitLiteralOf(XpressFar)
          \/ state.rem > 0 /\ ~NoRoom /\ CopyOfMatch(XpressFar)
          \/ ~Owed /\ state.flags = << >> /\ ReadXpressFlags
          \/ ~Owed /\ state.flags # << >> /\ ReadXpressToken

XpressDecode ==
    \/ Absorb(LAMBDA bytes : bytes)
    \/ NoInput /\ state.at = "Reading" /\ NoWholeHeader
    \/ NoInput /\ state.at = "Done" /\ Drained
    \/ NoInput /\ state.at = "Active" /\ XpressDrain
XpressDecodeFinish == XpressDecode

-----------------------------------------------------------------------------
(* ADC: runs of up to 8 literals, short matches of 3 or 4 bytes up to 4    *)
(* back, long ones of up to 7.  The low byte of an offset has 1 bit.       *)
MaxLiteralRun == 8
MaxShortOffset == 4
MaxShortMatch == 4
MaxLongMatch == 7
AdcFar == 32

RECURSIVE FlushLiterals(_)
FlushLiterals(data) ==
    IF data = << >> THEN << >>
    ELSE LET run == SubSeq(data, 1, Smaller(MaxLiteralRun, Len(data))) IN
         <<8 + Len(run) - 1>> \o run \o FlushLiterals(After(data, MaxLiteralRun))

AdcMatch(dist, len) ==
    LET hi == (dist - 1) \div 2
        lo == (dist - 1) % 2
    IN IF dist <= MaxShortOffset /\ len <= MaxShortMatch THEN <<2 * (len - 3) + hi, lo>>
       ELSE <<4 + len - 4, hi, lo>>

AdcPayload(data, parse) ==
    LET e == FoldLeft(LAMBDA a, m : [from |-> m.at + m.len,
                                     bytes |-> a.bytes \o FlushLiterals(SubSeq(data, a.from + 1, m.at))
                                               \o AdcMatch(m.dist, m.len)],
                      [from |-> 0, bytes |-> << >>], parse)
    IN e.bytes \o FlushLiterals(After(data, e.from))

(* A match of 3 from further back than the short form reaches is no match. *)
AdcBuilt(s) ==
    {[s EXCEPT !.pending = AdcPayload(s.raw, p)]
     : p \in {p \in TableParses(s.raw, 3, MaxLongMatch, AdcFar, 3)
                 : \A i \in DOMAIN p : p[i].dist <= MaxShortOffset \/ p[i].len > 3}}

AdcEncode == Collect
AdcEncodeFinish(newDecoder) == CollectedFinish(AdcBuilt, newDecoder)

NewAdcDecoder == [at |-> "Tag", n |-> 0, hi |-> 0, dist |-> 0, window |-> << >>]

Told(s, bytes) == [s EXCEPT !.window = LastBytes(@ \o bytes, AdcFar), !.n = @ - Len(bytes)]
Onward(s) == IF s.n = 0 THEN [s EXCEPT !.at = "Tag"] ELSE s

AdcCopy ==
    /\ state.at = "Copying"
    /\ IF NoRoom THEN Return(state, << >>)
       ELSE LET n == Smaller(state.n, room)
                bytes == LastBytes(CopyOf(state.window, state.dist, n), n)
            IN Turn(Onward(Told(state, bytes)), 0, bytes)

AdcLiterals ==
    /\ state.at = "Literal"
    /\ LET n == Smaller(state.n, Smaller(avail - pos, room)) IN
       IF n = 0 THEN Return(state, << >>) ELSE Turn(Onward(Told(state, Take(n))), n, Take(n))

AdcTag(tag) ==
    IF tag >= 8 THEN [state EXCEPT !.at = "Literal", !.n = (tag % 8) + 1]
    ELSE IF tag >= 4 THEN [state EXCEPT !.at = "LongMatchOffHi", !.n = (tag % 4) + 4]
    ELSE [state EXCEPT !.at = "OffLo", !.n = (tag \div 2) + 3, !.hi = tag % 2]

AdcToken ==
    \/ state.at \in {"Tag", "LongMatchOffHi", "OffLo"} /\ NoInput /\ Return(state, << >>)
    \/ state.at = "Tag" /\ ~NoInput /\ Turn(AdcTag(NextByte), 1, << >>)
    \/ state.at = "LongMatchOffHi" /\ ~NoInput /\ Turn([state EXCEPT !.at = "OffLo", !.hi = NextByte], 1, << >>)
    \/ /\ state.at = "OffLo" /\ ~NoInput
       /\ LET dist == 2 * state.hi + NextByte + 1 IN
          IF dist > Len(state.window) THEN Fail
          ELSE Turn([state EXCEPT !.at = "Copying", !.dist = dist], 1, << >>)

AdcDecode == AdcCopy \/ AdcLiterals \/ AdcToken

AdcDecodeFinish ==
    \/ AdcCopy
    \/ state.at = "Tag" /\ DecodeDone
    \/ state.at \notin {"Tag", "Copying"} /\ Fail

-----------------------------------------------------------------------------
(* LZNT1: chunks of 16 bytes (4096), each by itself; a match is a word     *)
(* whose split into offset and length depends on where it is.              *)
ChunkSize == 16

OffsetBits(at) == IF at <= 4 THEN 2 ELSE IF at <= 8 THEN 3 ELSE 4      \* split_for_pos
LengthOf(at) == 2^(8 - OffsetBits(at))

ChunkBody(data, parse) ==
    LET tokens == TokensFrom(data, 0, parse) IN
    Groups([i \in DOMAIN tokens |->
              LET t == tokens[i] IN
              IF t.dist = 0 THEN [flag |-> 0, bytes |-> <<data[t.at + 1]>>]
              ELSE [flag |-> 1, bytes |-> Word((t.dist - 1) * LengthOf(t.at) + t.len - 3)]])

(* emit_chunk: stored if that is not longer.                               *)
EmitChunk(data, parse) ==
    LET body == ChunkBody(data, parse) IN
    IF Len(body) < Len(data) THEN <<Len(body) - 1, 11>> \o body ELSE <<Len(data) - 1, 3>> \o data

RECURSIVE EmitChunks(_)
EmitChunks(data) ==
    IF data = << >> THEN {<<0, 0>>}
    ELSE LET chunk == SubSeq(data, 1, Smaller(ChunkSize, Len(data))) IN
         {EmitChunk(chunk, p) \o rest : p \in TableParses(chunk, 3, ChunkSize, ChunkSize, 3),
                                        rest \in EmitChunks(After(data, ChunkSize))}

Lznt1Built(s) ==
    IF s.raw = << >> THEN {s} ELSE {[s EXCEPT !.raw = << >>, !.pending = bytes] : bytes \in EmitChunks(s.raw)}

Lznt1Encode == Collect
Lznt1EncodeFinish(newDecoder) == CollectedFinish(Lznt1Built, newDecoder)

(* decode_compressed_chunk                                                 *)
RECURSIVE Unchunk(_, _, _)
Unchunk(body, flags, made) ==
    LET unit == LengthOf(Len(made))
        dist == (WordAt(body, 0) \div unit) + 1
        len == (WordAt(body, 0) % unit) + 3
    IN IF body = << >> THEN [ok |-> TRUE, out |-> made]
       ELSE IF flags = << >> THEN Unchunk(Tail(body), FlagsOf(body[1]), made)
       ELSE IF flags[1] = 0
       THEN IF Len(made) = ChunkSize THEN Broken ELSE Unchunk(Tail(body), Tail(flags), Append(made, body[1]))
       ELSE IF Len(body) < 2 \/ made = << >> THEN Broken
       ELSE IF dist > Len(made) \/ Len(made) + len > ChunkSize THEN Broken
       ELSE Unchunk(After(body, 2), Tail(flags), CopyOf(made, dist, len))

NewLznt1Decoder == [at |-> "Header", need |-> 2, got |-> << >>, pending |-> << >>]

ReadChunkHeader ==
    /\ Reading("Header")
    /\ IF state.got = <<0, 0>> THEN End(Goto(state, "Done", 0), << >>)
       ELSE IF state.got[2] % 8 # 3 THEN Fail
       ELSE Continue(Goto(state, IF state.got[2] >= 8 THEN "Compressed" ELSE "Uncompressed", state.got[1] + 1))

ReadChunk ==
    \/ Reading("Uncompressed") /\ Continue([Goto(state, "Header", 2) EXCEPT !.pending = state.got])
    \/ /\ Reading("Compressed")
       /\ LET r == Unchunk(state.got, << >>, << >>) IN
          IF r.ok THEN Continue([Goto(state, "Header", 2) EXCEPT !.pending = r.out]) ELSE Fail

Lznt1Decode == FillItem \/ ReadChunkHeader \/ ReadChunk
Lznt1DecodeFinish == ItemsFinish(state.at = "Header" /\ state.got = << >>)

-----------------------------------------------------------------------------
(* LZSS: a ring of 32 bytes (4096), matches of 3 to 10 (18), given by      *)
(* their place in the ring.  Of the second byte of a match 1 bit belongs   *)
(* to the place and 3 to the length.                                       *)
RingSize == 32
LzssMax == 10
Nul == 14

(* The longest match, the nearest of them.                                 *)
LzssBest(data, at) ==
    LET most == Smaller(LzssMax, Len(data) - at)
        far == Smaller(at, RingSize - LzssMax)
        len == [d \in 1..far |-> Longest(data, at, d, most)]
    IN CHOOSE d \in 1..far : /\ \A e \in 1..far : len[e] <= len[d]
                             /\ \A e \in 1..(d - 1) : len[e] < len[d]

RECURSIVE LzssItems(_, _)
LzssItems(data, at) ==
    IF at = Len(data) THEN << >>
    ELSE LET literal == <<[flag |-> 1, bytes |-> <<data[at + 1]>>]>> \o LzssItems(data, at + 1)
             dist == LzssBest(data, at)
             len == Longest(data, at, dist, Smaller(LzssMax, Len(data) - at))
             place == (at - dist + RingSize - LzssMax) % RingSize
         IN IF at = 0 \/ at + 3 > Len(data) THEN literal
            ELSE IF len < 3 THEN literal
            ELSE <<[flag |-> 0, bytes |-> <<place % 16, 8 * (place \div 16) + len - 3>>]>>
                 \o LzssItems(data, at + len)

LzssBuilt(s) == {[s EXCEPT !.raw = << >>, !.pending = Word(Len(s.raw)) \o Groups(LzssItems(s.raw, 0))]}

LzssEncode == CollectAtMost
LzssEncodeFinish(newDecoder) == CollectedFinish(LzssBuilt, newDecoder)

NewLzssDecoder ==
    [at |-> "Header", hdr |-> << >>, expected |-> 0, emitted |-> 0, flags |-> << >>, first |-> 0,
     place |-> 0, len |-> 0, lit |-> << >>, ring |-> Copies(Nul, RingSize), end |-> RingSize - LzssMax]

(* emit, and the phase after it.                                           *)
Emit(s, b, next) ==
    [s EXCEPT !.ring[s.end + 1] = b, !.end = (@ + 1) % RingSize, !.emitted = @ + 1,
              !.at = IF s.emitted + 1 >= s.expected THEN "Done" ELSE next]

LzssHeader ==
    \/ state.at = "Header" /\ NoInput /\ Return(state, << >>)
    \/ /\ state.at = "Header" /\ ~NoInput
       /\ LET n == Smaller(avail - pos, 2 - Len(state.hdr))
              s == [state EXCEPT !.hdr = @ \o Take(n)]
          IN Turn(IF Len(s.hdr) < 2 THEN s
                  ELSE [s EXCEPT !.expected = WordAt(s.hdr, 0),
                                 !.at = IF WordAt(s.hdr, 0) = 0 THEN "Done" ELSE "Flags"], n, << >>)

LzssToken ==
    /\ state.at = "Token"
    /\ Continue(IF state.flags = << >> THEN [state EXCEPT !.at = "Flags"]
                ELSE [state EXCEPT !.flags = Tail(@),
                                   !.at = IF state.flags[1] = 1 THEN "NeedLiteral" ELSE "NeedMatch1"])

LzssNeed ==
    /\ state.at \in {"Flags", "NeedLiteral", "NeedMatch1", "NeedMatch2"}
    /\ \/ NoInput /\ Return(state, << >>)
       \/ /\ ~NoInput
          /\ Turn(CASE state.at = "Flags" -> [state EXCEPT !.at = "Token", !.flags = FlagsOf(NextByte)]
                    [] state.at = "NeedLiteral" -> [state EXCEPT !.at = "PendingLiteral", !.lit = <<NextByte>>]
                    [] state.at = "NeedMatch1" -> [state EXCEPT !.at = "NeedMatch2", !.first = NextByte]
                    [] state.at = "NeedMatch2" ->
                           [state EXCEPT !.at = "EmitMatch", !.place = state.first + 16 * (NextByte \div 8),
                                         !.len = (NextByte % 8) + 3], 1, << >>)

LzssPending == state.at \in {"PendingLiteral", "EmitMatch"}

LzssEmit ==
    \/ LzssPending /\ NoRoom /\ Return(state, << >>)
    \/ /\ state.at = "PendingLiteral" /\ ~NoRoom
       /\ Turn([Emit(state, state.lit[1], "Token") EXCEPT !.lit = << >>], 0, state.lit)
    \/ /\ state.at = "EmitMatch" /\ ~NoRoom
       /\ LET b == state.ring[state.place + 1]
              s == Emit(state, b, IF state.len = 1 THEN "Token" ELSE "EmitMatch")
          IN Turn([s EXCEPT !.place = (@ + 1) % RingSize, !.len = @ - 1], 0, <<b>>)

LzssDecode ==
    \/ LzssHeader \/ LzssToken \/ LzssNeed \/ LzssEmit
    \/ state.at = "Done" /\ End(state, << >>)

(* What waits for room is handed out; then the stream must be complete.    *)
LzssDecodeFinish ==
    \/ LzssEmit
    \/ state.at = "Done" /\ DecodeDone
    \/ ~LzssPending /\ state.at # "Done" /\ IF state.at = "Header" /\ state.hdr = << >> THEN DecodeDone ELSE Fail
=============================================================================
