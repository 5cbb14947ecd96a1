---------------------------- MODULE StreamCodecs ----------------------------
(***************************************************************************)
(* The resumable run-length and LZW codecs and bzip2, driven by the same   *)
(* caller: each run picks one format and one plaintext, or one format and  *)
(* the bytes for its decoder.  Encoding then decoding gives back the       *)
(* plaintext wherever the caller cuts input and output, and calls stop for *)
(* the reasons the bridge of traits.rs takes for granted.                  *)
(***************************************************************************)
EXTENDS RunLength, Filters

CONSTANTS
    PlainBytes,                \* bytes the plaintext is made of
    MaxPlain,                  \* bound: plaintext length
    WireBytes,                 \* bytes of the streams given to a decoder alone
    MaxWire,                   \* bound: their length
    InitBits, MaxBits, Group, CheckGap, Slack,   \* the LZW codecs
    Cap,                       \* Shrink
    LzwMaxWire, LzwChunks, LzwRooms,  \* bounds of the LZW codecs
    BcChunks, BcRooms, BcAsked,       \* bounds of bzip2: input, output and flushes
    LzChunks, LzRooms                 \* bounds of LZMA

ASSUME LzwAssumption ==
    2^InitBits > 2^ByteBits + 1 /\ MaxBits >= InitBits /\ Cap \in Nat

-----------------------------------------------------------------------------
(* bzip2: texts of several blocks with runs over their ends, and streams   *)
(* written out by hand, sound and broken.                                  *)
BlockFormats == {"bzip2"}

(* `over` bytes behind the end may have been taken before it is seen.      *)
Stream(wire, bytes, ok) == [wire |-> wire, bytes |-> bytes, ok |-> ok, used |-> Len(wire), over |-> 0]
Sound(wire, bytes) == Stream(wire, bytes, TRUE)
Bad(wire, bytes) == Stream(wire, bytes, FALSE)
Followed(stream, junk, over) == [stream EXCEPT !.wire = @ \o junk, !.over = over]

(* The parts of a block of bzip2.                                          *)
Parts(block) ==
    LET alphabet == AlphabetOf(block)
        symbols == BlockSymbols(LastColumn(block), alphabet)
        tables == TablesFor(symbols, Len(alphabet) + 2)
        selectors == [i \in 1..GroupOf(Len(symbols)) |-> i % 2]
    IN [magic |-> BlockMagic, crc |-> Crc(Rle1Inverse(block)), randomised |-> 0,
        origin |-> CHOOSE o \in Origins(block) : TRUE, map |-> AlphabetBits(alphabet),
        n |-> Len(tables), count |-> Len(selectors), selectors |-> SelectorBits(selectors, Len(tables)),
        lengths |-> FlattenSeq([t \in DOMAIN tables |-> LengthsBits(tables[t])]),
        coded |-> CodedBits(symbols, tables, selectors)]

PartBits(p) ==
    p.magic \o Field(p.crc, CrcBits) \o <<p.randomised>> \o Field(p.origin, OriginBits) \o p.map
    \o Field(p.n, TablesBits) \o Field(p.count, CountBits) \o p.selectors \o p.lengths \o p.coded

StreamBits(level, parts, crc) ==
    BzBits(BzMagic \o <<level>>) \o FlattenSeq([i \in DOMAIN parts |-> PartBits(parts[i])])
    \o EndMagic \o Field(crc, CrcBits)
StreamWire(level, parts) ==
    BzBytes(Aligned(StreamBits(level, parts, FoldLeft(LAMBDA c, p : Combine(c, p.crc), 0, parts))))

T1 == <<1, 2, 1>>
T2 == <<3, 3, 1>>

(* Lengths that go up and down before they settle.                         *)
Wavering == FlattenSeq(Copies(<<1, 1, 1, 0>>, 12))
Flat4 == LengthsBits(Flat(4))
P3 == [Parts(<<1, 2>>) EXCEPT !.lengths = SubSeq(@, 1, Len(@) - Len(Flat4))
                                          \o SubSeq(Flat4, 1, 2) \o Wavering \o After(Flat4, 2)]

(* Streams by their level and their blocks, and what comes of them.        *)
By(level, parts, bytes, ok) == [level |-> level, parts |-> parts, bytes |-> bytes, ok |-> ok]
Single(p) == By(1, <<p>>, T1, TRUE)
Wrong(p) == By(1, <<p>>, << >>, FALSE)
Written(streams) == {Stream(StreamWire(s.level, s.parts), s.bytes, s.ok) : s \in streams}

BlockStreams(p1, p2, p3) == Written(
    {Single(p1), By(1, <<p2, p1>>, T2 \o T1, TRUE), By(2, << >>, << >>, TRUE),
     [Single([p1 EXCEPT !.randomised = 1, !.crc = Crc(<<1, 3, 1>>)]) EXCEPT !.bytes = <<1, 3, 1>>],
     By(1, <<p3>>, <<1, 2>>, TRUE), Single([p1 EXCEPT !.count = @ + 2, !.selectors = @ \o <<0, 1, 0>>]),
     Wrong([p1 EXCEPT !.magic = <<1, 1, 1>>]), Wrong([p1 EXCEPT !.crc = (@ + 1) % 8]),
     Wrong([p1 EXCEPT !.origin = 3]), Wrong([p1 EXCEPT !.map = <<0, 0>>]),
     Wrong([p1 EXCEPT !.n = 1]), Wrong([p1 EXCEPT !.count = 0]),
     Wrong([p1 EXCEPT !.count = 1, !.selectors = <<0>>]),
     Wrong([p1 EXCEPT !.selectors = <<1, 1>> \o Tail(@)]),
     Wrong([p1 EXCEPT !.lengths = <<0, 0>> \o After(@, 2)]),
     Wrong([p1 EXCEPT !.lengths = <<1, 1, 1, 0>> \o After(@, 2)])})

(* Streams cut short, and with a sum or a symbol that does not fit.        *)
CutStreams(w1) == {Bad(SubSeq(w1, 1, n), IF n > 12 THEN T1 ELSE << >>) : n \in {0, 12, Len(w1) - 1}}
                  \cup {Bad(<<2, 2, 1>>, << >>), Bad(<<2, 3, 3>>, << >>), Bad(<<2, 3>>, << >>)}
SumStreams(p1) ==
    {Bad(BzBytes(Aligned(StreamBits(1, <<p1>>, 0))), T1)}
    \cup Written({Wrong([Parts(Copies(1, 7)) EXCEPT !.crc = 0])})

(* Streams in a row, and what is not one behind the end: the start of a    *)
(* magic number is taken before it turns out to be none.  A single stream  *)
(* leaves what is behind it, but for `late` bytes, which the last one here *)
(* is about.                                                               *)
InARow(w1, w2) ==
    {Sound(w1 \o w2, T1 \o T2), Followed(Sound(w1, T1), <<1>>, 0), Followed(Sound(w1, T1), BzMagic \o <<3>>, 2),
     Followed(Sound(w1, T1), <<2>>, 1), Bad(w1 \o BzMagic \o <<1, 3>>, T1)}
Alone(w1, w3) ==
    {Followed(Sound(w1, T1), w1, 0), Followed(Sound(w1, T1), <<1, 1>>, 0), Followed(Sound(w3, <<1, 2>>), <<1, 1>>, 0)}

(* Every part and every stream that others are made from is written once.  *)
StreamsOf(multi, p, w) ==
    BlockStreams(p[1], p[2], p[3]) \cup CutStreams(w[1]) \cup SumStreams(p[1])
    \cup (IF multi THEN InARow(w[1], w[2]) ELSE Alone(w[1], w[3]))

AllStreams ==
    CHOOSE all \in UNION {{[multi \in BOOLEAN |-> StreamsOf(multi, p, w)] :
                           w \in {[i \in 1..3 |-> StreamWire(<<1, 2, 1>>[i], <<p[i]>>)]}} :
                          p \in {<<Parts(<<1, 2, 1>>), Parts(<<3, 3, 0, 1>>), P3>>}} : TRUE

BzDecoders == {NewBzDecoder(multi) : multi \in BOOLEAN}
BzTexts == {<< >>, <<1, 2, 1, 2>>, <<3, 3, 3, 2, 2, 2>>}

-----------------------------------------------------------------------------
BcFresh ==
    IF Encoding THEN [NewBzEncoder(state.level) EXCEPT !.asked = state.asked]
    ELSE NewBzDecoder(state.multi)

BcInit ==
    /\ format = "bzip2"
    /\ \/ /\ given = "plain" /\ phase = "encode"
          /\ plain \in BzTexts /\ src = plain /\ state = NewBzEncoder(1)
       \/ /\ given = "any" /\ phase = "decode" /\ plain = << >>
          /\ state \in BzDecoders /\ \E s \in AllStreams[state.multi] : src = s.wire
    /\ pos = 0 /\ avail = 0 /\ room = 0
    /\ out = << >>
    /\ calling = FALSE

BcIn(p) == calling /\ format = "bzip2" /\ phase = p

BcCodec ==
    \/ BcIn("encode") /\ BzEncode
    \/ BcIn("flush") /\ BzFlush
    \/ BcIn("encode_finish") /\ BzFinish(NewBzDecoder(TRUE))
    \/ calling /\ format = "bzip2" /\ phase \in {"decode", "decode_finish"} /\ BzDecode

BcNext ==
    \/ \E cap \in BcRooms : (\E n \in BcChunks \cup {Len(src) - pos} : Call(n, cap)) \/ CallFinish(cap)
    \/ \E cap \in BcRooms : CallFlush("sync", cap, BcAsked)
    \/ BcCodec
    \/ Reset(BcFresh)

BcDecodes == RoundTrip

(* bzip2/decoder.rs 57-60 says that decode "returns `StreamEnd` as soon as *)
(* the stream's trailer is read and leaves every byte after it             *)
(* unconsumed".  It does, up to what it took while it waited with a block  *)
(* header (`late`).                                                        *)
BcFollows ==
    given = "any" =>
        \E s \in AllStreams[state.multi] :
            /\ s.wire = src /\ Follows(s)
            /\ LET end == Larger(s.used, state.late) IN phase = "ok" => pos \in end..(end + s.over)

BcOwes == Queued

-----------------------------------------------------------------------------
(* LZMA: texts with every kind of packet, parsed the greedy way or any     *)
(* other; and streams put together from packets no encoder would choose.   *)
Runs == <<1, 1, 2, 1, 1, 2, 2>>
Distant == <<1, 2, 3, 4, 5, 6, 7, 8, 9, 1, 2, 3, 9>>

LzTexts(greedy) ==
    IF greedy THEN {<< >>, Runs, Distant, <<15, 15, 15, 15, 15, 15, 15, 15, 15, 15>>, <<1, 2, 1, 3, 1, 2, 1, 2, 1, 3>>}
    ELSE {<< >>, <<1, 1, 1>>, <<1, 2, 1, 2>>, <<1, 1, 1, 2, 1, 1>>}
LzFramings == {<<FALSE, TRUE>>, <<TRUE, TRUE>>, <<TRUE, FALSE>>}

(* What a caller of ZIP's decoder may know of the entry.                   *)
LzDecodersFor(s) ==
    IF ~s.zip THEN {NewLzDecoder(FALSE, FALSE, Unknown)}
    ELSE {NewLzDecoder(TRUE, s.eos, Len(plain))}
         \cup (IF s.eos THEN {NewLzDecoder(TRUE, TRUE, Unknown)} ELSE {NewLzDecoder(TRUE, FALSE, Len(plain))})

(* Packets over what they stand for, with the header given.                *)
Lit(b) == [is |-> "literal", byte |-> b]
Match(d, n) == [is |-> "match", d |-> d, n |-> n]
Rep(i, n) == [is |-> "rep", i |-> i, n |-> n]
ShortRep == [is |-> "shortrep"]

RECURSIVE Played(_, _, _)
Played(text, reps, packets) ==
    IF packets = << >> THEN text
    ELSE LET p == Head(packets)
             next == CASE p.is = "match" -> WithDistance(reps, p.d)
                       [] p.is = "rep" -> RepToFront(reps, p.i)
                       [] OTHER -> reps
             n == IF p.is = "shortrep" THEN 1 ELSE p.n
             bytes == IF p.is = "literal" THEN <<p.byte>>
                      ELSE IF next[1] >= Len(text) THEN << >> ELSE Repeated(text, next[1], n)
         IN Played(text \o bytes, next, Tail(packets))

RECURSIVE EmitPackets(_, _, _)
EmitPackets(c, packets, text) ==
    IF packets = << >> THEN c
    ELSE LET p == Head(packets) IN
         EmitPackets(CASE p.is = "literal" -> EmitLiteral(c, text)
                       [] p.is = "match" -> EmitMatch(c, p.d, p.n)
                       [] p.is = "rep" -> EmitLongRep(c, p.i, p.n)
                       [] p.is = "shortrep" -> EmitShortRep(c), Tail(packets), text)

LzText(packets) == Played(<< >>, NewReps, packets)

Q1 == <<Lit(1), Lit(2), Match(1, 7), ShortRep, Lit(3), Rep(1, 3), Lit(9), Match(4, 2), Match(9, 3),
        Rep(3, 2), Rep(4, 5), Rep(2, 2), Match(6, 2), Match(11, 4), ShortRep, ShortRep>>
Q2 == <<Lit(4), Match(0, 5), Lit(5)>>

(* How a stream is made: its header's fields and packets, whether a marker *)
(* ends it, bytes changed, left off and added, and what comes of it.       *)
Whole(packets, size, eos, n) ==
    [lc |-> 1, lp |-> 0, pb |-> 1, dict |-> 15, size |-> size, packets |-> packets, eos |-> eos,
     patch |-> << >>, cut |-> 0, junk |-> << >>, ok |-> TRUE, n |-> n]
Broken(packets, size, eos, n) == [Whole(packets, size, eos, n) EXCEPT !.ok = FALSE]
Cut(r, cut) == [r EXCEPT !.cut = cut, !.ok = FALSE]
Patched(r, i, byte) == [r EXCEPT !.patch = i :> byte, !.ok = FALSE]

Made(r, zip) ==
    LET coded == EmitPackets(NewCore(r.lc, r.lp, r.pb), r.packets, LzText(r.packets))
        body == FlushCoder(IF r.eos THEN EmitEosMarker(coded) ELSE coded).bytes
        wire == r.patch @@ (Header(zip, PropsByte(r.lc, r.lp, r.pb), r.dict, r.size) \o body)
        stream == Stream(SubSeq(wire, 1, Len(wire) - r.cut), SubSeq(LzText(r.packets), 1, r.n), r.ok)
    IN Followed(stream, r.junk, IF zip THEN RequiredInput ELSE 0)

AloneStreams == {Made(r, FALSE) : r \in
    {Whole(Q1, NoSize, TRUE, 37), [Whole(Q1, NoSize, TRUE, 37) EXCEPT !.junk = <<1, 2, 3>>],
     Whole(Q2, 7, FALSE, 7), Whole(Q2, 4, FALSE, 4), Whole(Q2, 9, TRUE, 7), Whole(Q2, 0, FALSE, 0),
     [Whole(Q2, NoSize, TRUE, 7) EXCEPT !.lc = 0, !.lp = 1, !.pb = 0, !.dict = 3],
     Broken(Q2, NoSize, FALSE, 7), Cut(Whole(Q1, NoSize, TRUE, 37), 4),
     Broken(<<ShortRep>>, 3, FALSE, 0), Broken(<<Lit(1), Match(2, 3)>>, NoSize, TRUE, 1),
     Broken(<<Lit(1), Match(0, 2), Rep(2, 2), Match(7, 2)>>, NoSize, TRUE, 5),
     Broken(<<Rep(1, 2)>>, NoSize, TRUE, 0),
     [Broken(<<Lit(1), Match(0, 7), Match(4, 2)>>, NoSize, TRUE, 8) EXCEPT !.dict = 3],
     [Broken(Q1, NoSize, TRUE, 0) EXCEPT !.lp = 1, !.pb = 0],
     Patched(Whole(Q1, NoSize, TRUE, 0), 1, 8), Patched(Whole(Q1, NoSize, TRUE, 0), 5, 1),
     Cut(Whole(Q2, 0, FALSE, 0), 5), Cut(Whole(Q2, 0, FALSE, 0), 9)}}

(* An entry ends exactly, but for bytes of earlier calls.                  *)
Entry(eos) == [Whole(Q2, NoSize, eos, 7) EXCEPT !.dict = 0]
Trailed(r) == [r EXCEPT !.junk = <<0, 7>>]
Refused(r, n) == [r EXCEPT !.ok = FALSE, !.n = n]

ZipStreams(d) ==
    {Made(r, TRUE) : r \in
        CASE d.eos /\ d.size = Unknown ->
                 {Trailed(Entry(TRUE)), Refused(Entry(FALSE), 7), Refused(Patched(Entry(TRUE), 2, 1), 0)}
          [] d.eos /\ d.size = 7 -> {Trailed(Entry(TRUE)), Cut(Entry(TRUE), 2)}
          [] d.eos /\ d.size = 9 -> {Refused(Entry(TRUE), 7)}
          [] d.eos /\ d.size = 6 -> {Refused(Entry(TRUE), 6)}
          [] d.eos /\ d.size = 3 -> {Refused(Entry(TRUE), 1)}
          [] ~d.eos /\ d.size = 7 -> {Trailed(Entry(TRUE)), Trailed(Entry(FALSE)), Cut(Entry(FALSE), 1)}
          [] ~d.eos /\ d.size = 6 -> {Refused(Entry(FALSE), 6)}
          [] ~d.eos /\ d.size = 4 -> {Refused(Entry(FALSE), 7)}}

ZipDecoders ==
    {NewLzDecoder(TRUE, TRUE, n) : n \in {Unknown, 3, 6, 7, 9}} \cup {NewLzDecoder(TRUE, FALSE, n) : n \in {4, 6, 7}}
AloneDecoder == NewLzDecoder(FALSE, FALSE, Unknown)
LzStreams(d) == IF d.zip THEN ZipStreams(d) ELSE AloneStreams

LzInit ==
    /\ format = "lzma"
    /\ \/ /\ given = "plain" /\ phase = "encode"
          /\ \E greedy \in BOOLEAN, f \in LzFramings :
                 /\ plain \in LzTexts(greedy)
                 /\ state = NewLzEncoder(greedy, f[1], f[2])
          /\ src = plain
       \/ /\ given = "any" /\ phase = "decode" /\ plain = << >>
          /\ state \in {AloneDecoder} \cup ZipDecoders /\ \E s \in LzStreams(state) : src = s.wire
    /\ pos = 0 /\ avail = 0 /\ room = 0
    /\ out = << >>
    /\ calling = FALSE

LzFresh ==
    IF Encoding THEN [NewLzEncoder(state.greedy, state.zip, state.eos) EXCEPT !.asked = state.asked]
    ELSE NewLzDecoder(state.zip, state.eos, state.size)

LzIn(p) == calling /\ format = "lzma" /\ phase = p

LzNext ==
    \/ \E cap \in LzRooms : (\E n \in LzChunks \cup {Len(src) - pos} : Call(n, cap)) \/ CallFinish(cap)
    \/ \E cap \in LzRooms : CallFlush("sync", cap, BcAsked)
    \/ LzIn("encode") /\ LzEncode
    \/ LzIn("flush") /\ LzFlush
    \/ LzIn("encode_finish") /\ LzFinish(LzDecodersFor(state))
    \/ calling /\ format = "lzma" /\ phase \in {"decode", "decode_finish"} /\ LzDecode
    \/ Reset(LzFresh)

LzFollows ==
    given = "any" =>
        \E s \in LzStreams(state) :
            s.wire = src /\ Follows(s)
            /\ (phase = "ok" => pos \in s.used..(s.used + s.over) \/ ~state.zip)

-----------------------------------------------------------------------------
(* The entropy coders of Filters: texts with runs, a marker and few or     *)
(* many different bytes; and streams by hand.                              *)
EnFormats == {"huffman", "range", "squeeze", "reduce"}
EnTexts == {<< >>, <<7>>, <<1, 2, 1>>, <<3, 3, 3, 3, 3>>, <<1, 9, 2, 2, 2, 9, 1, 0, 4>>,
            <<0, 1, 2, 3, 5, 6, 7, 8, 0, 0>>, Copies(6, 17)}

Pair12 == <<0, 1, 1, 12, 6>>   \* codes of one bit for 1 and 2
HuffmanStreams ==
    {Sound(<<0>>, << >>), Sound(<<8, 8, 2>>, << >>), Sound(<<3>> \o Pair12 \o <<4>>, <<1, 2, 1>>),
     Sound(<<9, 1>> \o Pair12 \o <<0, 0, 0>>, Copies(1, 9)), Sound(<<3, 12, 0, 1, 12, 1, 5>>, Copies(7, 3)),
     Sound(<<2, 13, 3, 1, 12, 1, 2, 8>>, <<1, 2>>), Sound(<<2, 15, 3, 3, 12, 1, 2, 8>>, <<1, 2>>),
     Sound(<<3, 9, 12, 5, 1, 8>>, <<0, 1, 2>>), Sound(<<3, 14, 0, 1, 1, 12, 4, 4>>, <<3, 4, 3>>)}
    \cup {Bad(w, << >>) : w \in
        {<< >>, <<8>>, <<8, 8, 8, 0>>, <<3, 12>>, <<3, 13, 1>>, <<3, 0>>, <<3, 12, 15>>, <<3, 13, 0, 0>>, <<3, 13, 4, 0>>,
         <<3, 12, 0, 2, 12, 1, 5>>, <<3, 0, 1, 2, 12, 6, 4>>, <<3, 0, 1, 1, 1, 12, 5, 0>>, <<1, 12, 9, 0>>,
         <<5>> \o Pair12 \o <<4>>, <<3, 0, 1, 2, 2, 12, 5, 10>>, <<3, 12, 8, 14, 15>>}}

RangeStreams ==
    {Sound(<<0, 0>>, << >>), Sound(<<1, 0, 5, 0, 0, 0, 9>>, <<0>>)}
    \cup {Bad(w, << >>) : w \in {<<0>>, <<0, 0, 1>>, <<15, 15, 0, 0, 0, 0>>, <<1, 0, 0, 0, 0>>, <<1, 0, 5, 0, 0, 0>>}}

(* A tree with a leaf for 2 and the end, and one with 2, the marker and    *)
(* the end; a marker right before the end has no count.                    *)
OneNode == <<1, 0, 13, 15, 15, 14>>
TwoNodes == <<2, 0, 1, 0, 15, 14, 13, 15, 6, 15>>
SqueezeStreams ==
    {Sound(<<0, 0>>, << >>), Sound(OneNode \o <<4>>, <<2, 2>>), Sound(<<1, 0, 0, 0, 15, 14, 4>>, << >>),
     Sound(TwoNodes \o <<8, 4>>, <<2, 2>>), Sound(TwoNodes \o <<8, 6>>, Copies(2, 9)),
     Bad(OneNode \o <<0>>, Copies(2, 4)), Bad(OneNode \o <<0, 0>>, Copies(2, 8)),
     Bad(TwoNodes \o <<8, 1>>, <<2>>)}
    \cup {Bad(w, << >>) : w \in {<<1>>, <<3, 2>>, <<1, 0, 0, 0>>, <<1, 0, 1, 0, 15, 14>>, <<1, 0, 13, 15, 14, 14>>,
                                 TwoNodes \o <<2>>}}

(* Bodies without followers are bytes; with some for 0, they are bits.     *)
NoFollowers == Copies(0, 12)
Entries(f, n, body) == <<f, n % 16, n \div 16>> \o NoFollowers \o body
Number3(n) == <<n % 2, (n \div 2) % 2, n \div 4>>
Followed0(bytes, bits) == PackedLow(Copies(0, 45) \o Number3(Len(bytes)) \o LowFirst(bytes) \o bits)
ReduceBodies ==
    {Sound(Entries(1, 3, <<1, 2, 3>>), <<1, 2, 3>>), Sound(Entries(1, 0, << >>), << >>),
     Sound(Entries(1, 1, <<9, 0>>), <<9>>), Sound(Entries(1, 5, <<5, 9, 1, 0>>), Copies(5, 5)),
     Sound(Entries(1, 13, <<5, 9, 7, 2, 0>>), Copies(5, 13)), Sound(Entries(1, 5, <<5, 9, 1, 2>>), <<5, 0, 0, 5, 0>>),
     Sound(Entries(1, 5, <<5, 9, 9, 0>>), <<5, 0, 0, 0, 0>>), Sound(Entries(2, 9, <<5, 9, 3, 2, 0>>), Copies(5, 9)),
     Sound(Entries(1, 76, <<5, 9, 7, 15, 0, 9, 7, 15, 0, 9, 7, 15, 0>>), Copies(5, 76)),
     Bad(Entries(1, 4, <<5, 9, 1, 0>>), <<5>>), Bad(Entries(1, 3, <<1>>), <<1>>)}
    \cup {Bad(Entries(1, 20, <<5>> \o w), <<5>>) : w \in {<<9>>, <<9, 1>>, <<9, 7>>, <<9, 7, 2>>}}
    \cup {Bad(w, << >>) : w \in {<<0, 1, 0>>, <<3, 1, 0>>, <<1, 1>>, SubSeq(Entries(1, 1, <<1>>), 1, 14),
                                 <<1, 1, 0>> \o PackedLow(<<1, 0, 1>> \o Copies(0, 60))}}
    \cup {Sound(<<1, 3, 0>> \o Followed0(<<1, 2>>, <<0, 0, 0, 0, 0, 0, 1, 0, 1, 0, 0>>), <<1, 0, 2>>),
          Bad(<<1, 3, 0>> \o Followed0(<<1, 2, 3>>, <<0, 1, 1>>), << >>),
          Bad(<<1, 3, 0>> \o Followed0(<<1, 2, 3>>, << >>), << >>),
          Bad(SubSeq(<<1, 3, 0>> \o Followed0(<<1, 2, 3>>, << >>), 1, 16), << >>),
          Sound(<<1, 1, 0>> \o Followed0(<<6>>, <<0, 0>>), <<6>>)}
RawBodies == {Sound(NoFollowers \o <<1, 2, 3>>, <<1, 2, 3>>), Bad(NoFollowers \o <<1>>, <<1>>)}

EnStreams(d) ==
    CASE format = "huffman" -> HuffmanStreams
      [] format = "range" -> RangeStreams
      [] format = "squeeze" -> SqueezeStreams
      [] format = "reduce" -> IF d.raw = << >> THEN ReduceBodies ELSE RawBodies

EnDecoder == IF format = "squeeze" THEN NewSqueezeDecoder ELSE NewGatherer

EnInit ==
    /\ format \in EnFormats
    /\ \/ /\ given = "plain" /\ phase = "encode" /\ format # "reduce"
          /\ plain \in EnTexts /\ src = plain /\ state = NewGatherer
       \/ /\ given = "any" /\ phase = "decode" /\ plain = << >>
          /\ state \in (IF format = "reduce" THEN {NewReducer(<< >>), NewReducer(<<1, 3>>)} ELSE {EnDecoder})
          /\ \E s \in EnStreams(state) : src = s.wire
    /\ pos = 0 /\ avail = 0 /\ room = 0
    /\ out = << >>
    /\ calling = FALSE

EnFresh == IF Encoding THEN NewGatherer ELSE IF format = "reduce" THEN NewReducer(state.raw) ELSE EnDecoder

EnIn(f, p) == calling /\ format = f /\ phase = p

EnCodec ==
    \/ calling /\ format \in EnFormats /\ phase = "encode" /\ Collect
    \/ calling /\ format \in {"huffman", "range"} /\ phase = "decode" /\ Collect
    \/ EnIn("huffman", "encode_finish") /\ HuffmanEncodeFinish(NewGatherer)
    \/ EnIn("huffman", "decode_finish") /\ HuffmanDecodeFinish
    \/ EnIn("range", "encode_finish") /\ RangeEncodeFinish(NewGatherer)
    \/ EnIn("range", "decode_finish") /\ RangeDecodeFinish
    \/ EnIn("squeeze", "encode_finish") /\ SqueezeEncodeFinish(NewSqueezeDecoder)
    \/ EnIn("squeeze", "decode") /\ SqueezeDecode
    \/ EnIn("squeeze", "decode_finish") /\ SqueezeDecodeFinish
    \/ calling /\ format = "reduce" /\ phase \in {"decode", "decode_finish"} /\ ReduceDecode

EnNext ==
    \/ \E cap \in LzRooms : (\E n \in LzChunks \cup {Len(src) - pos} : Call(n, cap)) \/ CallFinish(cap)
    \/ EnCodec
    \/ Reset(EnFresh)

EnOwes == format \in {"squeeze", "reduce"} /\ phase = "decode" /\ state.pending # << >>

(* arc_squeeze/mod.rs 785 says of the end of a stream that "a dangling RLE *)
(* flag (0x90 with no count) at true EOF is malformed".  raw_finish does   *)
(* refuse it, but raw_decode ends the same stream without a look at the    *)
(* marker (728-731), if it is the one that comes to the end of the codes.  *)
MarkerMissed == format = "squeeze" /\ phase = "ok" /\ state.waiting

(* They take all they are given.                                           *)
EnFollows ==
    given = "any" =>
        \E s \in EnStreams(state) :
            /\ s.wire = src
            /\ IF MarkerMissed THEN ~s.ok /\ out = s.bytes ELSE Follows(s)
            /\ phase = "ok" => pos = avail

-----------------------------------------------------------------------------
(* The filters: texts with instructions of each machine, one over another, *)
(* near the end of the addresses as well; and streams by hand.             *)
FiFormats == {"delta", "mtf", "bwt", "bcj", "bcj2"}
FiTexts == {<< >>, <<7>>, <<1, 2, 1>>, <<3, 3, 3, 3, 3, 3>>, <<1, 15, 2, 0, 2, 9, 1, 0, 4>>}

X86Texts == {t \o u : t \in SeqOf({0, 8, 15}, 4), u \in {<< >>, <<9, 0, 0, 8, 15, 0, 3>>}}
WordsOf(arch) ==
    CASE arch = "arm" -> {<<1, 2, 3, 11>>, <<15, 15, 15, 11>>, <<1, 2, 11, 3>>}
      [] arch = "ppc" -> {<<4, 0, 1, 5>>, <<7, 15, 15, 13>>, <<4, 0, 1, 6>>, <<8, 0, 1, 5>>}
      [] arch = "sparc" -> {<<4, 0, 0, 5>>, <<7, 15, 15, 15>>, <<7, 0, 0, 0>>, <<4, 12, 0, 0>>, <<5, 0, 0, 0>>}
      [] arch = "arm64" -> {<<5, 0, 4, 9>>, <<15, 15, 7, 9>>, <<1, 0, 0, 11>>, <<3, 15, 1, 13>>, <<13, 15, 3, 15>>,
                            <<0, 0, 0, 1>>}
      [] arch = "thumb" -> {<<3, 8, 3, 12>>, <<15, 11, 15, 15>>, <<0, 8, 0, 8>>, <<1, 12>>, <<3, 8>>}
Archs == {"x86", "arm", "ppc", "sparc", "arm64", "thumb"}
BcjTexts(arch) ==
    IF arch = "x86" THEN X86Texts
    ELSE {u \o v \o t : u \in WordsOf(arch), v \in WordsOf(arch), t \in {<< >>, <<11, 9>>}}
Starts == {0, Address - 8}

FiEncoders ==
    CASE format = "delta" -> {NewDelta(d) : d \in {1, 3, 4}}
      [] format = "mtf" -> {NewMtf}
      [] format = "bwt" -> {BwtGatherer(n) : n \in {2, 6}}
      [] format = "bcj" -> {NewBcj(arch, from, TRUE) : arch \in Archs, from \in Starts}
      [] format = "bcj2" -> {NewGatherer}
TextsFor(e) ==
    IF format = "bcj2" THEN X86Texts \cup {<<15, 5, 1, 2, 3, 4, 15, 5>>}
    ELSE IF format = "bcj" THEN BcjTexts(e.arch) ELSE FiTexts

FiDecoders ==
    CASE format = "delta" -> {NewDelta(d) : d \in {0, 1, 3, MaxDistance + 1}}
      [] format = "mtf" -> {NewMtf}
      [] format = "bwt" -> {BwtGatherer(0)}
      [] format = "bcj" -> {NewBcj(arch, 0, FALSE) : arch \in Archs}
      [] format = "bcj2" -> {NewGatherer}

DeltaStreams(d) ==
    IF d = 1 THEN {Sound(<<1, 1, 15>>, <<1, 2, 1>>), Sound(<< >>, << >>)}
    ELSE IF d = 3 THEN {Sound(<<1, 2, 3, 1, 1, 1, 2>>, <<1, 2, 3, 2, 3, 4, 4>>)}
    ELSE {Bad(<< >>, << >>), Bad(<<1>>, << >>)}

BwtStreams ==
    {Sound(<< >>, << >>), Sound(<<3, 0, 1, 0, 2, 1, 1>>, <<1, 2, 1>>), Sound(<<1, 0, 0, 0, 5, 1, 0, 0, 0, 6>>, <<5, 6>>)}
    \cup {Bad(w, << >>) : w \in {<<1, 0, 0>>, <<0, 0, 0, 0>>, <<1, 0, 1, 0, 5>>, <<2, 0, 0, 0, 5>>, <<1, 0, 0, 0, 5, 1>>}}

BcjStreams(arch) ==
    CASE arch = "x86" -> {Sound(<<8, 10, 0, 0, 0>>, <<8, 5, 0, 0, 0>>), Sound(<<8, 10, 0, 0, 1>>, <<8, 10, 0, 0, 1>>)}
      [] arch = "arm" -> {Sound(<<3, 0, 0, 11>>, <<1, 0, 0, 11>>), Sound(<<3, 0, 11>>, <<3, 0, 11>>)}
      [] arch = "ppc" -> {Sound(<<4, 0, 1, 5, 4, 0, 1, 5>>, <<4, 0, 1, 5, 4, 0, 1, 1>>)}
      [] arch = "sparc" -> {Sound(<<4, 0, 0, 5, 4, 0, 0, 0>>, <<4, 0, 0, 5, 7, 15, 15, 15>>)}
      [] arch = "arm64" -> {Sound(<<0, 0, 1, 9, 5, 0, 4, 9, 0, 0, 0, 13>>, <<0, 0, 1, 9, 4, 0, 4, 9, 0, 0, 0, 9>>)}
      [] arch = "thumb" -> {Sound(<<3, 8, 3, 12>>, <<3, 8, 1, 12>>)}

(* The streams of BCJ2: how much they make, what is in them.               *)
Four(n, main, call, jump, rc) ==
    FlattenSeq([i \in 1..4 |-> TwoBytes(<<n, Len(main), Len(call), Len(jump)>>[i])]) \o main \o call \o jump \o rc
Bcj2Streams ==
    {Sound(Four(1, <<1>>, << >>, << >>, Copies(0, 4)), <<1>>),
     Sound(Four(5, <<8>>, <<0, 0, 0, 6>>, << >>, <<0, 15, 15, 14>>), <<8, 1, 0, 0, 0>>)}
    \cup {Bad(w, << >>) : w \in
        {Four(2, <<1>>, << >>, << >>, Copies(0, 4)), Four(1, <<1>>, << >>, << >>, Copies(0, 3)),
         Four(1, <<1>>, << >>, << >>, <<1, 0, 0, 0>>), Four(4, <<8>>, <<0, 0, 0, 6>>, << >>, <<0, 15, 15, 14>>),
         Four(5, <<8, 1, 1>>, <<0, 0>>, << >>, <<0, 15, 15, 14>>), Four(2, <<1>>, <<0, 0, 0, 6>>, << >>, Copies(0, 4)),
         Four(30, Copies(9, 30), << >>, << >>, Copies(0, 4))}}

FiStreams(d) ==
    CASE format = "delta" -> DeltaStreams(d.dist)
      [] format = "mtf" -> {Sound(<<1, 1, 0, 2>>, <<1, 0, 0, 2>>)}
      [] format = "bwt" -> BwtStreams
      [] format = "bcj" -> BcjStreams(d.arch)
      [] format = "bcj2" -> Bcj2Streams

FiInit ==
    /\ format \in FiFormats
    /\ \/ /\ given = "plain" /\ phase = "encode"
          /\ state \in FiEncoders /\ plain \in TextsFor(state) /\ src = plain
       \/ /\ given = "any" /\ phase = "decode" /\ plain = << >>
          /\ state \in FiDecoders
          /\ \/ \E s \in FiStreams(state) : src = s.wire
             \/ format = "bcj" /\ src \in TextsFor(state)
    /\ pos = 0 /\ avail = 0 /\ room = 0
    /\ out = << >>
    /\ calling = FALSE

FiFresh ==
    CASE format = "delta" -> NewDelta(state.dist)
      [] format = "mtf" -> NewMtf
      [] format = "bwt" -> BwtGatherer(state.size)
      [] format = "bcj" -> NewBcj(state.arch, state.start, state.encode)
      [] format = "bcj2" -> NewGatherer

FiIn(f, p) == calling /\ format = f /\ phase = p

FiCodec ==
    \/ FiIn("delta", "encode") /\ DeltaEncode
    \/ FiIn("delta", "encode_finish") /\ DeltaEncodeFinish
    \/ FiIn("delta", "decode") /\ DeltaDecode
    \/ FiIn("delta", "decode_finish") /\ DeltaDecodeFinish
    \/ FiIn("mtf", "encode") /\ MtfEncode
    \/ FiIn("mtf", "encode_finish") /\ MtfEncodeFinish
    \/ FiIn("mtf", "decode") /\ MtfDecode
    \/ FiIn("mtf", "decode_finish") /\ MtfDecodeFinish
    \/ calling /\ format \in {"bwt", "bcj2"} /\ phase \in {"encode", "decode"} /\ Collect
    \/ FiIn("bwt", "encode_finish") /\ BwtEncodeFinish
    \/ FiIn("bwt", "decode_finish") /\ BwtDecodeFinish
    \/ calling /\ format = "bcj" /\ phase \in {"encode", "decode"} /\ BcjStep
    \/ FiIn("bcj", "encode_finish") /\ BcjEncodeFinish
    \/ FiIn("bcj", "decode_finish") /\ BcjDecodeFinish
    \/ FiIn("bcj2", "encode_finish") /\ Bcj2EncodeFinish
    \/ FiIn("bcj2", "decode_finish") /\ Bcj2DecodeFinish

FiNext ==
    \/ \E cap \in LzRooms \cup {0} : (\E n \in LzChunks \cup {Len(src) - pos} : Call(n, cap)) \/ CallFinish(cap)
    \/ FiCodec
    \/ Reset(FiFresh)

(* The converters make of all the bytes at once what the engine makes of   *)
(* them piece by piece.                                                    *)
AtOnce(s, bytes) == WithTail(ConvertHold([NewBcj(s.arch, s.start, s.encode) EXCEPT !.hold = bytes])).pending

FiFollows ==
    given = "any" =>
        /\ format = "bcj" => Follows(Sound(src, AtOnce(state, src)))
        /\ \A s \in FiStreams(state) : s.wire = src => Follows(s)

-----------------------------------------------------------------------------
L == INSTANCE MCLzw WITH Chunks <- LzwChunks, Rooms <- LzwRooms, MaxWire <- LzwMaxWire

Formats == {"rle", "packbits", "rle90"}
Lzw == format \in L!Formats
Blocks == format \in BlockFormats

NewEncoder ==
    CASE format = "rle" -> RleNewEncoder
      [] format = "packbits" -> PackNewEncoder
      [] format = "rle90" -> MarkerNewEncoder

NewDecoder ==
    CASE format = "rle" -> RleNewDecoder
      [] format = "packbits" -> PackNewDecoder
      [] format = "rle90" -> MarkerNewDecoder

RunLengthInit ==
    /\ format \in Formats
    /\ \/ /\ given = "plain"
          /\ phase = "encode"
          /\ plain \in SeqOf(PlainBytes, MaxPlain)
          /\ src = plain
          /\ state = NewEncoder
       \/ /\ given = "any"
          /\ phase = "decode"
          /\ plain = << >>
          /\ src \in SeqOf(WireBytes, MaxWire)
          /\ state = NewDecoder
    /\ pos = 0 /\ avail = 0 /\ room = 0
    /\ out = << >>
    /\ calling = FALSE

Init == RunLengthInit \/ L!Init \/ BcInit \/ LzInit \/ EnInit \/ FiInit

In(f, p) == calling /\ format = f /\ phase = p

Codec ==
    \/ In("rle", "encode") /\ RleEncode
    \/ In("rle", "encode_finish") /\ RleEncodeFinish
    \/ In("rle", "decode") /\ RleDecode
    \/ In("rle", "decode_finish") /\ RleDecodeFinish
    \/ In("packbits", "encode") /\ PackEncode
    \/ In("packbits", "encode_finish") /\ PackEncodeFinish
    \/ In("packbits", "decode") /\ PackDecode
    \/ In("packbits", "decode_finish") /\ PackDecodeFinish
    \/ In("rle90", "encode") /\ MarkerEncode
    \/ In("rle90", "encode_finish") /\ MarkerEncodeFinish
    \/ In("rle90", "decode") /\ MarkerDecode
    \/ In("rle90", "decode_finish") /\ MarkerDecodeFinish

Next ==
    \/ format \in Formats /\ Caller
    \/ Codec
    \/ Lzw /\ L!Next
    \/ Blocks /\ BcNext
    \/ format = "lzma" /\ LzNext
    \/ format \in EnFormats /\ EnNext
    \/ format \in FiFormats /\ FiNext
    \/ format \in Formats /\ Reset(IF phase \in {"encode", "encode_finish"} THEN NewEncoder ELSE NewDecoder)

Spec == Init /\ [][Next]_vars

-----------------------------------------------------------------------------
(* What was encoded comes back however raw_encode, raw_finish and          *)
(* raw_decode are cut into calls, and after a reset as well; see MCLzw for *)
(* the one cut that .Z does not survive.                                   *)
DecodesToPlain == IF Lzw THEN L!DecodesToPlain ELSE RoundTrip

RunMeaning ==
    CASE format = "rle" -> RleMeaning(src)
      [] format = "packbits" -> PackMeaning(src)
      [] format = "rle90" -> MarkerMeaning(src)

(* Over any bytes raw_decode and raw_finish do what the format's           *)
(* description says.  Cutting the calls differently changes it only as     *)
(* four exceptions say, each where the code departs from what it claims:   *)
(* MarkerMissed, `late` in BcFollows and, in MCLzw, CodesLeft and Forgot.  *)
(* TLC refutes the property without any one of them.                       *)
FollowsFormat ==
    /\ Lzw => L!FollowsFormat
    /\ Blocks => BcFollows
    /\ format = "lzma" => LzFollows
    /\ format \in EnFormats => EnFollows
    /\ format \in FiFormats => FiFollows
    /\ format \in Formats => \A meant \in {RunMeaning} : Follows(meant)

Owes ==
    CASE format = "rle" -> RleOwes
      [] format = "packbits" -> PackOwes
      [] format = "rle90" -> MarkerOwes
      [] Lzw -> L!LzwOwes
      [] Blocks -> BcOwes
      [] format = "lzma" -> FALSE
      [] format \in EnFormats -> EnOwes
      [] format \in FiFormats -> FALSE

(* The bridge of traits.rs derives Status from `consumed` and `written`    *)
(* alone, so a call must stop for the reasons it takes for granted; Shrink *)
(* does not where StagingWasFull.                                          *)
StopsForRoom == [][StopsOnlyForRoom(Owes) \/ (Lzw /\ L!StagingWasFull)]_vars
=============================================================================
