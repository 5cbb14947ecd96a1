------------------------------ MODULE Filters -------------------------------
(***************************************************************************)
(* Entropy coders: the canonical Huffman codec, the range coder and ARC's  *)
(* Squeeze, which gather their input and write at the end, and the decoder *)
(* of PKZIP's Reduce.  Then the transforms that make bytes easier to       *)
(* compress: delta, move to front, the Burrows-Wheeler transform of bwt/,  *)
(* the branch converters of bcj/ and BCJ2's split into four streams.       *)
(* Bytes have the four bits of Lzma's, whose range coder works here as     *)
(* well; an address has four of them.                                      *)
(***************************************************************************)
EXTENDS Bzip2, Lzma

LongestCode == 3        \* MAX_CODE_LEN: 15
LengthRadix == 4      \* a nibble of a length table's command
ShortMin == 3
LongMin == 7          \* 19
LongZeros == 12         \* 0xF0
LengthRun == 13       \* 0xF1
ShortZeros == 14      \* 0xF2
VarintBits == 7       \* 64
VarintRadix == 8      \* 128
Marker == 9           \* RLE_FLAG, DLE_BYTE: 0x90
Spared == 8           \* output a payload of nothing may claim: 1024
PerByte == 4          \* and what each byte of it adds: 256
EmitMost == 4         \* bytes Squeeze decodes ahead: 16 KiB
MaxNodes == 2 * (SymTop + 1)
FactorMost == 2       \* 4
SetCountBits == 3        \* 6
FollowersMost == 4    \* 32
Ahead == 20           \* buffer_ahead: four times the longest distance

TwoBytes(n) == <<n % SymTop, n \div SymTop>>
NewGatherer == [raw |-> << >>, pending |-> << >>, finished |-> FALSE]
NoMeaning == [ok |-> FALSE]
Meaning(bytes) == [ok |-> TRUE, out |-> bytes]

(* Bits of bytes, highest or lowest first, and back with zeros to the end. *)
HighFirst(bytes) == [k \in 1..(SymBits * Len(bytes)) |->
    BitOf(bytes[((k - 1) \div SymBits) + 1], SymBits - 1 - ((k - 1) % SymBits))]
LowFirst(bytes) == [k \in 1..(SymBits * Len(bytes)) |->
    BitOf(bytes[((k - 1) \div SymBits) + 1], (k - 1) % SymBits)]

Padded(bits) == bits \o Copies(0, (SymBits - (Len(bits) % SymBits)) % SymBits)
NumberFrom(bits, at, n) == FoldRight(LAMBDA b, v : b + 2 * v, SubSeq(bits, at + 1, at + n), 0)
PackedLow(bits) ==
    LET all == Padded(bits) IN
    [k \in 1..(Len(all) \div SymBits) |-> NumberFrom(all, (k - 1) * SymBits, SymBits)]
PackedHigh(bits) ==
    LET all == Padded(bits) IN
    [k \in 1..(Len(all) \div SymBits) |-> NumberFrom(Reverse(SubSeq(all, (k - 1) * SymBits + 1, k * SymBits)), 0, SymBits)]

Often(bytes) == [b \in {bytes[i] : i \in DOMAIN bytes} |-> Cardinality({i \in DOMAIN bytes : bytes[i] = b})]

-----------------------------------------------------------------------------
(* The Huffman codec (huffman_codec/): the length, the lengths of the      *)
(* codes in commands of runs, the codes.                                   *)
RECURSIVE WriteLength(_)
WriteLength(v) == IF v < VarintRadix THEN <<v>> ELSE <<VarintRadix + (v % VarintRadix)>> \o WriteLength(v \div VarintRadix)

(* Bits beyond the width are lost.                                         *)
RECURSIVE ReadLength(_, _, _)
ReadLength(s, i, v) ==
    IF i >= Len(s) \/ 3 * i >= VarintBits THEN NoMeaning
    ELSE LET sum == (v + (s[i + 1] % VarintRadix) * VarintRadix^i) % 2^VarintBits IN
         IF s[i + 1] < VarintRadix THEN [ok |-> TRUE, n |-> sum, used |-> i + 1] ELSE ReadLength(s, i + 1, sum)

EmitShort(v, n) ==
    IF n < ShortMin \/ v = LongestCode THEN Copies(v, n)
    ELSE IF v = 0 THEN <<ShortZeros, n - ShortMin>>
    ELSE <<LengthRadix * v + n - ShortMin>>

RECURSIVE EmitRun(_, _)
EmitRun(v, n) ==
    IF n < LongMin THEN EmitShort(v, n)
    ELSE LET k == Smaller(n - LongMin, SymTop - 1) IN
         (IF v = 0 THEN <<LongZeros, k>> ELSE <<LengthRun, v, k>>) \o EmitRun(v, n - LongMin - k)

RECURSIVE EncodeLengths(_)
EncodeLengths(lengths) ==
    IF lengths = << >> THEN << >>
    ELSE LET n == CHOOSE n \in DOMAIN lengths :
                      /\ \A i \in 1..n : lengths[i] = lengths[1]
                      /\ n < Len(lengths) => lengths[n + 1] # lengths[1]
         IN EmitRun(lengths[1], n) \o EncodeLengths(After(lengths, n))

(* A command: how many of which length, and the bytes it takes.            *)
Command(s) ==
    CASE s[1] < LengthRadix -> [n |-> 1, v |-> s[1], used |-> 1]
      [] s[1] = LengthRun -> [n |-> s[3] + LongMin, v |-> s[2], used |-> 3]
      [] s[1] = LongZeros -> [n |-> s[2] + LongMin, v |-> 0, used |-> 2]
      [] s[1] = ShortZeros -> [n |-> s[2] + ShortMin, v |-> 0, used |-> 2]
      [] OTHER -> [n |-> (s[1] % LengthRadix) + ShortMin, v |-> s[1] \div LengthRadix, used |-> 1]

CommandLength(c) == IF c = LengthRun THEN 3 ELSE IF c \in {LongZeros, ShortZeros} THEN 2 ELSE 1

RECURSIVE DecodeLengths(_, _)
DecodeLengths(s, lengths) ==
    IF Len(lengths) = SymTop THEN [ok |-> TRUE, lengths |-> lengths, rest |-> s]
    ELSE IF s = << >> THEN NoMeaning
    ELSE IF Len(s) < CommandLength(s[1]) THEN NoMeaning
    ELSE LET c == Command(s) IN
         IF \/ Len(lengths) + c.n > SymTop
            \/ s[1] = LengthRun /\ c.v \notin 1..LongestCode THEN NoMeaning
         ELSE DecodeLengths(After(s, c.used), lengths \o Copies(c.v, c.n))

(* Codes that leave nothing over; package-merge finds some of the cheapest.*)
Present(lengths) == {s \in 0..(SymTop - 1) : lengths[s + 1] > 0}
Weight(lengths) == MapThenSumSet(LAMBDA s : 2^(LongestCode - lengths[s + 1]), Present(lengths))

LengthLimited(often) ==
    LET used == DOMAIN often
        table(f) == [i \in 1..SymTop |-> IF i - 1 \in used THEN f[i - 1] ELSE 0]
        cost(f) == MapThenSumSet(LAMBDA s : often[s] * f[s], used)
        full == {f \in [used -> 1..LongestCode] : Weight(table(f)) = 2^LongestCode}
    IN IF Cardinality(used) = 1 THEN {table([s \in used |-> 1])}
       ELSE {table(f) : f \in {f \in full : \A g \in full : cost(f) <= cost(g)}}

(* Codes are numbered by their length, then by their symbol.               *)
CanonicalCode(lengths, s) ==
    LET n == lengths[s + 1]
        ahead == {t \in Present(lengths) : lengths[t + 1] < n \/ (lengths[t + 1] = n /\ t < s)}
        v == MapThenSumSet(LAMBDA t : 2^(n - lengths[t + 1]), ahead)
    IN [i \in 1..n |-> BitOf(v, n - i)]

CanonicalTable(lengths) == [s \in Present(lengths) |-> CanonicalCode(lengths, s)]

EncodeStream(bytes) ==
    IF bytes = << >> THEN {WriteLength(0)}
    ELSE {WriteLength(Len(bytes)) \o EncodeLengths(lengths)
          \o PackedHigh(FlattenSeq([i \in DOMAIN bytes |-> CanonicalCode(lengths, bytes[i])]))
          : lengths \in LengthLimited(Often(bytes))}

RECURSIVE DecodedSymbols(_, _, _, _)
DecodedSymbols(codes, bits, n, made) ==
    IF n = 0 THEN Meaning(made)
    ELSE LET s == CHOOSE s \in DOMAIN codes : IsPrefix(codes[s], bits \o Copies(0, LongestCode)) IN
         IF Len(codes[s]) > Len(bits) THEN NoMeaning
         ELSE DecodedSymbols(codes, After(bits, Len(codes[s])), n - 1, Append(made, s))

(* A single symbol has a code of one bit, whatever the bits are.           *)
DecodeCodes(lengths, rest, n) ==
    LET used == Present(lengths) IN
    IF used = {} THEN NoMeaning
    ELSE IF Cardinality(used) = 1 /\ Weight(lengths) # 2^(LongestCode - 1) THEN NoMeaning
    ELSE IF Cardinality(used) > 1 /\ Weight(lengths) # 2^LongestCode THEN NoMeaning
    ELSE IF n > SymBits * Len(rest) THEN NoMeaning
    ELSE IF Cardinality(used) = 1 THEN Meaning(Copies(CHOOSE s \in used : TRUE, n))
    ELSE DecodedSymbols(CanonicalTable(lengths), HighFirst(rest), n, << >>)

DecodeStream(s) ==
    LET length == ReadLength(s, 0, 0) IN
    IF ~length.ok THEN NoMeaning
    ELSE IF length.n = 0 THEN Meaning(<< >>)
    ELSE LET table == DecodeLengths(After(s, length.used), << >>) IN
         IF table.ok THEN DecodeCodes(table.lengths, table.rest, length.n) ELSE NoMeaning

HuffmanBuilt(s) == {[s EXCEPT !.pending = w] : w \in EncodeStream(s.raw)}
HuffmanEncodeFinish(newDecoder) == CollectedFinish(HuffmanBuilt, newDecoder)
HuffmanDecodeFinish == CollectedDecodeFinish(DecodeStream)

-----------------------------------------------------------------------------
(* The range coder (rangecoder/): the length, then every byte down a tree  *)
(* of adaptive bits; the decoder takes zeros for what is not there, and    *)
(* refuses the byte it needed them for.                                    *)
EncodeAll(bytes) ==
    LET steps == FlattenSeq([i \in DOMAIN bytes |-> TreeSteps(<<"byte">>, SymBits, bytes[i])]) IN
    TwoBytes(Len(bytes))
    \o (IF bytes = << >> THEN << >> ELSE FlushCoder(EncodeSteps(NewCore(0, 0, 0), steps)).bytes)

RangeBuilt(s) == {[s EXCEPT !.pending = EncodeAll(s.raw)]}

Refilled(d) ==
    IF d.short \/ d.range >= TopValue THEN d
    ELSE IF d.rest = << >> THEN [d EXCEPT !.short = TRUE]
    ELSE [d EXCEPT !.range = @ * SymTop, !.code = @ * SymTop + Head(d.rest), !.rest = Tail(@)]

TreeBit(d, key) == Refilled(BitBelow(d, key, (d.range \div 2^ModelBits) * Prob(d.probs, key)))

RECURSIVE TreeByte(_, _)
TreeByte(d, node) ==
    IF node >= SymTop THEN [d EXCEPT !.value = node - SymTop]
    ELSE LET e == TreeBit(d, <<"byte", node>>) IN TreeByte(e, 2 * node + e.bit)

RECURSIVE DecodeBytes(_, _, _)
DecodeBytes(d, n, made) ==
    IF n = 0 THEN Meaning(made)
    ELSE LET e == TreeByte(d, 1) IN
         IF e.short THEN NoMeaning ELSE DecodeBytes(e, n - 1, Append(made, e.value))

DecodeAll(s) ==
    LET n == s[1] + SymTop * s[2]
        body == After(s, 2)
    IN IF Len(s) < 2 THEN NoMeaning
       ELSE IF n = 0 THEN (IF body = << >> THEN Meaning(<< >>) ELSE NoMeaning)
       ELSE IF n > PerByte * Len(body) + Spared \/ Len(body) < CodeBytes THEN NoMeaning
       ELSE DecodeBytes([range |-> 2^RangeBits - 1, probs |-> << >>, bit |-> 0, value |-> 0, short |-> FALSE,
                         code |-> (body[2] * SymTop + body[3]) * SymTop + body[4],
                         rest |-> After(body, CodeBytes)], n, << >>)

RangeEncodeFinish(newDecoder) == CollectedFinish(RangeBuilt, newDecoder)
RangeDecodeFinish == CollectedDecodeFinish(DecodeAll)

-----------------------------------------------------------------------------
(* Squeeze (arc_squeeze/): runs behind a marker, and the tree of a Huffman *)
(* code as a table of nodes, whose leaves are negative.                    *)
EndSymbol == SymTop   \* SPEOF

MarkedRun(bytes) ==
    CHOOSE n \in 1..(SymTop - 1) :
        /\ n <= Len(bytes) /\ \A i \in 1..n : bytes[i] = bytes[1]
        /\ n = SymTop - 1 \/ n = Len(bytes) \/ bytes[n + 1] # bytes[1]

RECURSIVE RunsMarked(_)
RunsMarked(bytes) ==
    IF bytes = << >> THEN << >>
    ELSE IF bytes[1] = Marker THEN <<Marker, 0>> \o RunsMarked(Tail(bytes))
    ELSE LET n == MarkedRun(bytes) IN
         IF n >= 3 THEN <<bytes[1], Marker, n>> \o RunsMarked(After(bytes, n))
         ELSE <<bytes[1]>> \o RunsMarked(Tail(bytes))

(* The two lightest become one, the older first where they weigh the same. *)
Lightest(items) ==
    CHOOSE a \in items : \A b \in items :
        a.weight < b.weight \/ (a.weight = b.weight /\ a.order <= b.order)

RECURSIVE Combined(_, _)
Combined(items, order) ==
    IF Cardinality(items) = 1 THEN (CHOOSE i \in items : TRUE).tree
    ELSE LET a == Lightest(items)
             b == Lightest(items \ {a})
         IN Combined((items \ {a, b}) \cup {[weight |-> a.weight + b.weight, order |-> order,
                                             tree |-> <<a.tree, b.tree>>]}, order + 1)

BuildTree(often) ==
    LET used == DOMAIN often
        order(s) == Cardinality({t \in used : t < s})
    IN IF Cardinality(used) = 1 THEN [i \in 1..2 |-> <<EndSymbol>>]
       ELSE Combined({[weight |-> often[s], order |-> order(s), tree |-> <<s>>] : s \in used}, Cardinality(used))

IsLeaf(tree) == Len(tree) = 1
Child(tree, id) == IF IsLeaf(tree) THEN -tree[1] - 1 ELSE id

(* Nodes are numbered as they are met, the right one followed first.       *)
RECURSIVE NodeTable(_, _)
NodeTable(stack, table) ==
    IF stack = << >> THEN table
    ELSE LET node == Last(stack)
             left == node.tree[1]
             right == node.tree[2]
             at == Len(table)
             then == at + (IF IsLeaf(left) THEN 0 ELSE 1)
             more == (IF IsLeaf(left) THEN << >> ELSE <<[id |-> at, tree |-> left]>>)
                     \o (IF IsLeaf(right) THEN << >> ELSE <<[id |-> then, tree |-> right]>>)
         IN NodeTable(Front(stack) \o more,
                      [table \o Copies(<<0, 0>>, Len(more)) EXCEPT
                           ![node.id + 1] = <<Child(left, at), Child(right, then)>>])

RECURSIVE Paths(_)
Paths(tree) ==
    IF IsLeaf(tree) THEN tree[1] :> << >>
    ELSE LET left == Paths(tree[1])
             right == Paths(tree[2])
         IN [s \in DOMAIN right |-> <<1>> \o right[s]] @@ [s \in DOMAIN left |-> <<0>> \o left[s]]

TableBytes(table) ==
    TwoBytes(Len(table))
    \o FlattenSeq([i \in DOMAIN table |-> TwoBytes(table[i][1] % SymTop^2) \o TwoBytes(table[i][2] % SymTop^2)])

Squeezed(bytes) ==
    LET runs == RunsMarked(bytes)
        tree == BuildTree((EndSymbol :> 1) @@ Often(runs))
        codes == Paths(tree)
    IN TableBytes(NodeTable(<<[id |-> 0, tree |-> tree]>>, <<<<0, 0>>>>))
       \o PackedLow(FlattenSeq([i \in 1..(Len(runs) + 1) |->
                                   codes[IF i > Len(runs) THEN EndSymbol ELSE runs[i]]]))

SqueezeBuilt(s) == {[s EXCEPT !.pending = Squeezed(s.raw)]}
SqueezeEncodeFinish(newDecoder) == CollectedFinish(SqueezeBuilt, newDecoder)

(* The decoder takes all it is given; `dry` is when that gave no more.     *)
NewSqueezeDecoder ==
    [at |-> "Header", table |-> << >>, bit |-> 0, node |-> 0, last |-> Unknown, waiting |-> FALSE,
     pending |-> << >>, eos |-> FALSE, bad |-> FALSE, dry |-> FALSE]

ChildAt(i) == LET w == src[i] + SymTop * src[i + 1] IN IF w >= SymTop^2 \div 2 THEN w - SymTop^2 ELSE w
ParsedTable(n) == [k \in 1..n |-> <<ChildAt(4 * k - 1), ChildAt(4 * k + 1)>>]
ValidTable(table) ==
    \A k \in DOMAIN table, side \in 1..2 :
        IF table[k][side] >= 0 THEN table[k][side] < Len(table) ELSE -table[k][side] - 1 <= EndSymbol

NodeCount == src[1] + SymTop * src[2]
HeaderThere == pos >= 2 /\ (NodeCount > MaxNodes \/ pos >= 2 + 4 * NodeCount)

SqueezeHeader ==
    LET table == ParsedTable(NodeCount) IN
    IF NodeCount > MaxNodes \/ ~ValidTable(table) THEN Fail
    ELSE Continue([state EXCEPT !.at = "Body", !.table = table, !.eos = NodeCount = 0,
                                !.bit = SymBits * (2 + 4 * NodeCount)])

Feed(s, b) ==
    IF s.waiting /\ b = 0 THEN [s EXCEPT !.pending = Append(@, Marker), !.last = Marker, !.waiting = FALSE]
    ELSE IF s.waiting /\ s.last = Unknown THEN [s EXCEPT !.bad = TRUE]
    ELSE IF s.waiting THEN [s EXCEPT !.pending = @ \o Copies(s.last, b - 1), !.waiting = FALSE]
    ELSE IF b = Marker THEN [s EXCEPT !.waiting = TRUE]
    ELSE [s EXCEPT !.pending = Append(@, b), !.last = b]

RECURSIVE Pump(_)
Pump(s) ==
    IF s.bad \/ s.eos \/ Len(s.pending) > EmitMost \/ s.bit = SymBits * pos THEN s
    ELSE LET bit == BitOf(src[(s.bit \div SymBits) + 1], s.bit % SymBits)
             next == s.table[s.node + 1][bit + 1]
             at == [s EXCEPT !.bit = @ + 1, !.node = Larger(next, 0)]
         IN Pump(IF next >= 0 THEN at
                 ELSE IF -next - 1 = EndSymbol THEN [at EXCEPT !.eos = TRUE]
                 ELSE Feed(at, -next - 1))

Pumped(s) == IF s.bad THEN Fail ELSE Continue([s EXCEPT !.dry = s.pending = << >>])
SqueezeStops == state.at = "Body" /\ (NoRoom \/ (state.dry /\ state.pending = << >>))

SqueezeLoop ==
    /\ NoInput
    /\ \/ state.at = "Header" /\ HeaderThere /\ SqueezeHeader
       \/ state.at = "Body" /\ DrainPending
       \/ state.at = "Body" /\ ~NoRoom /\ state.pending = << >> /\ ~state.dry /\ Pumped(Pump(state))

Undried == [state EXCEPT !.dry = FALSE]

SqueezeDecode ==
    \/ ~NoInput /\ Turn(state, avail - pos, << >>)
    \/ SqueezeLoop
    \/ NoInput /\ state.at = "Header" /\ ~HeaderThere /\ Return(state, << >>)
    \/ /\ NoInput /\ SqueezeStops
       /\ IF state.eos /\ state.pending = << >> THEN End(state, << >>) ELSE Return(Undried, << >>)

(* At the end it looks beyond a full buffer before it calls a stream short.*)
SqueezeDecodeFinish ==
    \/ SqueezeLoop
    \/ state.at = "Header" /\ ~HeaderThere /\ Fail
    \/ /\ SqueezeStops
       /\ \/ state.pending # << >> /\ Return(Undried, << >>)
          \/ state.pending = << >> /\ ~state.eos /\ ~state.dry /\ Pumped(Pump(state))
          \/ state.pending = << >> /\ ~state.eos /\ state.dry /\ Fail
          \/ state.pending = << >> /\ state.eos /\ (IF state.waiting THEN Fail ELSE DecodeDone)

-----------------------------------------------------------------------------
(* Reduce (zip_reduce/), which is only decoded: what may follow each byte, *)
(* then bytes by their place there, and matches behind a marker.  `raw`    *)
(* are the factor and the size of an entry that comes without a header.    *)
NewReducer(raw) ==
    [at |-> IF raw = << >> THEN "Header" ELSE "FollowerSets", raw |-> raw,
     factor |-> IF raw = << >> THEN 0 ELSE raw[1], size |-> IF raw = << >> THEN 0 ELSE raw[2],
     bit |-> 0, fsets |-> << >>, prev |-> 0, pending |-> << >>, stage |-> "enter", from |-> 0]

ReduceHeaderLen == 3   \* 5
BitsAt(at, n) ==
    FoldRight(LAMBDA b, v : b + 2 * v,
              [i \in 1..n |-> BitOf(src[((at + i - 1) \div SymBits) + 1], (at + i - 1) % SymBits)], 0)
InBuffer(at, n) == at + n <= SymBits * pos
IndexBits(n) == IF n = 1 THEN 1 ELSE CHOOSE w \in 1..n : 2^w >= n /\ 2^(w - 1) < n

ReduceHeader ==
    IF src[1] \notin 1..FactorMost THEN Fail
    ELSE Continue([state EXCEPT !.at = "FollowerSets", !.factor = src[1], !.size = src[2] + SymTop * src[3],
                                !.bit = SymBits * ReduceHeaderLen])

(* A set is read whole or not at all; the last byte's comes first.         *)
RECURSIVE ReadFollowerSets(_)
ReadFollowerSets(s) ==
    IF Len(s.fsets) = SymTop THEN [s EXCEPT !.at = "Body"]
    ELSE IF ~InBuffer(s.bit, SetCountBits) THEN s
    ELSE LET n == BitsAt(s.bit, SetCountBits)
             from == s.bit + SetCountBits
         IN IF n > FollowersMost THEN [s EXCEPT !.at = "bad"]
            ELSE IF ~InBuffer(from, n * SymBits) THEN s
            ELSE ReadFollowerSets([s EXCEPT !.bit = from + n * SymBits,
                     !.fsets = Append(@, [j \in 1..n |-> BitsAt(from + (j - 1) * SymBits, SymBits)])])

FollowersOf(b) == state.fsets[SymTop - b]
NotYet == [is |-> "short"]
NoByte == [is |-> "bad"]
ByteAt(at) == IF InBuffer(at, SymBits) THEN [is |-> "byte", v |-> BitsAt(at, SymBits), bit |-> at + SymBits] ELSE NotYet

IndexAt(at, set, width) ==
    IF ~InBuffer(at, width) THEN NotYet
    ELSE IF BitsAt(at, width) >= Len(set) THEN NoByte
    ELSE [is |-> "byte", v |-> set[BitsAt(at, width) + 1], bit |-> at + width]

ReadNextByte(at, prev) ==
    IF FollowersOf(prev) = << >> THEN ByteAt(at)
    ELSE IF ~InBuffer(at, 1) THEN NotYet
    ELSE IF BitsAt(at, 1) = 1 THEN ByteAt(at + 1)
    ELSE IndexAt(at + 1, FollowersOf(prev), IndexBits(Len(FollowersOf(prev))))

(* One byte, or a match: the byte before the next is the last one read.    *)
Produced == Len(out) + Len(state.pending)
LengthMask == 2^(SymBits - state.factor)
Produces(t, bytes) == [is |-> "made", s |-> [state EXCEPT !.pending = @ \o bytes, !.bit = t.bit, !.prev = t.v]]

AfterDistance(v, n, w) ==
    LET dist == (v \div LengthMask) * SymTop + w.v + 1 IN
    IF w.is # "byte" THEN w
    ELSE IF n > state.size - Produced THEN NoByte
    ELSE Produces(w, Repeated(Copies(0, dist) \o out \o state.pending, dist - 1, n))

AfterLength(v, x) ==
    IF x.is # "byte" THEN x ELSE AfterDistance(v, LengthMask - 1 + x.v + 3, ReadNextByte(x.bit, x.v))

AfterMarker(v) ==
    IF v.is # "byte" THEN v
    ELSE IF v.v = 0 THEN Produces(v, <<Marker>>)
    ELSE IF v.v % LengthMask = LengthMask - 1 THEN AfterLength(v.v, ReadNextByte(v.bit, v.v))
    ELSE AfterDistance(v.v, (v.v % LengthMask) + 3, ReadNextByte(v.bit, v.v))

AfterByte(c) ==
    IF c.is # "byte" THEN c
    ELSE IF c.v # Marker THEN Produces(c, <<c.v>>)
    ELSE AfterMarker(ReadNextByte(c.bit, c.v))

ReduceFinishing == phase = "decode_finish"
ReduceLeaves == Continue([state EXCEPT !.stage = "leave"])
ReduceToken(t) == IF t.is = "bad" THEN Fail ELSE IF t.is = "short" THEN ReduceLeaves ELSE Continue(t.s)
ReduceSets(s) ==
    IF s.at = "bad" THEN Fail ELSE Continue(IF s.at = "Body" THEN s ELSE [s EXCEPT !.stage = "leave"])

(* What is ready goes out before anything else is looked at.               *)
ReduceEnter ==
    /\ state.stage = "enter"
    /\ Turn([state EXCEPT !.stage = "flush", !.from = Len(out)], IF ReduceFinishing THEN 0 ELSE avail - pos, << >>)

ReduceFlush ==
    /\ state.stage = "flush"
    /\ \/ DrainPending
       \/ ~ReduceFinishing /\ NoRoom /\ Return([state EXCEPT !.stage = "enter"], << >>)
       \/ /\ ReduceFinishing \/ ~NoRoom
          /\ state.pending = << >> \/ NoRoom
          /\ Continue([state EXCEPT !.stage = IF ReduceFinishing /\ state.at # "Body" THEN "leave" ELSE "run"])

ReduceRun ==
    /\ state.stage = "run"
    /\ \/ state.at = "Header" /\ pos < ReduceHeaderLen /\ ReduceLeaves
       \/ state.at = "Header" /\ pos >= ReduceHeaderLen /\ ReduceHeader
       \/ state.at = "FollowerSets" /\ ReduceSets(ReadFollowerSets(state))
       \/ state.at = "Body" /\ DrainPending
       \/ /\ state.at = "Body" /\ (state.pending = << >> \/ NoRoom)
          /\ IF Produced >= state.size \/ (Len(state.pending) >= Ahead /\ NoRoom) THEN ReduceLeaves
             ELSE ReduceToken(AfterByte(ReadNextByte(state.bit, state.prev)))

ReduceDone == state.at = "Body" /\ Produced >= state.size /\ state.pending = << >>

ReduceLeave ==
    /\ state.stage = "leave"
    /\ LET again == [state EXCEPT !.stage = "enter"] IN
       \/ ReduceDone /\ (IF ReduceFinishing THEN DecodeDone ELSE End(again, << >>))
       \/ ~ReduceDone /\ ReduceFinishing /\ Len(out) = state.from /\ state.pending = << >> /\ Fail
       \/ /\ ~ReduceDone /\ (ReduceFinishing => Len(out) > state.from \/ state.pending # << >>)
          /\ Return(again, << >>)

ReduceDecode == ReduceEnter \/ ReduceFlush \/ ReduceRun \/ ReduceLeave

-----------------------------------------------------------------------------
MaxDistance == 4      \* 256
HoldMost == 8         \* MAX_INSN: 16
Address == SymTop^4   \* 2^32
PageBits == 2         \* 12

(* Filters that turn each byte into one do as many as there is room for.   *)
Shorter == Smaller(avail - pos, room)
OneForOne(moved) ==
    \/ (NoInput \/ NoRoom) /\ Return(state, << >>)
    \/ ~NoInput /\ ~NoRoom /\ Turn(moved.s, Shorter, moved.out)

-----------------------------------------------------------------------------
(* Delta (delta/): the difference to the byte `dist` back.  The ring holds *)
(* the last `dist` bytes of the calls before, `at` the oldest of them.     *)
NewDelta(dist) == [dist |-> dist, ring |-> Copies(0, dist), at |-> 0]
Supported == state.dist \in 1..MaxDistance
Ringed(i) == state.ring[((state.at + i) % state.dist) + 1]

(* The ring after a call over these bytes: written one by one, or as a     *)
(* whole when they fill it.                                                *)
Remembered(bytes) ==
    LET d == state.dist
        n == Len(bytes)
        at == (state.at + (n % d)) % d
    IN IF n < d
       THEN [state EXCEPT !.at = at,
                 !.ring = [k \in 1..d |-> LET i == (k - 1 - state.at) % d IN IF i < n THEN bytes[i + 1] ELSE @[k]]]
       ELSE [state EXCEPT !.at = at, !.ring = [k \in 1..d |-> bytes[n - d + ((k - 1 - at) % d) + 1]]]

Differences(bytes) ==
    [s |-> Remembered(bytes),
     out |-> [i \in DOMAIN bytes |->
                 (bytes[i] - (IF i <= state.dist THEN Ringed(i - 1) ELSE bytes[i - state.dist])) % SymTop]]

Sums(bytes) ==
    LET orig[i \in DOMAIN bytes] ==
            (bytes[i] + (IF i <= state.dist THEN Ringed(i - 1) ELSE orig[i - state.dist])) % SymTop
        made == [i \in DOMAIN bytes |-> orig[i]]
    IN [s |-> Remembered(made), out |-> made]

DeltaEncode == OneForOne(Differences(Take(Shorter)))
DeltaDecode == IF Supported THEN OneForOne(Sums(Take(Shorter))) ELSE Fail
DeltaEncodeFinish == EncodeDone(state, NewDelta(state.dist))
DeltaDecodeFinish == IF Supported THEN DecodeDone ELSE Fail

-----------------------------------------------------------------------------
(* Move to front (mtf/).                                                   *)
NewMtf == [table |-> [i \in 1..SymTop |-> i - 1]]
Ranks(bytes) ==
    FoldLeft(LAMBDA a, b :
                 LET i == PlaceOf(a.s.table, b) IN
                 [s |-> [table |-> ToFront(a.s.table, i)], out |-> Append(a.out, i)],
             [s |-> state, out |-> << >>], bytes)
Unranked(bytes) ==
    FoldLeft(LAMBDA a, i :
                 [s |-> [table |-> ToFront(a.s.table, i)], out |-> Append(a.out, a.s.table[i + 1])],
             [s |-> state, out |-> << >>], bytes)

MtfEncode == OneForOne(Ranks(Take(Shorter)))
MtfDecode == OneForOne(Unranked(Take(Shorter)))
MtfEncodeFinish == EncodeDone(state, NewMtf)
MtfDecodeFinish == DecodeDone

-----------------------------------------------------------------------------
(* The transform by blocks (bwt/): length, row of the block, last column.  *)
BwtGatherer(size) == [raw |-> << >>, size |-> size, pending |-> << >>, finished |-> FALSE]

(* Rotations that are equal stay in the order of where they start.         *)
Forward(block) == TwoBytes(Rank(block, 0)) \o LastColumn(block)

RECURSIVE Transformed(_, _)
Transformed(bytes, size) ==
    IF bytes = << >> THEN << >>
    ELSE LET block == SubSeq(bytes, 1, Smaller(size, Len(bytes))) IN
         TwoBytes(Len(block)) \o Forward(block) \o Transformed(After(bytes, Len(block)), size)

(* Which row of the last column has the byte that row i begins with.       *)
NextLink(column, i) == CHOOSE j \in 0..(Len(column) - 1) : NextRow(column, j) = i
Walked(column, primary) ==
    LET at[k \in 0..Len(column)] == NextLink(column, IF k = 0 THEN primary ELSE at[k - 1]) IN
    [k \in DOMAIN column |-> column[at[k - 1] + 1]]

RECURSIVE BwtDecoded(_, _)
BwtDecoded(s, made) ==
    IF s = << >> THEN Meaning(made)
    ELSE IF Len(s) < 4 THEN NoMeaning
    ELSE LET n == s[1] + SymTop * s[2]
             primary == s[3] + SymTop * s[4]
         IN IF n = 0 \/ primary >= n \/ Len(s) - 4 < n THEN NoMeaning
            ELSE BwtDecoded(After(s, 4 + n), made \o Walked(SubSeq(s, 5, 4 + n), primary))

BwtBuilt(s) == {[s EXCEPT !.pending = Transformed(s.raw, s.size)]}
BwtMeaning(s) == BwtDecoded(s, << >>)
BwtEncodeFinish == CollectedFinish(BwtBuilt, BwtGatherer(0))
BwtDecodeFinish == CollectedDecodeFinish(BwtMeaning)

-----------------------------------------------------------------------------
(* Numbers of several bytes.                                               *)
Little(bytes) == FoldRight(LAMBDA b, v : b + SymTop * v, bytes, 0)
Big(bytes) == FoldLeft(LAMBDA v, b : b + SymTop * v, 0, bytes)
LittleBytes(v, n) == [i \in 1..n |-> (v \div SymTop^(i - 1)) % SymTop]
BigBytes(v, n) == Reverse(LittleBytes(v, n))

(* A relative target becomes an absolute one, or the other way round.      *)
Moved(encode, v, by) == (IF encode THEN v + by ELSE v - by) % Address

-----------------------------------------------------------------------------
(* bcj/: x86.  A call or jump is converted if its operand looks like a     *)
(* near address and no other opcode stands too close before it; `mask` and *)
(* `prev` remember those, from one call to the next.                       *)
X86Opcodes == {8, 9}
Test86(b) == b \in {0, SymTop - 1}
MaskAllowed == {0, 1, 2, 4}
MaskBytes == <<0, 1, 2, 2, 3, 3, 3, 3>>

Decay(mask) == 2 * (mask - 8 * BitOf(mask, 3) - 128 * BitOf(mask, 7))
Decayed(mask, steps) ==
    IF steps > 5 THEN 0
    ELSE LET m[k \in 0..steps] == IF k = 0 THEN mask ELSE Decay(m[k - 1]) IN m[steps]

Flipped(v, bits) == v + 2^bits - 1 - 2 * (v % 2^bits)

RECURSIVE X86Target(_, _, _, _)
X86Target(encode, v, by, mask) ==
    LET dest == Moved(encode, v, by)
        skip == SymBits * MaskBytes[mask \div 2 + 1]
    IN IF mask = 0 \/ ~Test86((dest \div 2^(3 * SymBits - skip)) % SymTop) THEN dest
       ELSE X86Target(encode, Flipped(dest, 4 * SymBits - skip), by, mask)

SignExtended(v) == (v % SymTop^3) + (IF (v \div SymTop^3) % 2 = 1 THEN (SymTop - 1) * SymTop^3 ELSE 0)
Patch(data, at, bytes) == SubSeq(data, 1, at) \o bytes \o After(data, at + Len(bytes))

RECURSIVE X86Scan(_, _, _, _)
X86Scan(c, encode, ip, at) ==
    IF at + 5 > Len(c.data) THEN [c EXCEPT !.used = at]
    ELSE IF c.data[at + 1] \notin X86Opcodes THEN X86Scan(c, encode, ip, at + 1)
    ELSE LET here == (ip + at) % Address
             mask == Decayed(c.mask, (here - c.prev) % Address)
             near == Test86(c.data[at + 5])
             dest == X86Target(encode, Little(SubSeq(c.data, at + 2, at + 5)), here + 5, mask)
             next == [c EXCEPT !.prev = here]
         IN IF near /\ (mask \div 2) % 8 \in MaskAllowed /\ mask \div 2 < 16
            THEN X86Scan([next EXCEPT !.mask = 0, !.data = Patch(@, at + 1, LittleBytes(SignExtended(dest), 4))],
                         encode, ip, at + 5)
            ELSE X86Scan([next EXCEPT !.mask = mask + 1 + (IF near THEN 16 ELSE 0)], encode, ip, at + 1)

X86Convert(s, data) ==
    LET far == ~s.seen \/ (s.ip - s.prev) % Address > 5
        c == [data |-> data, used |-> 0, mask |-> s.mask, seen |-> TRUE,
              prev |-> IF far THEN (s.ip - 5) % Address ELSE s.prev]
    IN IF Len(data) < 5 THEN [c EXCEPT !.prev = s.prev, !.seen = s.seen]
       ELSE X86Scan(c, s.encode, s.ip, 0)

-----------------------------------------------------------------------------
(* The converters of aligned words, and ARM Thumb's of half-words.         *)
ArmWord(w, encode, at) ==
    IF w[4] # 11 THEN w
    ELSE LittleBytes(Moved(encode, 4 * Little(SubSeq(w, 1, 3)), at + 8) \div 4, 3) \o <<11>>

PpcWord(w, encode, at) ==
    IF w[1] \div 4 # 1 \/ w[4] % 4 # 1 THEN w
    ELSE LET dest == Moved(encode, (Big(w) % (Address \div 4)) - 1, at) % (Address \div 4) IN
         BigBytes(Address \div 4 + dest - (dest % 4) + 1, 4)

(* The sign is spread over the upper bits.                                 *)
SparcWord(w, encode, at) ==
    IF ~(w[1] = 4 /\ w[2] < 4) /\ ~(w[1] = 7 /\ w[2] >= 12) THEN w
    ELSE LET dest == Moved(encode, 4 * (Big(w) % (Address \div 4)), at) \div 4
             sign == BitOf(dest, 10)
         IN BigBytes((dest % 2^10) + (IF sign = 1 THEN 31 * 2^10 ELSE 16 * 2^10), 4)

(* A branch, or the page of an address if it is near.                      *)
Arm64Word(w, encode, at) ==
    LET v == Little(w)
        page == 4 * ((v \div 4) % 2^8) + ((v \div 2^13) % 4)
        dest == Moved(encode, page, at \div 2^PageBits)
        high == ((dest \div 4) % 2^5) + 7 * 2^5 * BitOf(dest, 6)
    IN IF v \div 2^10 = 37
       THEN LittleBytes(37 * 2^10 + (Moved(encode, v % 2^10, at \div 4) % 2^10), 4)
       ELSE IF v >= 2^15 /\ (v \div 2^10) % 8 = 4 /\ ((page + 2^6) \div 2^7) % 8 = 0
       THEN LittleBytes(2^15 + 2^12 + (v % 4) + 2^13 * (dest % 4) + 4 * high, 4)
       ELSE w

BranchWord(arch, w, encode, at) ==
    CASE arch = "arm" -> ArmWord(w, encode, at)
      [] arch = "ppc" -> PpcWord(w, encode, at)
      [] arch = "sparc" -> SparcWord(w, encode, at)
      [] arch = "arm64" -> Arm64Word(w, encode, at)

WordsConverted(s, data) ==
    LET words == Len(data) \div 4
        moved(k) == BranchWord(s.arch, SubSeq(data, 4 * k - 3, 4 * k), s.encode, (s.ip + 4 * (k - 1)) % Address)
    IN [data |-> FlattenSeq([k \in 1..words |-> moved(k)]) \o After(data, 4 * words), used |-> 4 * words,
        mask |-> 0, prev |-> 0, seen |-> FALSE]

ThumbPair(h, encode, at) ==
    LET v == ((h[2] % 4) * SymTop + h[1]) * 2^6 + (h[4] % 4) * SymTop + h[3]
        dest == Moved(encode, 2 * v, at + 4) \div 2
    IN <<(dest \div 2^6) % SymTop, 8 + ((dest \div 2^10) % 4), dest % SymTop, 12 + ((dest \div SymTop) % 4)>>

RECURSIVE ThumbScan(_, _, _, _)
ThumbScan(data, encode, ip, at) ==
    IF at + 4 > Len(data) THEN [data |-> data, used |-> at, mask |-> 0, prev |-> 0, seen |-> FALSE]
    ELSE LET h == SubSeq(data, at + 1, at + 4) IN
         IF h[2] \div 4 = 2 /\ h[4] \div 4 = 3
         THEN ThumbScan(Patch(data, at, ThumbPair(h, encode, (ip + at) % Address)), encode, ip, at + 4)
         ELSE ThumbScan(data, encode, ip, at + 2)

Convert(s, data) ==
    CASE s.arch = "x86" -> X86Convert(s, data)
      [] s.arch = "thumb" -> ThumbScan(data, s.encode, s.ip, 0)
      [] OTHER -> WordsConverted(s, data)

(* The engine: bytes wait in `hold` until there is a whole instruction,    *)
(* then in `pending`; `wrote` is whether this call has written any.        *)
NewBcj(arch, start, encode) ==
    [arch |-> arch, start |-> start, ip |-> start, encode |-> encode, hold |-> << >>, pending |-> << >>,
     mask |-> 0, prev |-> 0, seen |-> FALSE, wrote |-> FALSE]

Committed(s, c) ==
    [s EXCEPT !.pending = @ \o SubSeq(c.data, 1, c.used), !.hold = After(@, c.used),
              !.ip = (@ + c.used) % Address, !.mask = c.mask, !.prev = c.prev, !.seen = c.seen]
ConvertHold(s) == Committed(s, Convert(s, s.hold))
WithTail(s) == [s EXCEPT !.pending = @ \o s.hold, !.hold = << >>, !.ip = (@ + Len(s.hold)) % Address]

Held(n) == LET s == [state EXCEPT !.hold = @ \o Take(n)] IN IF Len(s.hold) = HoldMost THEN ConvertHold(s) ELSE s
HoldRoom == Smaller(HoldMost - Len(state.hold), avail - pos)

BcjDrain ==
    /\ state.pending # << >> /\ ~NoRoom
    /\ LET n == Smaller(Len(state.pending), room) IN
       Turn([state EXCEPT !.pending = After(@, n), !.wrote = TRUE], 0, SubSeq(state.pending, 1, n))
BcjReturn == Return([state EXCEPT !.wrote = FALSE], << >>)

(* With a buffer that was full from the start it goes on converting.       *)
BcjFull == state.pending # << >> /\ NoRoom /\ state.wrote
BcjDrained == (state.pending = << >> \/ NoRoom) /\ ~BcjFull

BcjStep ==
    \/ BcjDrain
    \/ (BcjFull \/ (BcjDrained /\ NoInput)) /\ BcjReturn
    \/ BcjDrained /\ ~NoInput /\ Turn(Held(HoldRoom), HoldRoom, << >>)

BcjFinish(Finished) ==
    \/ BcjDrain
    \/ BcjDrained /\ state.hold # << >> /\ Continue(WithTail(ConvertHold(state)))
    \/ (BcjFull \/ (BcjDrained /\ state.hold = << >> /\ state.pending # << >>)) /\ BcjReturn
    \/ state.hold = << >> /\ state.pending = << >> /\ Finished

BcjEncodeFinish == BcjFinish(EncodeDone(state, NewBcj(state.arch, state.start, FALSE)))
BcjDecodeFinish == BcjFinish(DecodeDone)

-----------------------------------------------------------------------------
(* BCJ2 (bcj2/): converted operands leave the bytes for streams of their   *)
(* own, and a bit for each opcode says whether its operand did.  The       *)
(* lengths of the streams are in front here; in a 7z archive its header    *)
(* has them.                                                               *)
Candidate(prev, b) == b \in X86Opcodes \/ (prev = 15 /\ b \div 4 = 1)
Model(prev, b) == IF b = 8 THEN <<"call", prev>> ELSE IF b = 9 THEN <<"jump">> ELSE <<"jcc">>

RECURSIVE Split(_, _, _)
Split(bytes, at, s) ==
    IF at = Len(bytes) THEN s
    ELSE LET b == bytes[at + 1]
             next == [s EXCEPT !.main = Append(@, b), !.prev = b]
             rel == SubSeq(bytes, at + 2, at + 5)
             target == BigBytes(Moved(TRUE, Little(rel), at + 5), 4)
             coded(bit) == [next EXCEPT !.core = EncodeBit(@, Model(s.prev, b), bit)]
         IN IF ~Candidate(s.prev, b) THEN Split(bytes, at + 1, next)
            ELSE IF at + 5 > Len(bytes) THEN Split(bytes, at + 1, coded(0))
            ELSE Split(bytes, at + 5,
                       IF b = 8 THEN [coded(1) EXCEPT !.call = @ \o target, !.prev = rel[4]]
                       ELSE [coded(1) EXCEPT !.jump = @ \o target, !.prev = rel[4]])

Framed(n, s) ==
    FlattenSeq([i \in 1..4 |-> TwoBytes(<<n, Len(s.main), Len(s.call), Len(s.jump)>>[i])])
    \o s.main \o s.call \o s.jump \o FlushCoder(s.core).bytes

Bcj2Built(s) ==
    {[s EXCEPT !.pending = Framed(Len(s.raw),
        Split(s.raw, 0, [main |-> << >>, call |-> << >>, jump |-> << >>, core |-> NewCore(0, 0, 0), prev |-> 0]))]}

(* The coder is filled up before each bit.                                 *)
BranchBit(d, key) ==
    LET e == Refilled(d) IN BitBelow(e, key, (e.range \div 2^ModelBits) * Prob(e.probs, key))

RECURSIVE Joined(_, _, _)
Joined(d, made, need) ==
    IF Len(made) = need THEN Meaning(made)
    ELSE IF d.main = << >> THEN NoMeaning
    ELSE LET b == Head(d.main)
             plainly == [d EXCEPT !.main = Tail(@), !.prev = b]
             e == BranchBit(plainly, Model(d.prev, b))
             from == IF b = 8 THEN e.call ELSE e.jump
             dest == LittleBytes(Moved(FALSE, Big(SubSeq(from, 1, 4)), Len(made) + 5), 4)
             moved == IF b = 8 THEN [e EXCEPT !.call = After(@, 4), !.prev = dest[4]]
                      ELSE [e EXCEPT !.jump = After(@, 4), !.prev = dest[4]]
         IN IF ~Candidate(d.prev, b) THEN Joined(plainly, Append(made, b), need)
            ELSE IF e.short THEN NoMeaning
            ELSE IF e.bit = 0 THEN Joined(e, Append(made, b), need)
            ELSE IF need - Len(made) - 1 < 4 \/ Len(from) < 4 THEN NoMeaning
            ELSE Joined(moved, made \o <<b>> \o dest, need)

Bcj2Decoded(need, main, call, jump, rc) ==
    IF need > Len(main) + Len(call) + Len(jump) \/ Len(rc) < CodeBytes THEN NoMeaning
    ELSE IF rc[1] # 0 THEN NoMeaning
    ELSE Joined([main |-> main, call |-> call, jump |-> jump, prev |-> 0, probs |-> << >>, bit |-> 0,
                 short |-> FALSE, range |-> 2^RangeBits - 1, code |-> Big(SubSeq(rc, 2, 4)),
                 rest |-> After(rc, CodeBytes)], << >>, need)

Bcj2Meaning(s) ==
    LET count(i) == s[2 * i - 1] + SymTop * s[2 * i]
        body == After(s, 8)
        tail == After(body, count(2))
    IN Bcj2Decoded(count(1), SubSeq(body, 1, count(2)), SubSeq(tail, 1, count(3)),
                   SubSeq(tail, count(3) + 1, count(3) + count(4)), After(tail, count(3) + count(4)))

Bcj2EncodeFinish == CollectedFinish(Bcj2Built, NewGatherer)
Bcj2DecodeFinish == CollectedDecodeFinish(Bcj2Meaning)
=============================================================================
