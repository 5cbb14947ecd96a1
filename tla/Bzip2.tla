------------------------------- MODULE Bzip2 --------------------------------
(***************************************************************************)
(* bzip2 (bzip2/): runs, Burrows-Wheeler transform, move to front, zero    *)
(* runs in base two, and prefix codes whose table changes from group to    *)
(* group; blocks that start at any bit, streams in a row.  A run is two    *)
(* bytes and a count here (four there), a group two symbols (50), the      *)
(* fields of a header are a few bits wide, a checksum is a small sum.      *)
(***************************************************************************)
EXTENDS CodecCall, FiniteSetsExt, Integers

CONSTANTS
    LevelUnit,      \* bytes of a block for each level: 100 000
    RetryPart,      \* a header that was too short waits for 1/RetryPart more: 1/8
    MaxSelectors    \* 18 002

ASSUME Bzip2Assumption == LevelUnit > 3 /\ RetryPart > 0 /\ MaxSelectors > 0

BzMagic == <<2, 3>>             \* "BZh"
BzLevels == {1, 2}              \* '1'..'9'
BlockMagic == <<0, 1, 1>>
EndMagic == <<1, 0, 1>>
CrcBits == 3
OriginBits == 4
CountBits == 3                  \* of the number of selectors: 15
TablesBits == 2                 \* 3
TableCounts == {2, 3}           \* 2..=6
LenFieldBits == 2               \* 5
MaxCodeLen == 3                 \* 20
GroupSize == 2
RunMin == 2
BzRunMax == 5                   \* 255
ByteValues == 0..(2^ByteBits - 1)
StripeSize == 2                 \* 16

-----------------------------------------------------------------------------
(* Bits, the highest of a field first (bits.rs).                           *)
Field(v, n) == Reverse(Bits(v, n))
FieldAt(b, at, n) == LET v[k \in 0..n] == IF k = 0 THEN 0 ELSE 2 * v[k - 1] + b[at + k] IN v[n]
BzBits(bytes) ==
    [i \in 1..(Len(bytes) * ByteBits) |->
        (bytes[((i - 1) \div ByteBits) + 1] \div 2^(ByteBits - 1 - ((i - 1) % ByteBits))) % 2]
BzBytes(bits) == [i \in 1..(Len(bits) \div ByteBits) |-> FieldAt(bits, (i - 1) * ByteBits, ByteBits)]

Crc(bytes) == FoldLeft(LAMBDA a, b : (3 * a + b + 1) % 2^CrcBits, 0, bytes)

(* combined.rotate_left(1) ^ crc.                                          *)
Combine(combined, crc) ==
    (((2 * combined) % 2^CrcBits) + (combined \div 2^(CrcBits - 1)) + crc) % 2^CrcBits

-----------------------------------------------------------------------------
(* The block sort: the rotation that starts at p has the rank of what is   *)
(* less.  Equal rotations are in the order their sort happens to leave     *)
(* them, which depends on the work factor: any of their rows may be the    *)
(* origin.                                                                 *)
Rotation(block, p) == SubSeq(block, p + 1, Len(block)) \o SubSeq(block, 1, p)

Less(s, t) ==
    \E i \in DOMAIN s : s[i] < t[i] /\ \A j \in 1..(i - 1) : s[j] = t[j]

Rank(block, p) ==
    LET r == Rotation(block, p) IN
    Cardinality({q \in 0..(Len(block) - 1) :
        Less(Rotation(block, q), r) \/ (q < p /\ Rotation(block, q) = r)})

LastColumn(block) ==
    [i \in 1..Len(block) |->
        LET p == CHOOSE p \in 0..(Len(block) - 1) : Rank(block, p) = i - 1 IN
        block[IF p = 0 THEN Len(block) ELSE p]]

Origins(block) == {Rank(block, p) : p \in {q \in 0..(Len(block) - 1) : Rotation(block, q) = block}}

(* Row i of the last column is the byte before that of row Next(l, i).     *)
NextRow(l, i) ==
    Cardinality({j \in DOMAIN l : l[j] < l[i + 1]}) + Cardinality({j \in 1..i : l[j] = l[i + 1]})

BwtInverse(l, origin) ==
    LET row[k \in 0..Len(l)] == IF k = 0 THEN origin ELSE NextRow(l, row[k - 1]) IN
    [i \in 1..Len(l) |-> l[row[Len(l) - i] + 1]]

-----------------------------------------------------------------------------
ToFront(list, i) == <<list[i + 1]>> \o SubSeq(list, 1, i) \o After(list, i + 1)
PlaceOf(list, b) == (CHOOSE i \in DOMAIN list : list[i] = b) - 1

MtfForward(bytes, alphabet) ==
    FoldLeft(LAMBDA a, b : LET i == PlaceOf(a.list, b) IN
                 [list |-> ToFront(a.list, i), out |-> Append(a.out, i)],
             [list |-> alphabet, out |-> << >>], bytes).out

MtfInverse(indices, alphabet) ==
    FoldLeft(LAMBDA a, i : [list |-> ToFront(a.list, i), out |-> Append(a.out, a.list[i + 1])],
             [list |-> alphabet, out |-> << >>], indices).out

(* A run of zeros as digits 1 and 2 of a number in base two.               *)
RunA == 0
RunB == 1
RECURSIVE ZeroRun(_)
ZeroRun(n) ==
    IF n = 0 THEN << >>
    ELSE IF n % 2 = 1 THEN <<RunA>> \o ZeroRun((n - 1) \div 2)
    ELSE <<RunB>> \o ZeroRun((n - 2) \div 2)

Rle2Forward(indices) ==
    LET e == FoldLeft(LAMBDA a, i :
                 IF i = 0 THEN [a EXCEPT !.run = @ + 1]
                 ELSE [run |-> 0, out |-> a.out \o ZeroRun(a.run) \o <<i + 1>>],
                 [run |-> 0, out |-> << >>], indices)
    IN e.out \o ZeroRun(e.run)

(* A run of bytes in a block, and back.                                    *)
RunOf(b, n) == IF n < RunMin THEN Copies(b, n) ELSE Copies(b, RunMin) \o <<n - RunMin>>

RECURSIVE Rle1Inverse(_)
Rle1Inverse(s) ==
    IF Len(s) < RunMin THEN s
    ELSE IF s[1] # s[2] THEN <<s[1]>> \o Rle1Inverse(Tail(s))
    ELSE IF Len(s) = RunMin THEN s
    ELSE Copies(s[1], RunMin + s[3]) \o Rle1Inverse(After(s, RunMin + 1))

(* Randomised blocks of the past: the low bit of every byte a gap ends on. *)
Gaps == <<3, 2>>
Derandomise(block) ==
    FoldLeft(LAMBDA a, b :
        LET fresh == a.togo = 0
            togo == (IF fresh THEN Gaps[a.t + 1] ELSE a.togo) - 1
        IN [togo |-> togo, t |-> IF fresh THEN (a.t + 1) % Len(Gaps) ELSE a.t,
            out |-> Append(a.out, IF togo = 1 THEN (IF b % 2 = 0 THEN b + 1 ELSE b - 1) ELSE b)],
        [togo |-> 0, t |-> 0, out |-> << >>], block).out

-----------------------------------------------------------------------------
(* Tables: every symbol has a length, complete code or not.                *)
SymbolsOfLength(lens, l) == {s \in DOMAIN lens : lens[s] = l}
CodeStart(lens, l) == MapThenSumSet(LAMBDA s : 2^(l - lens[s]), {s \in DOMAIN lens : lens[s] < l})
InOrder(lens, s) == Cardinality({t \in SymbolsOfLength(lens, lens[s]) : t < s})

CodeBits(lens, symbol) ==
    LET s == symbol + 1 IN Field(CodeStart(lens, lens[s]) + InOrder(lens, s), lens[s])

(* from_lengths: for each length its first code, and its symbols.          *)
DecodeTable(lens) ==
    [l \in 1..MaxCodeLen |->
        [start |-> CodeStart(lens, l),
         perm  |-> SetToSortSeq({s - 1 : s \in SymbolsOfLength(lens, l)}, LAMBDA a, c : a < c)]]

(* decode_symbol, at bit `at` of b: the shortest length whose codes reach  *)
(* up to the bits there.                                                   *)
Reached(table, l, v) == table[l].perm # << >> /\ v < table[l].start + Len(table[l].perm)

RECURSIVE SymbolFrom(_, _, _, _)
SymbolFrom(table, b, at, l) ==
    IF at + l > Len(b) THEN [is |-> "short"]
    ELSE IF l > MaxCodeLen THEN [is |-> "bad"]
    ELSE LET v == FieldAt(b, at, l) IN
         IF Reached(table, l, v)
         THEN [is |-> "symbol", symbol |-> table[l].perm[v - table[l].start + 1], at |-> at + l]
         ELSE SymbolFrom(table, b, at, l + 1)

DecodeSymbol(table, b, at) == SymbolFrom(table, b, at, 1)

-----------------------------------------------------------------------------
(* What a block is written as, whatever tables and selectors the encoder   *)
(* settled on.                                                             *)
AlphabetBits(alphabet) ==
    LET used == Range(alphabet)
        Mask(values) == FlattenSeq([i \in 1..Len(values) |-> <<IF values[i] \in used THEN 1 ELSE 0>>])
        stripes == [i \in 1..(Cardinality(ByteValues) \div StripeSize) |->
                       [j \in 1..StripeSize |-> (i - 1) * StripeSize + j - 1]]
        Used(stripe) == \E v \in Range(stripe) : v \in used
    IN [i \in DOMAIN stripes |-> IF Used(stripes[i]) THEN 1 ELSE 0]
       \o FlattenSeq([i \in DOMAIN stripes |-> IF Used(stripes[i]) THEN Mask(stripes[i]) ELSE << >>])

Places(n) == [i \in 1..n |-> i - 1]

SelectorBits(selectors, n) ==
    FlattenSeq([i \in DOMAIN selectors |->
        LET place == MtfForward(selectors, Places(n))[i] IN Copies(1, place) \o <<0>>])

(* From the length before: 10 is one more, 11 one less, 0 stops.           *)
Delta(cur, target) ==
    IF cur <= target THEN FlattenSeq(Copies(<<1, 0>>, target - cur)) \o <<0>>
    ELSE FlattenSeq(Copies(<<1, 1>>, cur - target)) \o <<0>>

LengthsBits(lens) ==
    Field(lens[1], LenFieldBits)
    \o FlattenSeq([s \in DOMAIN lens |-> Delta(lens[IF s = 1 THEN 1 ELSE s - 1], lens[s])])

GroupOf(i) == ((i - 1) \div GroupSize) + 1

HeaderBits(crc, randomised, origin, alphabet, tables, selectors) ==
    BlockMagic \o Field(crc, CrcBits) \o <<randomised>> \o Field(origin, OriginBits)
    \o AlphabetBits(alphabet) \o Field(Len(tables), TablesBits) \o Field(Len(selectors), CountBits)
    \o SelectorBits(selectors, Len(tables))
    \o FlattenSeq([t \in DOMAIN tables |-> LengthsBits(tables[t])])

CodedBits(symbols, tables, selectors) ==
    FlattenSeq([i \in DOMAIN symbols |-> CodeBits(tables[selectors[GroupOf(i)] + 1], symbols[i])])

Ascending(S) == SetToSortSeq(S, LAMBDA a, b : a < b)
AlphabetOf(bytes) == Ascending(Range(bytes))
BlockSymbols(column, alphabet) ==
    Append(Rle2Forward(MtfForward(column, alphabet)), Len(alphabet) + 1)

-----------------------------------------------------------------------------
(* pick_num_tables and optimize_tables: how many tables follows from the   *)
(* number of symbols; which lengths and selectors is a search for the      *)
(* cheapest, and left open: all lengths the same or short ones for the low *)
(* symbols, and one table for all groups or two in turn.                   *)
NumTables(symbols) == IF Len(symbols) < 6 THEN 2 ELSE 3
Flat(n) == [s \in 1..n |-> MaxCodeLen]
Skewed(n) == [s \in 1..n |-> IF s = 1 /\ n <= 5 THEN 1 ELSE MaxCodeLen]
TablesFor(symbols, n) ==
    [t \in 1..NumTables(symbols) |-> IF t = 1 THEN Skewed(n) ELSE Flat(n)]

SelectorsFor(symbols) ==
    {[g \in 1..GroupOf(Len(symbols)) |-> pick[(g % 2) + 1]] : pick \in {<<0, 0>>, <<0, NumTables(symbols) - 1>>}}

-----------------------------------------------------------------------------
(* The encoder.  `bits` are those not handed out, the last write among     *)
(* them `last` wide; the run in progress is not in the block yet.          *)
NewBzEncoder(level) ==
    [level |-> level, block |-> << >>, raw |-> << >>, run |-> 0, ch |-> 0, bits |-> << >>, last |-> 0,
     headed |-> FALSE, combined |-> 0, pending |-> << >>, finished |-> FALSE, kind |-> "none", asked |-> 0]

BlockInputCap(s) == s.level * LevelUnit - 2

WithHeader(s) ==
    IF s.headed THEN s
    ELSE [s EXCEPT !.headed = TRUE, !.bits = BzBits(BzMagic \o <<s.level>>), !.last = ByteBits]

AddPairToBlock(s) ==
    [s EXCEPT !.block = @ \o RunOf(s.ch, s.run), !.raw = @ \o Copies(s.ch, s.run)]

FlushRun(s) == IF s.run = 0 THEN s ELSE [AddPairToBlock(s) EXCEPT !.run = 0]

AddChar(s, b) ==
    IF b = s.ch /\ s.run \in 1..(BzRunMax - 1) THEN [s EXCEPT !.run = @ + 1]
    ELSE [(IF s.run # 0 THEN AddPairToBlock(s) ELSE s) EXCEPT !.ch = b, !.run = 1]

EncodeBlock(s) ==
    LET crc == Crc(s.raw)
        column == LastColumn(s.block)
        alphabet == AlphabetOf(column)
        symbols == BlockSymbols(column, alphabet)
        tables == TablesFor(symbols, Len(alphabet) + 2)
    IN {LET coded == CodedBits(symbols, tables, selectors)
            eob == Len(CodeBits(tables[selectors[GroupOf(Len(symbols))] + 1], Len(alphabet) + 1))
        IN [s EXCEPT !.block = << >>, !.raw = << >>, !.combined = Combine(@, crc), !.last = eob,
                     !.bits = @ \o HeaderBits(crc, 0, origin, alphabet, tables, selectors) \o coded]
        : origin \in Origins(s.block), selectors \in SelectorsFor(symbols)}

(* take_settled: the bits of the last write stay, even whole bytes.        *)
HandOutSettled(s) ==
    LET n == Larger(Len(s.bits) - s.last, 0) \div ByteBits IN
    [s EXCEPT !.pending = @ \o BzBytes(SubSeq(s.bits, 1, n * ByteBits)), !.bits = After(@, n * ByteBits)]

WriteFooter(s) ==
    [s EXCEPT !.pending = @ \o BzBytes(Aligned(s.bits \o EndMagic \o Field(s.combined, CrcBits))),
              !.bits = << >>]

(* The bytes in the block are coded, if there are any.                     *)
CloseBlock(s) == IF s.block = << >> THEN {s} ELSE EncodeBlock(s)

Fed(s, b) ==
    LET t == AddChar(WithHeader(s), b) IN
    IF Len(t.block) < BlockInputCap(t) THEN {t} ELSE {HandOutSettled(u) : u \in EncodeBlock(t)}

Queued == state.pending # << >>

BzEncode ==
    \/ DrainPending
    \/ Queued /\ NoRoom /\ Return(state, << >>)
    \/ ~Queued /\ NoInput /\ Return(state, << >>)
    \/ ~Queued /\ ~NoInput /\ \E s \in Fed(state, NextByte) : Turn(s, 1, << >>)

BzFinish(newDecoder) ==
    \/ DrainPending
    \/ Queued /\ NoRoom /\ Return(state, << >>)
    \/ /\ ~Queued /\ ~state.finished
       /\ \E s \in CloseBlock(FlushRun(WithHeader(state))) :
              Turn([WriteFooter(HandOutSettled(s)) EXCEPT !.finished = TRUE], 0, << >>)
    \/ ~Queued /\ state.finished /\ EncodeDone(state, newDecoder)

(* Closes the block and hands out whole bytes: the rest of the last one    *)
(* waits for what follows.                                                 *)
NotClosed ==
    \/ ~state.headed \/ state.run # 0 \/ state.block # << >>
    \/ Len(state.bits) - state.last >= ByteBits

BzFlush ==
    \/ NotClosed /\ \E s \in CloseBlock(FlushRun(WithHeader(state))) : Turn(HandOutSettled(s), 0, << >>)
    \/ ~NotClosed /\ DrainPending
    \/ ~NotClosed /\ Queued /\ NoRoom /\ Return(state, << >>)
    \/ ~NotClosed /\ ~Queued /\ FlushDone(state, << >>)

-----------------------------------------------------------------------------
(* The decoder: `bit` is where its parser stands in all the bytes it took. *)
(* `late` is a history variable: the bytes taken by the last call that did *)
(* not look at a block header again because too few had come since it was  *)
(* found too short.  They may reach behind the end of the stream, and no   *)
(* later call can give them back.                                          *)
NoBlock == [crc |-> 0]
NewBzDecoder(multi) ==
    [multi |-> multi, at |-> "Header", bit |-> 0, level |-> 0, combined |-> 0, retry |-> 0, late |-> 0,
     block |-> NoBlock, pending |-> << >>, stage |-> "enter", from |-> 0, cap |-> 0, starved |-> FALSE]

Input == BzBits(SubSeq(src, 1, pos))
Left == pos * ByteBits - state.bit
Finishing == phase = "decode_finish"

(* Reading a header: a value and where it ends, or too short, or bad.      *)
Short == [is |-> "short"]
Spoilt == [is |-> "bad"]

AlphabetAt(b, at) ==
    LET n == Cardinality(ByteValues) \div StripeSize
        stripes == {i \in 1..n : b[at + i] = 1}
        Mask(i) == at + n + StripeSize * Cardinality({j \in stripes : j < i})
        end == at + n + StripeSize * Cardinality(stripes)
    IN IF at + n > Len(b) THEN Short
       ELSE IF end > Len(b) THEN Short
       ELSE [is |-> "ok", at |-> end,
             value |-> Ascending({(i - 1) * StripeSize + j - 1 : i \in stripes, j \in 1..StripeSize}
                           \cap {v \in ByteValues :
                                    LET i == (v \div StripeSize) + 1 IN
                                    i \in stripes /\ b[Mask(i) + (v % StripeSize) + 1] = 1})]

RECURSIVE SelectorsAt(_, _, _, _, _)
SelectorsAt(b, at, n, list, found) ==
    IF n = 0 THEN [is |-> "ok", at |-> at, value |-> found]
    ELSE LET ends == {k \in 0..(Len(list) - 1) : at + k < Len(b) /\ b[at + k + 1] = 0}
         IN IF ends = {} THEN (IF at + Len(list) > Len(b) THEN Short ELSE Spoilt)
            ELSE LET k == CHOOSE k \in ends : \A j \in ends : k <= j
                     more == Len(found) < MaxSelectors
                 IN SelectorsAt(b, at + k + 1, n - 1,
                                IF more THEN ToFront(list, k) ELSE list,
                                IF more THEN Append(found, list[k + 1]) ELSE found)

(* Lengths of n more symbols, from `cur` on.                               *)
RECURSIVE LengthsAt(_, _, _, _, _)
LengthsAt(b, at, cur, n, lens) ==
    IF cur \notin 1..MaxCodeLen THEN Spoilt
    ELSE IF n = 0 THEN [is |-> "ok", at |-> at, value |-> lens]
    ELSE IF at >= Len(b) THEN Short
    ELSE IF b[at + 1] = 0 THEN LengthsAt(b, at + 1, cur, n - 1, Append(lens, cur))
    ELSE IF at + 1 >= Len(b) THEN Short
    ELSE LengthsAt(b, at + 2, IF b[at + 2] = 0 THEN cur + 1 ELSE cur - 1, n, lens)

RECURSIVE TablesAt(_, _, _, _, _)
TablesAt(b, at, n, size, tables) ==
    IF n = 0 THEN [is |-> "ok", at |-> at, value |-> tables]
    ELSE IF at + LenFieldBits > Len(b) THEN Short
    ELSE LET t == LengthsAt(b, at + LenFieldBits, FieldAt(b, at, LenFieldBits), size, << >>) IN
         IF t.is # "ok" THEN t ELSE TablesAt(b, t.at, n - 1, size, Append(tables, t.value))

(* read_block_header, from behind the magic.                               *)
ReadBlockHeader(b, at) ==
    LET map == at + CrcBits + 1 + OriginBits
        alphabet == AlphabetAt(b, map)
        counts == alphabet.at
        n == FieldAt(b, counts, TablesBits)
        chosen == FieldAt(b, counts + TablesBits, CountBits)
        selectors == SelectorsAt(b, counts + TablesBits + CountBits, chosen, Places(n), << >>)
        tables == TablesAt(b, selectors.at, n, Len(alphabet.value) + 2, << >>)
    IN IF map > Len(b) THEN Short
       ELSE IF alphabet.is # "ok" THEN alphabet
       ELSE IF alphabet.value = << >> THEN Spoilt
       ELSE IF counts + TablesBits > Len(b) THEN Short
       ELSE IF n \notin TableCounts THEN Spoilt
       ELSE IF counts + TablesBits + CountBits > Len(b) THEN Short
       ELSE IF chosen = 0 THEN Spoilt
       ELSE IF selectors.is # "ok" THEN selectors
       ELSE IF tables.is # "ok" THEN tables
       ELSE [is |-> "ok", at |-> tables.at,
             block |-> [crc |-> FieldAt(b, at, CrcBits), randomised |-> b[at + CrcBits + 1] = 1,
                        origin |-> FieldAt(b, at + CrcBits + 1, OriginBits),
                        alphabet |-> alphabet.value, selectors |-> selectors.value,
                        tables |-> [t \in DOMAIN tables.value |-> DecodeTable(tables.value[t])], indices |-> << >>, read |-> 0, run |-> 0, weight |-> 1]]

-----------------------------------------------------------------------------
Stay(s) == Turn(s, 0, << >>)
Leave(starved) == Stay([state EXCEPT !.stage = "leave", !.starved = starved])
Starve == Leave(TRUE)

(* raw_decode takes all its input.                                         *)
BzEnter ==
    /\ state.stage = "enter"
    /\ Turn([state EXCEPT !.stage = "loop", !.from = pos, !.cap = room], avail - pos, << >>)

(* The top of the loop: hand out, or stop.                                 *)
BzDrain ==
    /\ state.stage = "loop" /\ Queued /\ ~NoRoom
    /\ LET n == Smaller(Len(state.pending), room) IN
       Turn([state EXCEPT !.pending = After(@, n),
                          !.at = IF n = Len(state.pending) /\ @ = "DrainDecoded" THEN "BlockOrEnd" ELSE @],
            0, SubSeq(state.pending, 1, n))

OutputFull == NoRoom /\ state.cap > 0
BzStop ==
    /\ state.stage = "loop"
    /\ \/ Queued /\ NoRoom
       \/ ~Queued /\ (state.at = "Done" \/ OutputFull)
    /\ Leave(FALSE)

Stepping(at) == state.stage = "loop" /\ ~Queued /\ ~OutputFull /\ state.at = at

TryHeader ==
    /\ Stepping("Header")
    /\ LET magic == Len(BzMagic)
           off == state.bit \div ByteBits
       IN \/ pos - off < magic + 1 /\ Starve
          \/ /\ pos - off >= magic + 1
             /\ IF SubSeq(src, off + 1, off + magic) = BzMagic /\ src[off + magic + 1] \in BzLevels
                THEN Stay([state EXCEPT !.level = src[off + magic + 1], !.at = "BlockOrEnd",
                                           !.bit = @ + (magic + 1) * ByteBits])
                ELSE Fail

MagicLen == Len(BlockMagic)

TryBlockOrEnd ==
    /\ Stepping("BlockOrEnd")
    /\ \/ Left < MagicLen /\ Starve
       \/ /\ Left >= MagicLen
          /\ LET magic == SubSeq(Input, state.bit + 1, state.bit + MagicLen)
                 header == ReadBlockHeader(Input, state.bit + MagicLen)
                 parsed == pos - (state.bit \div ByteBits)
             IN \/ /\ magic = BlockMagic /\ ~Finishing /\ pos < state.retry
                   /\ Stay([state EXCEPT !.stage = "leave", !.starved = TRUE, !.late = pos])
                \/ /\ magic = BlockMagic /\ (Finishing \/ pos >= state.retry)
                   /\ \/ header.is = "ok"
                           /\ Stay([state EXCEPT !.retry = 0, !.bit = header.at, !.at = "Symbols",
                                                    !.block = header.block])
                      \/ header.is = "short"
                           /\ Stay([state EXCEPT !.retry = pos + Larger(parsed \div RetryPart, 1),
                                                    !.stage = "leave", !.starved = TRUE])
                      \/ header.is = "bad" /\ Fail
                \/ magic = EndMagic /\ Stay([state EXCEPT !.bit = @ + MagicLen, !.at = "StreamCrc"])
                \/ magic \notin {BlockMagic, EndMagic} /\ Fail

TryStreamCrc ==
    /\ Stepping("StreamCrc")
    /\ \/ Left < CrcBits /\ Starve
       \/ Left >= CrcBits /\ FieldAt(Input, state.bit, CrcBits) # state.combined /\ Fail
       \/ /\ Left >= CrcBits /\ FieldAt(Input, state.bit, CrcBits) = state.combined
          /\ Stay([state EXCEPT !.bit = ByteBits * ((@ + CrcBits + ByteBits - 1) \div ByteBits),
                                   !.at = IF state.multi THEN "BetweenStreams" ELSE "Done"])

(* Another stream, or bytes that are not one.                              *)
TryBetweenStreams ==
    /\ Stepping("BetweenStreams")
    /\ LET ahead == SubSeq(src, (state.bit \div ByteBits) + 1, pos)
           n == Smaller(Len(ahead), Len(BzMagic))
           another == SubSeq(ahead, 1, n) = SubSeq(BzMagic, 1, n)
           whole == Len(ahead) > Len(BzMagic)
           level == IF whole THEN ahead[Len(BzMagic) + 1] ELSE 0
       IN \/ another /\ ~whole /\ ~Finishing /\ Starve
          \/ another /\ whole /\ level \in BzLevels
               /\ Stay([state EXCEPT !.combined = 0, !.at = "Header"])
          \/ (~another \/ (whole /\ level \notin BzLevels) \/ (~whole /\ Finishing))
               /\ Stay([state EXCEPT !.at = "Done"])

(* The end of a block: everything undone, and its checksum.                *)
Rebuilt(blk) ==
    LET indices == blk.indices \o Copies(0, blk.run)
        column == MtfInverse(indices, blk.alphabet)
        block == BwtInverse(column, blk.origin)
    IN Rle1Inverse(IF blk.randomised THEN Derandomise(block) ELSE block)

EndOfBlock(blk, at) ==
    LET indices == Len(blk.indices) + blk.run IN
    \/ blk.origin >= indices /\ Fail
    \/ /\ blk.origin < indices
       /\ IF Crc(Rebuilt(blk)) # blk.crc THEN Fail
          ELSE Stay([state EXCEPT !.bit = at, !.block = NoBlock, !.combined = Combine(@, blk.crc),
                                     !.pending = Rebuilt(blk), !.at = "DrainDecoded"])

(* Symbols as far as the input holds them, or to the end of the block.     *)
RECURSIVE SymbolsFrom(_, _, _)
SymbolsFrom(blk, b, at) ==
    LET group == blk.read \div GroupSize
        most == state.level * LevelUnit
        used == Len(blk.alphabet)
        found == DecodeSymbol(blk.tables[blk.selectors[group + 1] + 1], b, at)
        s == found.symbol
        next == [blk EXCEPT !.read = @ + 1]
        run == blk.run + (s + 1) * blk.weight
    IN IF group >= Len(blk.selectors) THEN Spoilt
       ELSE IF found.is = "short" THEN [is |-> "short", at |-> at, block |-> blk]
       ELSE IF found.is = "bad" THEN Spoilt
       ELSE IF s = used + 1 THEN [is |-> "end", at |-> found.at, block |-> next]
       ELSE IF s <= RunB
       THEN IF Len(blk.indices) + run > most THEN Spoilt
            ELSE SymbolsFrom([next EXCEPT !.run = run, !.weight = 2 * @], b, found.at)
       ELSE IF s - 1 >= used \/ Len(blk.indices) + blk.run >= most THEN Spoilt
       ELSE SymbolsFrom([next EXCEPT !.run = 0, !.weight = 1, !.indices = @ \o Copies(0, blk.run) \o <<s - 1>>],
                        b, found.at)

DecodeSymbols ==
    /\ Stepping("Symbols")
    /\ LET r == SymbolsFrom(state.block, Input, state.bit) IN
       \/ r.is = "bad" /\ Fail
       \/ r.is = "short" /\ r.at = state.bit /\ Starve
       \/ r.is = "short" /\ r.at # state.bit /\ Stay([state EXCEPT !.bit = r.at, !.block = r.block])
       \/ r.is = "end" /\ EndOfBlock(r.block, r.at)

(* The bytes behind the parser go back, as far as they came in this call,  *)
(* unless it waits for more.                                               *)
BzLeave ==
    /\ state.stage = "leave"
    /\ LET frontier == (state.bit + ByteBits - 1) \div ByteBits
           back == IF state.starved THEN 0 ELSE Smaller(pos - frontier, pos - state.from)
       IN Turn([state EXCEPT !.stage = "return"], -back, << >>)

AsEntered == [state EXCEPT !.stage = "enter", !.from = 0, !.cap = 0, !.starved = FALSE]
BzComplete == state.at = "Done" /\ ~Queued

BzReturn ==
    /\ state.stage = "return"
    /\ \/ BzComplete /\ ~Finishing /\ End(AsEntered, << >>)
       \/ BzComplete /\ Finishing /\ DecodeDone
       \/ ~BzComplete /\ (~Finishing \/ state.cap = 0 \/ room < state.cap) /\ Return(AsEntered, << >>)
       \/ ~BzComplete /\ Finishing /\ state.cap > 0 /\ room = state.cap /\ Fail

BzDecode ==
    \/ BzEnter \/ BzDrain \/ BzStop
    \/ TryHeader \/ TryBlockOrEnd \/ TryStreamCrc \/ TryBetweenStreams \/ DecodeSymbols
    \/ BzLeave \/ BzReturn
=============================================================================
