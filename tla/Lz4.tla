-------------------------------- MODULE Lz4 ---------------------------------
(***************************************************************************)
(* LZ4 (lz4/): the block format, this crate's own container of blocks, and *)
(* the frame format with its descriptor, checksums and linked blocks.  The *)
(* nibbles of a token have 2 bits, lengths and limits are cut down         *)
(* likewise; FLG and BD are the code's.                                    *)
(***************************************************************************)
EXTENDS LzBlocks

CONSTANTS
    BlockSize,    \* BLOCK_SIZE of the container
    SmallFrame,   \* block size of BD code 4
    LargeFrame,   \* of the codes above
    Levels,       \* "fast", "hc" or "optimal"
    WindowSize    \* WINDOW_SIZE

ASSUME Lz4Assumption ==
    /\ BlockSize \in Nat \ {0} /\ WindowSize \in Nat \ {0}
    /\ Levels \subseteq {"fast", "hc", "optimal"}

Nibble == 3
MinMatch == 2
MaxDistance == 255
LastLiterals == 2
MfLimit == 4

CompressBound(n) == n + (n \div ByteMax) + 2

-----------------------------------------------------------------------------
(* The block format.  No match starts less than MfLimit bytes from the     *)
(* end, and none reaches the last LastLiterals.                            *)
Rule(data, greedy) ==
    [min |-> MinMatch, max |-> Len(data), far |-> MaxDistance, greedy |-> greedy,
     start |-> Larger(Len(data) - MfLimit + 1, 0), end |-> Larger(Len(data) - LastLiterals, 0)]

TooShort(block) == Len(block) < MfLimit + 1

FastParses(dict, block) ==
    IF TooShort(block) THEN {<< >>} ELSE Parses(block, 0, Rule(block, TRUE))
LazyParses(dict, block) ==
    IF TooShort(block) THEN {<< >>} ELSE Parses(dict \o block, Len(dict), Rule(dict \o block, TRUE))
OptimalParses(dict, block) ==
    IF TooShort(block) THEN {<< >>} ELSE Parses(dict \o block, Len(dict), Rule(dict \o block, FALSE))

Field(n) == Smaller(n, Nibble)
Rest(n) == IF n < Nibble THEN << >> ELSE Continued(n - Nibble)

EmitSequence(literals, dist, len) ==
    <<4 * Field(Len(literals)) + Field(len - MinMatch)>> \o Rest(Len(literals)) \o literals
    \o Word(dist) \o Rest(len - MinMatch)

EmitLastLiterals(literals) == <<4 * Field(Len(literals))>> \o Rest(Len(literals)) \o literals

Emitted(data, from, parse) ==
    LET e == FoldLeft(LAMBDA a, m : [anchor |-> m.at + m.len,
                                     out |-> a.out \o EmitSequence(SubSeq(data, a.anchor + 1, m.at), m.dist, m.len)],
                      [anchor |-> from, out |-> << >>], parse)
    IN e.out \o EmitLastLiterals(After(data, e.anchor))

(* The fast parse has no dictionary: with one, the chains are used.        *)
EncodeBlock(dict, block, level) ==
    LET parses == CASE level = "fast" /\ dict = << >> -> FastParses(dict, block)
                    [] level = "optimal" -> OptimalParses(dict, block)
                    [] OTHER -> LazyParses(dict, block)
    IN {Emitted(dict \o block, Len(dict), p) : p \in parses}

(* Sequences from ip on, over the history h, up to `most` bytes of it.     *)
RECURSIVE Sequences(_, _, _, _)

MatchFrom(s, ip, h, most, dist, excess) ==
    IF ~excess.ok THEN Broken
    ELSE IF Len(h) + MinMatch + excess.n > most THEN Broken
    ELSE Sequences(s, excess.ip, CopyOf(h, dist, MinMatch + excess.n), most)

OffsetFrom(s, ip, h, most, match) ==
    IF ip = Len(s) THEN [ok |-> TRUE, out |-> h]
    ELSE IF ip + 2 > Len(s) THEN Broken
    ELSE IF WordAt(s, ip) = 0 \/ WordAt(s, ip) > Len(h) THEN Broken
    ELSE MatchFrom(s, ip + 2, h, most, WordAt(s, ip), match)

Excess(s, ip, field) ==
    IF field < Nibble THEN [ok |-> TRUE, n |-> field, ip |-> ip]
    ELSE LET more == LengthAt(s, ip, ByteMax) IN
         IF more.ok THEN [more EXCEPT !.n = @ + Nibble] ELSE Broken

LiteralsFrom(s, lit, h, most, token) ==
    IF ~lit.ok THEN Broken
    ELSE IF lit.ip + lit.n > Len(s) \/ Len(h) + lit.n > most THEN Broken
    ELSE OffsetFrom(s, lit.ip + lit.n, h \o SubSeq(s, lit.ip + 1, lit.ip + lit.n), most,
                    Excess(s, lit.ip + lit.n + 2, token % 4))

Sequences(s, ip, h, most) ==
    IF ip >= Len(s) THEN Broken
    ELSE LiteralsFrom(s, Excess(s, ip + 1, s[ip + 1] \div 4), h, most, s[ip + 1])

(* Bug: matches may not reach into the window.                             *)
OwnBlockOnly(block, window, most) ==
    Sequences(block, 0, << >>, most)

DecodeLinkedBlock(block, window, most) ==
    LET r == Sequences(block, 0, window, Len(window) + most) IN
    IF r.ok THEN [r EXCEPT !.out = After(@, Len(window))] ELSE r

DecodeBlock(block, most) == DecodeLinkedBlock(block, << >>, most)

-----------------------------------------------------------------------------
(* The container: a word of length before each block, zero at the end.     *)
NewBlockEncoder(level) == [raw |-> << >>, pending |-> << >>, finished |-> FALSE, level |-> level]

BuildBlock(s) == {WithBlock(s, b) : b \in EncodeBlock(<< >>, s.raw, s.level)}

BlocksEncode == BlockEncode(BlockSize, BuildBlock)
BlocksEncodeFinish(newDecoder) == BlockFinish(BuildBlock, Terminator, newDecoder)

MaxBlock == 2 * (CompressBound(BlockSize) + 1)

BlocksDecode ==
    \/ FillItem \/ ReadLength(MaxBlock)
    \/ ReadBlock(DecodeBlock(state.got, 2 * BlockSize))
    \/ BlocksEnd

(* A stream that stops between two blocks is taken for a whole one.        *)
BlocksDecodeFinish == ItemsFinish(BetweenBlocks)

-----------------------------------------------------------------------------
(* The frame format.  FLG: version 01, independent blocks, block checksum, *)
(* content size, content checksum, a reserved bit, dictionary id.          *)
Magic == <<2, 4>>
Has(flg, bit) == (flg \div bit) % 2 = 1
Indep == 32
BlockSum == 16
ContentSize == 8
ContentSum == 4
Reserved == 2
DictId == 1

SumWord(c) == Word(c)
HeaderSum(descriptor) == Checksum(0, descriptor) % 16
BlockMax(bd) == IF bd \div 16 = 4 THEN SmallFrame ELSE LargeFrame

BuildHeader(flg, bd) == Magic \o <<flg, bd, HeaderSum(<<flg, bd>>)>>

NewFrameEncoder(flg, bd, level) ==
    [raw |-> << >>, pending |-> BuildHeader(flg, bd), finished |-> FALSE, level |-> level,
     flg |-> flg, bd |-> bd, sum |-> 0, window |-> << >>]

(* Bug: the window starts over with every block.                           *)
PushOneBlock(flg, window, bytes) ==
    IF Has(flg, Indep) THEN window ELSE LastBytes(bytes, WindowSize)

PushWindow(flg, window, bytes) ==
    IF Has(flg, Indep) THEN window ELSE LastBytes(window \o bytes, WindowSize)

(* Blocks that do not shrink are stored, with the flag of 128.             *)
BuildFrameBlock(s) ==
    {LET stored == Len(b) >= Len(s.raw)
         payload == IF stored THEN s.raw ELSE b
     IN [s EXCEPT !.raw = << >>, !.window = PushWindow(s.flg, @, s.raw),
                  !.sum = IF Has(s.flg, ContentSum) THEN Checksum(@, s.raw) ELSE @,
                  !.pending = Word(Len(payload) + (IF stored THEN 128 ELSE 0)) \o payload
                              \o (IF Has(s.flg, BlockSum) THEN SumWord(Checksum(0, payload)) ELSE << >>)]
     : b \in EncodeBlock(s.window, s.raw, s.level)}

BuildTrailer(s) == <<0, 0>> \o (IF Has(s.flg, ContentSum) THEN SumWord(s.sum) ELSE << >>)

FrameEncode == BlockEncode(BlockMax(state.bd), BuildFrameBlock)
FrameEncodeFinish(newDecoder) == BlockFinish(BuildFrameBlock, BuildTrailer, newDecoder)

NewFrameDecoder ==
    [at |-> "Magic", need |-> 2, got |-> << >>, pending |-> << >>, flg |-> 0, bd |-> 0,
     block |-> << >>, stored |-> FALSE, window |-> << >>, sum |-> 0]

ReadMagic ==
    /\ Reading("Magic")
    /\ IF state.got = Magic THEN Continue(Goto(state, "FlgBd", 2)) ELSE Fail

DescriptorTail(flg) ==
    (IF Has(flg, ContentSize) THEN 2 ELSE 0) + (IF Has(flg, DictId) THEN 1 ELSE 0)

(* parse_flg_bd.                                                           *)
ReadFlgBd ==
    /\ Reading("FlgBd")
    /\ LET flg == state.got[1]
           bd == state.got[2]
           s == [state EXCEPT !.flg = flg, !.bd = bd, !.block = state.got]
       IN IF \/ flg \div 64 # 1 \/ Has(flg, Reserved)
             \/ bd \div 128 # 0 \/ bd % 16 # 0 \/ (bd \div 16) % 8 < 4
          THEN Fail
          ELSE Continue(IF DescriptorTail(flg) > 0 THEN Goto(s, "DescriptorTail", DescriptorTail(flg))
                        ELSE Goto(s, "Hc", 1))

ReadDescriptorTail ==
    /\ Reading("DescriptorTail")
    /\ Continue(Goto([state EXCEPT !.block = @ \o state.got], "Hc", 1))

ReadHc ==
    /\ Reading("Hc")
    /\ IF state.got[1] = HeaderSum(state.block)
       THEN Continue(Goto([state EXCEPT !.block = << >>], "BlockSize", 2)) ELSE Fail

ReadBlockSize ==
    /\ Reading("BlockSize")
    /\ LET word == WordAt(state.got, 0)
           n == word % 128
           stored == word >= 128
           max == BlockMax(state.bd)
       IN \/ word = 0 /\ Has(state.flg, ContentSum) /\ Continue(Goto(state, "ContentChecksum", 2))
          \/ word = 0 /\ ~Has(state.flg, ContentSum) /\ End(Goto(state, "Done", 0), << >>)
          \/ word # 0 /\ (n = 0 \/ n > CompressBound(max) \/ (stored /\ n > max)) /\ Fail
          \/ word # 0 /\ n \in 1..(IF stored THEN max ELSE CompressBound(max))
               /\ Continue(Goto([state EXCEPT !.stored = stored], "BlockData", n))

ReadBlockData ==
    /\ Reading("BlockData")
    /\ LET s == [state EXCEPT !.block = state.got] IN
       Continue(IF Has(s.flg, BlockSum) THEN Goto(s, "BlockChecksum", 2) ELSE Goto(s, "Decode", 0))

ReadBlockChecksum ==
    /\ Reading("BlockChecksum")
    /\ IF state.got = SumWord(Checksum(0, state.block)) THEN Continue(Goto(state, "Decode", 0)) ELSE Fail

DecodeFrameBlock ==
    /\ Reading("Decode")
    /\ LET r == IF state.stored THEN [ok |-> TRUE, out |-> state.block]
                ELSE DecodeLinkedBlock(state.block, IF Has(state.flg, Indep) THEN << >> ELSE state.window,
                                       BlockMax(state.bd))
       IN IF ~r.ok THEN Fail
          ELSE Continue([Goto(state, "BlockSize", 2) EXCEPT
                   !.pending = r.out, !.block = << >>, !.window = PushWindow(state.flg, @, r.out),
                   !.sum = IF Has(state.flg, ContentSum) THEN Checksum(@, r.out) ELSE @])

ReadContentChecksum ==
    /\ Reading("ContentChecksum")
    /\ IF state.got = SumWord(state.sum) THEN End(Goto(state, "Done", 0), << >>) ELSE Fail

FrameDecode ==
    \/ FillItem \/ ReadMagic \/ ReadFlgBd \/ ReadDescriptorTail \/ ReadHc
    \/ ReadBlockSize \/ ReadBlockData \/ ReadBlockChecksum \/ DecodeFrameBlock \/ ReadContentChecksum

FrameDecodeFinish == ItemsFinish(state.at = "Done" \/ (state.at = "Magic" /\ state.got = << >>))
-----------------------------------------------------------------------------
(***************************************************************************)
(* LZ5 / Lizard (lz5/): an encoder that only stores, and a decoder of      *)
(* frames whose blocks are stored or of the LZ4 mode: five streams, of     *)
(* which this one takes tokens and literals with the offsets among them.   *)
(***************************************************************************)

CONSTANT StoreSize   \* DEFAULT_BLOCK_SIZE, of BD code 1; each code above doubles it

Lz5Magic == <<2, 5>>
Lz5Flag(flg, bit) == (flg \div bit) % 2 = 1
HasBlockSum == 16
HasContentSize == 8
HasContentSum == 4

DescriptorSum(descriptor) == Checksum(0, descriptor) % 16
SizeOf(bd) == StoreSize * 2^((bd \div 16) - 1)

-----------------------------------------------------------------------------
(* Version 01, independent blocks.                                         *)
Header == Lz5Magic \o <<96, 16, DescriptorSum(<<96, 16>>)>>

NewLz5Encoder == [raw |-> << >>, pending |-> Header, finished |-> FALSE]

Store(s) == {[s EXCEPT !.raw = << >>, !.pending = Word(Len(s.raw) + 128) \o s.raw]}
EndMark(s) == <<0, 0>>

Lz5Encode == BlockEncode(StoreSize, Store)
Lz5EncodeFinish(newDecoder) == BlockFinish(Store, EndMark, newDecoder)

-----------------------------------------------------------------------------
(* A compressed block.  Lengths in the literals: below 14 one byte, then   *)
(* 14 and a word, or 15 and three bytes.                                   *)
Stream(s, ip) ==
    IF ip + 2 > Len(s) THEN Broken
    ELSE IF ip + 2 + WordAt(s, ip) > Len(s) THEN Broken
    ELSE [ok |-> TRUE, bytes |-> SubSeq(s, ip + 3, ip + 2 + WordAt(s, ip)), ip |-> ip + 2 + WordAt(s, ip)]

LengthExt(s, ip) ==
    LET more == IF ip >= Len(s) THEN 0 ELSE CASE s[ip + 1] < 14 -> 0 [] s[ip + 1] = 14 -> 2 [] s[ip + 1] = 15 -> 3
    IN IF ip + 1 + more > Len(s) THEN Broken
       ELSE [ok |-> TRUE, ip |-> ip + 1 + more,
             n |-> CASE more = 0 -> s[ip + 1]
                     [] more = 2 -> WordAt(s, ip + 1)
                     [] more = 3 -> WordAt(s, ip + 1) + 256 * s[ip + 4]]

NibbleAt(s, ip, field) ==
    IF field < 3 THEN [ok |-> TRUE, n |-> field, ip |-> ip]
    ELSE LET more == LengthExt(s, ip) IN IF more.ok THEN [more EXCEPT !.n = @ + 3] ELSE Broken

(* One token: literals, an offset, a match.                                *)
MatchOf(r, lits, dist, excess, cap) ==
    IF ~excess.ok THEN Broken
    ELSE IF Len(r.out) + 2 + excess.n > cap THEN Broken
    ELSE [ok |-> TRUE, lp |-> excess.ip, out |-> CopyOf(r.out, dist, 2 + excess.n)]

OffsetOf(r, lits, high, cap) ==
    IF r.lp + 2 > Len(lits) THEN Broken
    ELSE IF WordAt(lits, r.lp) \notin 1..Len(r.out) THEN Broken
    ELSE MatchOf(r, lits, WordAt(lits, r.lp), NibbleAt(lits, r.lp + 2, high), cap)

LiteralsOf(r, lits, lit, high, cap) ==
    IF ~lit.ok THEN Broken
    ELSE IF lit.ip + lit.n > Len(lits) \/ Len(r.out) + lit.n > cap THEN Broken
    ELSE OffsetOf([lp |-> lit.ip + lit.n, out |-> r.out \o SubSeq(lits, lit.ip + 1, lit.ip + lit.n)],
                  lits, high, cap)

TokenSequences(flags, lits, cap) ==
    LET r == FoldLeft(LAMBDA a, t : IF a.ok THEN LiteralsOf(a, lits, NibbleAt(lits, a.lp, t % 4), t \div 4, cap)
                                    ELSE a,
                      [ok |-> TRUE, lp |-> 0, out |-> << >>], flags)
    IN IF ~r.ok THEN Broken
       ELSE IF Len(r.out) + Len(lits) - r.lp > cap THEN Broken
       ELSE [ok |-> TRUE, out |-> r.out \o After(lits, r.lp)]

(* Stored inside: 128, a length, the bytes; what follows is not looked at. *)
StoredInside(s, cap) ==
    LET r == Stream(s, 2) IN
    IF ~r.ok THEN Broken ELSE IF Len(r.bytes) > cap THEN Broken ELSE [ok |-> TRUE, out |-> r.bytes]

Streams(s) ==
    FoldLeft(LAMBDA a, i : IF ~a.ok THEN a
                           ELSE LET r == Stream(s, a.ip) IN
                                IF r.ok THEN [ok |-> TRUE, ip |-> r.ip, all |-> Append(a.all, r.bytes)] ELSE Broken,
             [ok |-> TRUE, ip |-> 2, all |-> << >>], <<1, 2, 3, 4, 5>>)

DecodeCompressed(s, cap) ==
    IF Len(s) < 2 THEN Broken
    ELSE IF s[1] \notin (10..19) \cup (30..39) THEN Broken
    ELSE IF s[2] = 128 THEN StoredInside(s, cap)
    ELSE IF s[2] % 32 # 0 THEN Broken
    ELSE LET r == Streams(s) IN
         IF ~r.ok THEN Broken
         ELSE IF r.ip # Len(s) \/ \E i \in 1..3 : r.all[i] # << >> THEN Broken
         ELSE TokenSequences(r.all[4], r.all[5], cap)

-----------------------------------------------------------------------------
(* The decoder.  The third byte of the header says how long it is.         *)
NewLz5Decoder == [at |-> "Flg", need |-> 3, got |-> << >>, pending |-> << >>, header |-> << >>]

BadFlg(flg) == flg \div 64 # 1 \/ flg % 4 # 0

ReadFlg ==
    /\ Reading("Flg")
    /\ IF BadFlg(state.got[3]) THEN Fail
       ELSE Continue(Goto([state EXCEPT !.header = state.got], "HeaderTail",
                          IF Lz5Flag(state.got[3], HasContentSize) THEN 3 ELSE 2))

BadBd(bd) == bd \div 128 # 0 \/ bd % 16 # 0 \/ bd \div 16 = 0

(* finish_header: the magic is looked at only now.                         *)
ReadHeader ==
    /\ Reading("HeaderTail")
    /\ LET header == state.header \o state.got
           descriptor == SubSeq(header, 3, Len(header) - 1)
       IN IF \/ SubSeq(header, 1, 2) # Lz5Magic \/ Lz5Flag(header[3], HasBlockSum)
             \/ BadBd(header[4]) \/ header[Len(header)] # DescriptorSum(descriptor)
          THEN Fail
          ELSE Continue(Goto([state EXCEPT !.header = descriptor], "BlockSize", 2))

Cap == SizeOf(state.header[2])

ReadSize ==
    /\ Reading("BlockSize")
    /\ LET word == WordAt(state.got, 0)
           n == word % 128
           most == IF word >= 128 THEN Cap ELSE (2 * Cap) + 2
       IN \/ word = 0 /\ Lz5Flag(state.header[1], HasContentSum)
               /\ Continue(Goto(state, "ContentChecksum", 2))
          \/ word = 0 /\ ~Lz5Flag(state.header[1], HasContentSum) /\ End(Goto(state, "Done", 0), << >>)
          \/ word # 0 /\ n > most /\ Fail
          \/ word # 0 /\ n <= most
               /\ Continue(Goto(state, IF word >= 128 THEN "RawBlock" ELSE "CompressedBlock", n))

ReadRaw ==
    /\ Reading("RawBlock")
    /\ Continue([Goto(state, "BlockSize", 2) EXCEPT !.pending = state.got])

ReadCompressed ==
    /\ Reading("CompressedBlock")
    /\ LET r == DecodeCompressed(state.got, Cap) IN
       IF r.ok THEN Continue([Goto(state, "BlockSize", 2) EXCEPT !.pending = r.out]) ELSE Fail

(* The checksum is not compared.                                           *)
SkipChecksum == Reading("ContentChecksum") /\ End(Goto(state, "Done", 0), << >>)

Lz5Decode ==
    \/ FillItem \/ ReadFlg \/ ReadHeader \/ ReadSize \/ ReadRaw \/ ReadCompressed \/ SkipChecksum

(* A stream that stops between two blocks is taken for a whole one.        *)
Lz5DecodeFinish == ItemsFinish(state.at = "Done" \/ (state.at = "BlockSize" /\ state.got = << >>))
=============================================================================
