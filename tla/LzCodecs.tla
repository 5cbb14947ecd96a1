------------------------------ MODULE LzCodecs ------------------------------
(***************************************************************************)
(* LZ4 in blocks and in frames, LZ5, LZO, Snappy, LZF, LZS, Plain LZ77,    *)
(* ADC, LZNT1 and LZSS driven by CodecCall: texts with matches that        *)
(* overlap, reach back into an earlier block and outgrow their length      *)
(* field; and decoders alone over streams written out by hand, sound and   *)
(* broken.                                                                 *)
(***************************************************************************)
EXTENDS Lz4, ByteLz, LzTokens

CONSTANT MaxAsked   \* bound: flushes of an encoder

(* What the run remembers of the flushes.                                  *)
VARIABLE restart   \* bytes written and taken when a full flush ended

Remember ==
    restart' = IF FlushEnds /\ state.kind = "full" THEN <<Len(out'), pos>>
               ELSE IF phase' = "encode" /\ out' = << >> THEN << >> ELSE restart

Formats ==
    {"lz4", "lz4_frame", "lz5", "lzo", "snappy", "lzf", "lzs", "xpress", "adc", "lznt1", "lzss"}
Kinds == {"sync", "full"}

-----------------------------------------------------------------------------
(* Texts.                                                                  *)
Run_(n) == Copies(1, n)
Mixed == <<1, 2, 1, 2, 1, 3, 1, 2, 1, 2, 3>>
Counting == [i \in 1..20 |-> i % 16]
TwoBlocks == <<1, 2, 3, 4, 5, 6, 7, 8, 3, 4, 5, 6, 7, 8, 1, 2>>
Halves == Copies(1, 8) \o Copies(2, 8)
Fives == [i \in 1..20 |-> (i % 5) + 1]
Apart == [i \in 1..27 |-> ((i - 1) % 12) + 1]

Flg(bits) == 64 + bits

(* A fresh encoder for a text.                                             *)
Encoders ==
    CASE format = "lz4" ->
             {<<t, NewBlockEncoder(l)>> : t \in {<< >>, Mixed, <<3, 3>>}, l \in Levels}
             \cup {<<t, NewBlockEncoder("fast")>> : t \in {Run_(26), Counting}}
      [] format = "lz4_frame" ->
             {<<TwoBlocks, NewFrameEncoder(Flg(b), 64, "fast")>> : b \in {0, Indep, ContentSum + BlockSum}}
             \cup {<<t, NewFrameEncoder(Flg(ContentSum), 80, "hc")>> : t \in {<< >>, Run_(22)}}
      [] format = "lz5" -> {<<t, NewLz5Encoder>> : t \in {<< >>, Mixed}}
      [] format = "lzo" -> {<<t, NewLzoEncoder>> : t \in {<< >>, <<3, 3>>, Mixed, Run_(14), Apart}}
      [] format = "snappy" ->
             {<<t, NewSnappyEncoder>> : t \in {<< >>, <<3>>, Mixed, Run_(12), Counting, Run_(LenMax + 1)}}
      [] format = "lzf" -> {<<t, NewLzfEncoder>> : t \in {<< >>, Mixed, TwoBlocks}}
      [] format = "lzs" -> {<<t, NewTokenEncoder>> : t \in {<< >>, Mixed, Run_(13), Fives, Run_(MaxLength + 1)}}
      [] format = "xpress" -> {<<t, NewTokenEncoder>> : t \in {<< >>, Mixed, Run_(26), Halves, Run_(MaxLength + 1)}}
      [] format = "adc" -> {<<t, NewTokenEncoder>> : t \in {<< >>, Mixed, Run_(14), Apart}}
      [] format = "lznt1" -> {<<t, NewTokenEncoder>> : t \in {<< >>, Mixed, Run_(20), TwoBlocks}}
      [] format = "lzss" -> {<<t, NewTokenEncoder>> : t \in {<< >>, Mixed, Run_(26), Apart, Run_(MaxLength + 1)}}

NewDecoder ==
    CASE format \in {"lz4", "lzo"} -> NewBlockDecoder
      [] format = "lz4_frame" -> NewFrameDecoder
      [] format = "lz5" -> NewLz5Decoder
      [] format = "snappy" -> NewSnappyDecoder
      [] format = "lzf" -> NewLzfDecoder
      [] format = "lzs" -> NewLzsDecoder
      [] format = "xpress" -> NewXpressDecoder
      [] format = "adc" -> NewAdcDecoder
      [] format = "lznt1" -> NewLznt1Decoder
      [] format = "lzss" -> NewLzssDecoder

-----------------------------------------------------------------------------
(* Streams by hand: the wire, what it decodes to, and whether it is sound. *)
Sound(wire, bytes) == [wire |-> wire, bytes |-> bytes, ok |-> TRUE, used |-> Len(wire)]
Bad(wire, bytes) == [wire |-> wire, bytes |-> bytes, ok |-> FALSE, used |-> Len(wire)]
Followed(stream, junk) == [stream EXCEPT !.wire = @ \o junk]

Sized(block) == Word(Len(block)) \o block
Blocks(block) == Sized(block) \o <<0, 0>>

(* One literal 7, four bytes from 1 back, two literals 5.                  *)
Block4 == <<6, 7, 1, 0, 8, 5, 5>>
Bytes4 == <<7, 7, 7, 7, 7, 5, 5>>
(* Two bytes from 3 back, before anything of the block's own.              *)
Back3 == <<0, 3, 0, 4, 9>>

Lz4Streams ==
    {Sound(Blocks(Block4), Bytes4), Sound(Sized(Block4) \o Blocks(Block4), Bytes4 \o Bytes4),
     Followed(Sound(Blocks(Block4), Bytes4), <<1, 0, 4>>),
     Sound(<<0, 0>>, << >>), Sound(Sized(Block4), Bytes4),
     Sound(Blocks(<<8, 1, 2, 2, 0, 4, 9>>), <<1, 2, 1, 2, 9>>),
     Sound(Blocks(<<12, 15, 1>> \o SubSeq(Counting, 1, 19)), SubSeq(Counting, 1, 19)),
     Sound(Blocks(<<7, 7, 1, 0, 15, 0, 0>>), Copies(7, 21)),
     Bad(Blocks(<<7, 7, 1, 0, 15, 15, 15, 0, 0>>), << >>),
     Bad(Sized(Block4) \o Blocks(<<4, 7, 0, 0, 0>>), Bytes4),
     Bad(Blocks(<<4, 7, 2, 0, 0>>), << >>), Bad(Blocks(<<4, 7, 1>>), << >>), Bad(Blocks(<<4, 7, 1, 0>>), << >>),
     Bad(Blocks(<<12, 15>>), << >>), Bad(Blocks(<<8, 1>>), << >>), Bad(Blocks(<<7, 7, 1, 0, 15>>), << >>),
     Bad(Blocks(Back3), << >>), Bad(Word(60) \o Block4, << >>), Bad(Sized(Block4) \o <<3>>, Bytes4)}

Frame4(bits, tail, rest) ==
    Magic \o <<Flg(bits), 64>> \o tail \o <<HeaderSum(<<Flg(bits), 64>> \o tail)>> \o rest
Stored(bytes) == Word(128 + Len(bytes)) \o bytes
Summed(block, payload) == block \o SumWord(Checksum(0, payload))

FrameStreams ==
    {Sound(Frame4(Indep, << >>, Blocks(Block4)), Bytes4),
     Followed(Sound(Frame4(Indep, << >>, <<0, 0>>), << >>), <<2, 4>>),
     Sound(Frame4(Indep + ContentSize, <<7, 0>>, Blocks(Block4)), Bytes4),
     Sound(Frame4(Indep + ContentSize + DictId, <<7, 0, 3>>, Stored(<<1, 2>>) \o <<0, 0>>), <<1, 2>>),
     Sound(Frame4(Indep + BlockSum, << >>, Summed(Sized(Block4), Block4) \o <<0, 0>>), Bytes4),
     Sound(Frame4(Indep + ContentSum, << >>, Summed(Blocks(Block4), Bytes4)), Bytes4),
     Sound(Frame4(0, << >>, Sized(Block4) \o Blocks(Back3)), Bytes4 \o <<7, 5, 9>>),
     Sound(Frame4(0, << >>, Stored(<<1, 2, 3>>) \o Blocks(Back3)), <<1, 2, 3, 1, 2, 9>>),
     Sound(Frame4(0, << >>, Stored(<<1, 2>>) \o Stored(<<3>>) \o Blocks(Back3)), <<1, 2, 3, 1, 2, 9>>),
     Bad(Frame4(Indep, << >>, Sized(Block4) \o Blocks(Back3)), Bytes4),
     Bad(Frame4(0, << >>, Sized(Block4) \o Sized(Block4) \o Blocks(<<0, 9, 0, 4, 9>>)), Bytes4 \o Bytes4),
     Bad(Frame4(Indep + BlockSum, << >>, Summed(Sized(Block4), Bytes4) \o <<0, 0>>), << >>),
     Bad(Frame4(Indep + ContentSum, << >>, Summed(Blocks(Block4), Block4)), Bytes4),
     Bad(Frame4(Indep, << >>, Stored(Copies(1, 9)) \o <<0, 0>>), << >>),
     Bad(Frame4(Indep, << >>, Word(15) \o Copies(1, 15)), << >>),
     Bad(Frame4(Indep, << >>, <<0, 8>>), << >>),
     Bad(Frame4(Indep, << >>, Blocks(<<7, 7, 1, 0, 5, 0>>)), << >>),
     Bad(Frame4(Indep, << >>, Sized(Block4)), Bytes4), Bad(Frame4(Indep + Reserved, << >>, <<0, 0>>), << >>),
     Bad(Frame4(64, << >>, <<0, 0>>), << >>), Bad(Magic \o <<Flg(0), 64, HeaderSum(<<Flg(0), 64>>) + 1>>, << >>),
     Bad(<<2, 5>>, << >>), Sound(<< >>, << >>)}
    \cup {Bad(Magic \o <<Flg(0), bd, HeaderSum(<<Flg(0), bd>>), 0, 0>>, << >>) : bd \in {48, 65, 128 + 64}}

-----------------------------------------------------------------------------
Frame5(flags, bd, tail, rest) ==
    Lz5Magic \o <<Flg(flags), bd>> \o tail \o <<DescriptorSum(<<Flg(flags), bd>> \o tail)>> \o rest

(* Level, no flag, three empty streams, tokens, literals.                  *)
Lizard(tokens, literals) == <<10, 0, 0, 0, 0, 0, 0, 0>> \o Sized(tokens) \o Sized(literals)
Two_ == <<6>>                    \* two literals, a match of three
Lits5 == <<1, 2, 2, 0, 9>>
Bytes5 == <<1, 2, 1, 2, 1, 9>>

Lz5Blocks ==
    {Sound(Lizard(Two_, Lits5), Bytes5), Sound(Lizard(<< >>, <<4, 4>>), <<4, 4>>),
     Sound(Lizard(<<3>>, <<1, 5, 6, 7, 8, 3, 0>>), <<5, 6, 7, 8, 6, 7>>),
     Sound(Lizard(<<13>>, <<5, 1, 0, 14, 3, 0>>), Copies(5, 9)),
     Sound(Lizard(<<13>>, <<5, 1, 0, 15, 3, 0, 0>>), Copies(5, 9)),
     Sound(<<30, 128, 3, 0, 4, 5, 6>>, <<4, 5, 6>>),
     Bad(Lizard(<<13>>, <<5, 1, 0, 15, 3, 0>>), << >>), Bad(Lizard(<<13>>, <<5, 1, 0, 14, 10, 0>>), << >>),
     Bad(Lizard(<<1>>, <<5, 2, 0>>), << >>), Bad(Lizard(<<1>>, <<5, 0>>), << >>), Bad(Lizard(<<2>>, <<5>>), << >>),
     Bad(Lizard(<<3>>, << >>), << >>), Bad(Lizard(<< >>, Copies(4, 12)), << >>), Bad(<<10>>, << >>),
     Bad(<<20, 0, 0, 0, 0, 0, 0, 0, 0, 0, 0, 0>>, << >>), Bad(<<10, 32>>, << >>), Bad(<<10, 128, 3, 0, 4>>, << >>),
     Bad(<<10, 0, 1, 0, 4, 0, 0, 0, 0, 0, 0, 0, 0>>, << >>), Bad(Lizard(Two_, Lits5) \o <<0>>, << >>),
     Bad(<<10, 0, 3>>, << >>)}

Lz5Streams ==
    {[b EXCEPT !.wire = Frame5(32, 16, << >>, Blocks(@)), !.used = Len(b.wire) + 9] : b \in Lz5Blocks}
    \cup
    {Sound(Frame5(32, 16, << >>, <<0, 0>>), << >>), Sound(Frame5(32, 16, << >>, << >>), << >>),
     Followed(Sound(Frame5(32 + HasContentSize, 32, <<2>>, Stored(Copies(1, 10)) \o <<0, 0>>), Copies(1, 10)), <<3>>),
     Sound(Frame5(32 + HasContentSum, 16, << >>, Stored(<<1>>) \o <<0, 0, 9, 9>>), <<1>>),
     Bad(Frame5(32, 16, << >>, Stored(Copies(1, 10)) \o <<0, 0>>), << >>), Bad(Frame5(32 + HasBlockSum, 16, << >>, << >>), << >>),
     Bad(Frame5(32, 0, << >>, << >>), << >>), Bad(Frame5(32, 17, << >>, << >>), << >>), Bad(<<2, 5, 2>>, << >>),
     Bad(<<1, 5, Flg(32), 16, DescriptorSum(<<Flg(32), 16>>)>>, << >>),
     Bad(Lz5Magic \o <<Flg(32), 16, DescriptorSum(<<Flg(32), 16>>) + 1>>, << >>), Bad(Lz5Magic, << >>),
     Bad(Frame5(32, 16, << >>, Stored(<<1>>) \o Word(130)), <<1>>)}

-----------------------------------------------------------------------------
(* Three literals to begin with, and the end.                              *)
Three == <<8, 1, 2, 3>>
Six == <<11, 1, 2, 3, 4, 5, 6>>
Ten == <<15>> \o [i \in 1..10 |-> i]
B123 == <<1, 2, 3>>

LzoBlocks ==
    {Sound(Three \o Eos, B123), Sound(Three \o <<16, 1>> \o Eos, B123 \o B123), Sound(Eos, << >>),
     Sound(Three \o <<17, 1, 9>> \o Eos, B123 \o B123 \o <<9>>),
     Sound(Three \o <<24, 1>> \o Eos, B123 \o <<1, 2, 3, 1, 2>>),
     Sound(Three \o <<16, 1, 2, 7, 7, 7>> \o Eos, B123 \o B123 \o <<7, 7, 7>>),
     Sound(Three \o <<16, 1, 0, 1, 7, 7, 7, 7, 7>> \o Eos, B123 \o B123 \o Copies(7, 5)),
     Sound(Three \o <<17, 1, 9, 0, 1>> \o Eos, B123 \o B123 \o <<9, 2, 3>>),
     Sound(Six \o <<0, 0>> \o Eos, <<1, 2, 3, 4, 5, 6, 2, 3, 4>>),
     Sound(Three \o <<10, 4>> \o Eos, B123 \o <<1, 2, 3, 1>>), Sound(Three \o <<8, 1, 4>> \o Eos, [i \in 1..13 |-> ((i - 1) % 3) + 1]),
     Sound(Ten \o <<5, 2>> \o Eos, [i \in 1..10 |-> i] \o <<2, 3, 4>>),
     Bad(Three, << >>), Bad(Three \o <<16, 2>> \o Eos, << >>), Bad(<<4>> \o Eos, << >>), Bad(Three \o <<16>>, << >>),
     Bad(Three \o <<8, 0>>, << >>), Bad(<<9, 1, 2>>, << >>), Bad(Three \o <<8, 0, 0, 0, 0, 1, 0>> \o Eos, << >>)}

LzoStreams ==
    {[b EXCEPT !.wire = Blocks(@), !.used = Len(b.wire) + 4] : b \in LzoBlocks}
    \cup {Followed(Sound(Blocks(Three \o Eos), B123), <<1>>), Bad(Sized(Three \o Eos) \o <<1>>, B123),
          Bad(Word(200), << >>)}

SnappyStreams ==
    {Sound(<<0>>, << >>), Sound(<<3, Tag(0, 2), 1, 2, 3>>, B123), Sound(<<5, Tag(0, 0), 7, Tag(2, 3), 1, 0>>, Copies(7, 5)),
     Sound(<<6, Tag(0, 2), 1, 2, 3, Tag(1, 1), 3>>, B123 \o B123), Sound(<<4, Tag(0, 1), 1, 2, Tag(3, 1), 2, 0, 0, 0>>, <<1, 2, 1, 2>>),
     Sound(<<8 + 4, 2, Tag(0, 5), 3, 1>> \o Counting, Counting),
     Sound(<<3, Tag(0, 4), 2, 1, 2, 3>>, B123),
     Bad(<< >>, << >>), Bad(<<8>>, << >>), Bad(<<8, 8, 0>>, << >>), Bad(<<8, 4>>, << >>), Bad(<<3, Tag(0, 1), 1, 2>>, << >>),
     Bad(<<1, Tag(0, 1), 1, 2>>, << >>), Bad(<<3, Tag(0, 2), 1>>, << >>), Bad(<<3, Tag(0, 6), 1>>, << >>),
     Bad(<<3, Tag(0, 0), 1, Tag(1, 0), 0>>, << >>), Bad(<<3, Tag(0, 0), 1, Tag(1, 0), 2>>, << >>),
     Bad(<<3, Tag(0, 0), 1, Tag(2, 3), 1, 0>>, << >>), Bad(<<3, Tag(0, 0), 1, Tag(1, 0)>>, << >>),
     Bad(<<3, Tag(0, 0), 1, Tag(2, 1), 1>>, << >>), Bad(<<3, Tag(0, 0), 1, Tag(3, 1), 1, 0, 0>>, << >>)}

LzfStreams ==
    {Sound(<< >>, << >>), Sound(<<2, 1, 2, 3>>, B123), Sound(<<0, 7, 4, 0>>, Copies(7, 4)), Sound(<<2, 1, 2, 3, 13, 1, 0>>, B123 \o B123 \o B123),
     Bad(<<2, 1>>, <<1>>), Bad(<<0, 7, 4>>, <<7>>), Bad(<<0, 7, 4, 1>>, <<7>>), Bad(<<4, 0>>, << >>), Bad(<<0, 7, 12, 1>>, <<7>>)}

Sevens(n) == Copies(7, n)

(* An LZS stream of n bytes.  L7 and M(...) are a literal and a match.     *)
LzsWire(n, bits) == Word(n) \o Packed(PaddedWithOnes(bits))
L7 == <<0, 0, 1, 1, 1>>
M(offset, length) == (IF Len(offset) = 2 THEN <<1, 1>> ELSE <<1, 0>>) \o offset \o length
Eos_ == <<1, 1, 0, 0>>

LzsStreams ==
    {Sound(LzsWire(2, L7 \o L7 \o Eos_), Sevens(2)), Sound(LzsWire(3, L7 \o M(<<0, 1>>, <<0, 0>>) \o Eos_), Sevens(3)),
     Sound(LzsWire(16, L7 \o M(<<0, 0, 1>>, <<1, 1, 1, 1, 1, 1, 0, 1>>) \o L7 \o L7 \o L7 \o Eos_), Sevens(16)),
     Sound(<<0, 0>> \o <<9, 9>>, << >>),
     Bad(LzsWire(5, L7 \o M(<<0, 1>>, <<1, 1, 1, 1, 1, 1, 0, 0>>) \o Eos_), <<7>>),
     Bad(LzsWire(5, L7 \o M(<<0, 0, 0>>, <<0, 0>>) \o Eos_), <<7>>), Bad(LzsWire(5, L7 \o M(<<1, 0>>, <<0, 0>>) \o Eos_), <<7>>),
     Bad(LzsWire(2, L7 \o L7 \o L7 \o Eos_), Sevens(2)), Bad(LzsWire(2, L7 \o M(<<0, 1>>, <<0, 1>>) \o Eos_), Sevens(2)),
     Bad(LzsWire(3, L7 \o L7 \o Eos_), Sevens(2)), Bad(LzsWire(3, L7 \o L7 \o L7), Sevens(3)),
     Bad(LzsWire(3, L7 \o <<1, 1, 0>>), <<7>>), Bad(<<2>>, << >>), Bad(<< >>, << >>)}

XpressStreams ==
    {Sound(Word(3) \o <<0, 0, 1, 2, 3>>, B123), Sound(Word(4) \o Word(64) \o <<7>> \o Word(0), Sevens(4)),
     Sound(Word(16) \o Word(96) \o <<7>> \o Word(3) \o <<9>> \o Word(3), Sevens(16)),
     Sound(Word(14) \o Word(64) \o <<7>> \o Word(3) \o <<3, 4>>, Sevens(14)),
     Sound(Word(28) \o Word(64) \o <<7>> \o Word(3) \o <<3, 15>> \o Word(24), Sevens(28)),
     Sound(Word(10) \o Word(64) \o <<7>> \o Word(3) \o <<3, 15>> \o Word(24), Sevens(10)),
     Sound(Word(28) \o Word(64) \o <<7>> \o Word(3) \o <<3, 15, 0, 0>> \o Word(24) \o Word(0), Sevens(28)),
     Sound(Word(10) \o Word(0) \o Sevens(8) \o Word(0) \o Sevens(2), Sevens(10)), Sound(<<0, 0, 5>>, << >>),
     Bad(Word(10) \o Word(64) \o <<7>> \o Word(3) \o <<3, 15, 0, 0>> \o Word(24) \o Word(0), <<7>>),
     Bad(Word(28) \o Word(64) \o <<7>> \o Word(3) \o <<3, 15>> \o Word(5), <<7>>),
     Bad(Word(4) \o Word(64) \o <<7>> \o Word(4), <<7>>),
     Bad(Word(20) \o Word(0) \o Sevens(8) \o Word(64) \o <<7>> \o Word(32), Sevens(9)),
     Bad(Word(4) \o Word(64) \o <<7>>, <<7>>), Bad(Word(10) \o Word(64) \o <<7>> \o Word(3), <<7>>),
     Bad(Word(10) \o <<0>>, << >>), Bad(<<3>>, << >>), Bad(<< >>, << >>)}

AdcStreams ==
    {Sound(<< >>, << >>), Sound(<<10, 1, 2, 3>>, B123), Sound(<<10, 1, 2, 3, 1, 0>>, B123 \o B123),
     Sound(<<8, 7, 7, 0, 0>>, Sevens(8)), Bad(<<8, 7, 0, 1>>, <<7>>), Bad(<<9, 1>>, <<1>>),
     Bad(<<8, 7, 7>>, <<7>>), Bad(<<8, 7, 7, 0>>, <<7>>), Bad(<<8, 7, 0>>, <<7>>), Bad(<<8, 7, 4, 1, 0>>, <<7>>)}

Lznt1Streams ==
    {Sound(<< >>, << >>), Sound(<<1, 3, 5, 6, 0, 0>>, <<5, 6>>), Followed(Sound(<<1, 3, 5, 6, 0, 0>>, <<5, 6>>), <<1, 2>>),
     Sound(<<1, 3, 5, 6, 3, 11, 2, 7, 1, 0>>, <<5, 6>> \o Sevens(5)),
     Sound(<<8, 11, 0, 1, 2, 3, 4, 2, 5, 0, 8, 0, 0>>, <<1, 2, 3, 4, 5, 1, 2, 3>>),
     Bad(<<1, 3, 5, 6, 3, 11, 2, 7, 0, 4>>, <<5, 6>>), Bad(<<0, 2, 1>>, << >>), Bad(<<2, 11, 1, 0, 0>>, << >>),
     Bad(<<2, 11, 2, 7, 1>>, << >>), Bad(<<3, 11, 2, 7>> \o Word(14), << >>), Bad(<<4, 11, 2, 7>> \o Word(12) \o <<1>>, << >>),
     Bad(<<3, 3, 5>>, << >>), Bad(<<1, 3, 5, 6, 0>>, <<5, 6>>)}

LzssStreams ==
    {Sound(<< >>, << >>), Sound(<<0, 0>>, << >>), Sound(Word(2) \o <<3, 5, 6>>, <<5, 6>>), Sound(Word(3) \o <<0, 3, 0>>, Copies(Nul, 3)),
     Followed(Sound(Word(6) \o <<1, 7, 6, 10>>, Sevens(6)), <<3>>), Sound(Word(4) \o <<1, 7, 6, 15>>, Sevens(4)),
     Sound(Word(16) \o <<7, 1, 2, 3, 6, 15, 0, 2, 0>>, <<1, 2, 3, 1, 2, 3, 1, 2, 3, 1, 2, 3, 1, 1, 1, 1>>),
     Bad(Word(2) \o <<3, 5>>, <<5>>), Bad(Word(6) \o <<1, 7, 6>>, <<7>>), Bad(Word(6) \o <<1, 7>>, <<7>>),
     Bad(Word(9) \o <<1, 7, 6, 10>>, Sevens(6)), Bad(<<1>>, << >>)}

Streams_ ==
    CASE format = "lz4" -> Lz4Streams
      [] format = "lz4_frame" -> FrameStreams
      [] format = "lz5" -> Lz5Streams
      [] format = "lzo" -> LzoStreams
      [] format = "snappy" -> SnappyStreams
      [] format = "lzf" -> LzfStreams
      [] format = "lzs" -> LzsStreams
      [] format = "xpress" -> XpressStreams
      [] format = "adc" -> AdcStreams
      [] format = "lznt1" -> Lznt1Streams
      [] format = "lzss" -> LzssStreams

-----------------------------------------------------------------------------
Fresh ==
    IF ~Encoding THEN NewDecoder
    ELSE CASE format = "lz4" -> NewBlockEncoder(state.level)
           [] format = "lz4_frame" -> NewFrameEncoder(state.flg, state.bd, state.level)
           [] format = "lz5" -> NewLz5Encoder
           [] format = "lzo" -> NewLzoEncoder
           [] format = "snappy" -> NewSnappyEncoder
           [] format = "lzf" -> [NewLzfEncoder EXCEPT !.asked = state.asked]
           [] OTHER -> NewTokenEncoder

Init ==
    /\ format \in Formats
    /\ \/ \E e \in Encoders : given = "plain" /\ phase = "encode" /\ plain = e[1] /\ src = e[1] /\ state = e[2]
       \/ \E s \in Streams_ : given = "any" /\ phase = "decode" /\ plain = << >> /\ src = s.wire /\ state = NewDecoder
    /\ pos = 0 /\ avail = 0 /\ room = 0
    /\ out = << >>
    /\ calling = FALSE
    /\ restart = << >>

In(f, p) == calling /\ format = f /\ phase = p

Codec ==
    \/ In("lz4", "encode") /\ BlocksEncode
    \/ In("lz4", "encode_finish") /\ BlocksEncodeFinish(NewDecoder)
    \/ In("lz4", "decode") /\ BlocksDecode
    \/ In("lz4", "decode_finish") /\ BlocksDecodeFinish
    \/ In("lz4_frame", "encode") /\ FrameEncode
    \/ In("lz4_frame", "encode_finish") /\ FrameEncodeFinish(NewDecoder)
    \/ In("lz4_frame", "decode") /\ FrameDecode
    \/ In("lz4_frame", "decode_finish") /\ FrameDecodeFinish
    \/ In("lz5", "encode") /\ Lz5Encode
    \/ In("lz5", "encode_finish") /\ Lz5EncodeFinish(NewDecoder)
    \/ In("lz5", "decode") /\ Lz5Decode
    \/ In("lz5", "decode_finish") /\ Lz5DecodeFinish
    \/ In("lzo", "encode") /\ LzoEncode
    \/ In("lzo", "encode_finish") /\ LzoEncodeFinish(NewDecoder)
    \/ In("lzo", "decode") /\ LzoDecode
    \/ In("lzo", "decode_finish") /\ LzoDecodeFinish
    \/ In("snappy", "encode") /\ SnappyEncode
    \/ In("snappy", "encode_finish") /\ SnappyEncodeFinish(NewDecoder)
    \/ In("snappy", "decode") /\ SnappyDecode
    \/ In("snappy", "decode_finish") /\ SnappyDecodeFinish
    \/ In("lzf", "encode") /\ LzfEncode
    \/ In("lzf", "flush") /\ LzfFlush
    \/ In("lzf", "encode_finish") /\ LzfEncodeFinish(NewDecoder)
    \/ In("lzf", "decode") /\ LzfDecode
    \/ In("lzf", "decode_finish") /\ LzfDecodeFinish
    \/ In("lzs", "encode") /\ LzsEncode
    \/ In("lzs", "encode_finish") /\ LzsEncodeFinish(NewDecoder)
    \/ In("lzs", "decode") /\ LzsDecode
    \/ In("lzs", "decode_finish") /\ LzsDecodeFinish
    \/ In("xpress", "encode") /\ XpressEncode
    \/ In("xpress", "encode_finish") /\ XpressEncodeFinish(NewDecoder)
    \/ In("xpress", "decode") /\ XpressDecode
    \/ In("xpress", "decode_finish") /\ XpressDecodeFinish
    \/ In("adc", "encode") /\ AdcEncode
    \/ In("adc", "encode_finish") /\ AdcEncodeFinish(NewDecoder)
    \/ In("adc", "decode") /\ AdcDecode
    \/ In("adc", "decode_finish") /\ AdcDecodeFinish
    \/ In("lznt1", "encode") /\ Lznt1Encode
    \/ In("lznt1", "encode_finish") /\ Lznt1EncodeFinish(NewDecoder)
    \/ In("lznt1", "decode") /\ Lznt1Decode
    \/ In("lznt1", "decode_finish") /\ Lznt1DecodeFinish
    \/ In("lzss", "encode") /\ LzssEncode
    \/ In("lzss", "encode_finish") /\ LzssEncodeFinish(NewDecoder)
    \/ In("lzss", "decode") /\ LzssDecode
    \/ In("lzss", "decode_finish") /\ LzssDecodeFinish

Next ==
    \/ Caller /\ Remember
    \/ \E kind \in Kinds, cap \in Rooms : format = "lzf" /\ CallFlush(kind, cap, MaxAsked) /\ Remember
    \/ Reset(Fresh) /\ Remember
    \/ Codec /\ Remember

Spec == Init /\ [][Next]_<<vars, restart>>

-----------------------------------------------------------------------------
Absorbing == {"lzs", "xpress"}

(* The length field is full, or positions are.                             *)
TooLong ==
    /\ format \in {"snappy", "lzs", "xpress", "lzss"}
    /\ Len(plain) > LenMax /\ phase = "failed" /\ out = << >>

(* What was encoded comes back, whatever the parse, the level, the window  *)
(* that linked blocks share and the cuts into calls (lz4/frame.rs          *)
(* `push_window` on both sides, lzf/mod.rs `slide`).                       *)
DecodesToPlain == RoundTrip \/ TooLong

(* Streams by hand decode to what they mean or fail, and a decoder that    *)
(* says it is done has taken what is its own and nothing behind it; those  *)
(* of LZS and Plain LZ77 take all they are given.                          *)
FollowsFormat ==
    given = "any" => \E s \in Streams_ :
        /\ s.wire = src /\ Follows(s)
        /\ phase = "ok" => IF format \in Absorbing THEN pos = avail ELSE pos = s.used

(* A decoder that still has bytes to give for what it took.                *)
Owes ==
    CASE format = "lzf" -> phase = "decode" /\ state.mlen > 0
      [] format = "lzs" -> phase = "decode" /\ state.at = "Active"
             /\ (Owed \/ LzsTokenAt(state.buf, state.made, state.target).kind # "more")
      [] format = "xpress" -> phase = "decode" /\ state.at = "Active"
             /\ (Owed \/ (state.flags # << >> /\ XpressTokenAt(state.buf, state.flags[1], state.half, state.made,
                                                               state.target).kind # "more"))
      [] format = "adc" -> phase = "decode" /\ state.at = "Copying"
      [] format = "lzss" -> phase = "decode" /\ LzssPending
      [] OTHER -> state.pending # << >>
AtEnd == format \in {"lz4", "lz4_frame", "lz5", "lzo"} /\ phase = "decode" /\ state.at = "Done"

(* A decoding call stops with input left only when no room is left, or at  *)
(* the end mark, where it says it is done in the next call.                *)
StopsForRoom == [][AtEnd' \/ StopsOnlyForRoom(Owes)]_vars

(* LZF's tokens, all at once.                                              *)
RECURSIVE Untoken(_, _)
Untoken(s, h) ==
    IF s = << >> THEN h
    ELSE IF s[1] < MaxLiteral THEN Untoken(After(s, s[1] + 2), h \o SubSeq(s, 2, s[1] + 2))
    ELSE LET dist == (2 * (s[1] % 4)) + s[Need(s)] + 1
             len == (s[1] \div 4) + 2 + (IF Need(s) = 3 THEN s[2] ELSE 0)
         IN IF dist > Len(h) THEN << >> ELSE Untoken(After(s, Need(s)), CopyOf(h, dist, len))

(* When LZF's flush is done, what is written decodes to all that was taken *)
(* (lzf/mod.rs 35-38).                                                     *)
FlushDelivers == [][FlushEnds => Untoken(out', << >>) = SubSeq(plain, 1, pos)]_vars

(* After a full flush it decodes without what came before.                 *)
FullFlushRestarts ==
    restart # << >> /\ given = "whole" =>
        Untoken(After(src, restart[1]), << >>) = After(plain, restart[2])
=============================================================================
