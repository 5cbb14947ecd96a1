-------------------------------- MODULE Lzma --------------------------------
(***************************************************************************)
(* LZMA as a stream of its own and as ZIP's method 14 (lzma/): packets of  *)
(* literals, matches and repeated distances, coded bit by bit with an      *)
(* adaptive binary range coder.  A byte is four bits wide here, the coder  *)
(* three bytes instead of four, a probability five bits instead of eleven, *)
(* and lengths, distances and header fields are as much shorter.           *)
(***************************************************************************)
EXTENDS CodecCall, FiniteSets, Integers

SymBits == 4
RangeBits == 12               \* 32
ModelBits == 5                \* RC_BIT_MODEL_TOTAL_BITS: 11
MoveBits == 2                 \* RC_MOVE_BITS: 5
CodeBytes == 4                \* 5: what init reads and the encoder's flush writes
LenLowBits == 1               \* 3
LenMidBits == 1               \* 3
LenHighBits == 1              \* 8
MinMatchLen == 2
MaxMatchLen == MinMatchLen + 2^LenLowBits + 2^LenMidBits + 2^LenHighBits - 1    \* 273
DistStates == 2               \* 4
SlotBits == 3                 \* 6
ModelStart == 4
ModelEnd == 6                 \* 14
AlignBits == 1                \* 4
EosDistance == 2^(2^(SlotBits - 1)) - 1     \* 0xFFFF_FFFF
LitStates == 7
LcRadix == 2                  \* 9
LpRadix == 2                  \* 5
PbRadix == 2                  \* 5
MaxLcLp == 1                  \* 4
DictMin == 4                  \* 4 KiB
DictMax == 12                 \* 64 MiB
RequiredInput == 6            \* 20: no packet takes more
AbsorbChunk == 3              \* 4096
PushMax == 3                  \* 65 536
GuardLimit == 4               \* 65 536
LzWindow == 2                 \* opt_window: 512 and more
LzDict == 10                  \* the level's dictionary
Unknown == -1

SymTop == 2^SymBits
TopValue == 2^(RangeBits - SymBits)
BitOf(v, i) == (v \div 2^i) % 2

-----------------------------------------------------------------------------
(* The states of the packet before, and the repeated distances.            *)
AfterLiteral(s) == IF s <= 3 THEN 0 ELSE IF s <= 9 THEN s - 3 ELSE s - 6
AfterMatch(s) == IF s < LitStates THEN 7 ELSE 10
AfterRep(s) == IF s < LitStates THEN 8 ELSE 11
AfterShortRep(s) == IF s < LitStates THEN 9 ELSE 11

NewReps == <<0, 0, 0, 0>>
WithDistance(reps, d) == <<d, reps[1], reps[2], reps[3]>>
RepToFront(reps, i) == <<reps[i]>> \o SubSeq(reps, 1, i - 1) \o SubSeq(reps, i + 1, 4)

(* A probability is kept under the name of its table and its place there;  *)
(* one never used has its first value.                                     *)
Prob(probs, key) == IF key \in DOMAIN probs THEN probs[key] ELSE 2^(ModelBits - 1)
Learnt(probs, key, bit) ==
    LET p == Prob(probs, key) IN
    (key :> (IF bit = 0 THEN p + (2^ModelBits - p) \div 2^MoveBits ELSE p - p \div 2^MoveBits)) @@ probs

LiteralContext(made, lp, lc, prev) == (made % 2^lp) * 2^lc + prev \div 2^(SymBits - lc)

-----------------------------------------------------------------------------
(* The range encoder: `low` with a carry over it, and the byte before it   *)
(* held back, with those of all ones after it that a carry would turn over.*)
ShiftLow(c) ==
    LET carry == c.low \div 2^RangeBits
        ones == IF carry = 0 THEN SymTop - 1 ELSE 0
        next == [c EXCEPT !.low = (@ * SymTop) % 2^RangeBits]
    IN IF c.low < (SymTop - 1) * TopValue \/ carry # 0
       THEN [next EXCEPT !.bytes = @ \o <<(c.cache + carry) % SymTop>> \o Copies(ones, c.held - 1),
                         !.cache = (c.low \div TopValue) % SymTop, !.held = 1]
       ELSE [next EXCEPT !.held = @ + 1]

EncNormalize(c) == IF c.range < TopValue THEN ShiftLow([c EXCEPT !.range = @ * SymTop]) ELSE c

EncodeBit(c, key, bit) ==
    LET bound == (c.range \div 2^ModelBits) * Prob(c.probs, key)
        next == [c EXCEPT !.probs = Learnt(@, key, bit)]
    IN EncNormalize(IF bit = 0 THEN [next EXCEPT !.range = bound]
                    ELSE [next EXCEPT !.range = @ - bound, !.low = @ + bound])

EncodeDirectBit(c, bit) ==
    LET half == c.range \div 2 IN
    EncNormalize([c EXCEPT !.range = half, !.low = IF bit = 0 THEN @ ELSE @ + half])

(* A packet is a sequence of bits, each with the place of its probability, *)
(* or none.                                                                *)
Direct == << >>
EncodeStep(c, step) ==
    IF step[1] = Direct THEN EncodeDirectBit(c, step[2]) ELSE EncodeBit(c, step[1], step[2])

EncodeSteps(c, steps) ==
    LET after[k \in 0..Len(steps)] == IF k = 0 THEN c ELSE EncodeStep(after[k - 1], steps[k]) IN
    after[Len(steps)]

FlushCoder(c) ==
    LET after[k \in 0..CodeBytes] == IF k = 0 THEN c ELSE ShiftLow(after[k - 1]) IN after[CodeBytes]

-----------------------------------------------------------------------------
(* The bits of a packet.                                                   *)
TreeSteps(key, n, v) ==
    [i \in 1..n |-> <<Append(key, 2^(i - 1) + v \div 2^(n - i + 1)), BitOf(v, n - i)>>]

ReverseSteps(key, n, v) ==
    LET index[i \in 1..n] == IF i = 1 THEN 1 ELSE 2 * index[i - 1] + BitOf(v, i - 2) IN
    [i \in 1..n |-> <<Append(key, index[i]), BitOf(v, i - 1)>>]

SpecialSteps(base, n, extra) ==
    [i \in 1..n |-> <<<<"special", base + 2^(i - 1) + (extra % 2^(i - 1))>>, BitOf(extra, i - 1)>>]

DirectSteps(v, n) == [i \in 1..n |-> <<Direct, BitOf(v, n - i)>>]

LengthSteps(k, ps, length) ==
    LET v == length - MinMatchLen IN
    IF v < 2^LenLowBits
    THEN <<<<<<"choice", k>>, 0>>>> \o TreeSteps(<<"low", k, ps>>, LenLowBits, v)
    ELSE IF v < 2^LenLowBits + 2^LenMidBits
    THEN <<<<<<"choice", k>>, 1>>, <<<<"choice2", k>>, 0>>>>
         \o TreeSteps(<<"mid", k, ps>>, LenMidBits, v - 2^LenLowBits)
    ELSE <<<<<<"choice", k>>, 1>>, <<<<"choice2", k>>, 1>>>>
         \o TreeSteps(<<"high", k>>, LenHighBits, v - 2^LenLowBits - 2^LenMidBits)

DistState(length) == Smaller(length, DistStates + MinMatchLen - 1) - MinMatchLen
DirectBits(slot) == slot \div 2 - 1
SlotBase(slot) == (2 + (slot % 2)) * 2^DirectBits(slot)

DistSlot(d) ==
    IF d < ModelStart THEN d
    ELSE LET n == CHOOSE n \in 0..RangeBits : 2^n <= d /\ d < 2^(n + 1) IN 2 * n + BitOf(d, n - 1)

DistanceSteps(length, d) ==
    LET slot == DistSlot(d)
        extra == d - SlotBase(slot)
        n == DirectBits(slot)
    IN TreeSteps(<<"slot", DistState(length)>>, SlotBits, slot)
       \o (IF slot < ModelStart THEN << >>
           ELSE IF slot < ModelEnd THEN SpecialSteps(SlotBase(slot), n, extra)
           ELSE DirectSteps(extra \div 2^AlignBits, n - AlignBits)
                \o ReverseSteps(<<"align">>, AlignBits, extra % 2^AlignBits))

(* Behind a match, the byte at the last distance has the literal's bits    *)
(* coded apart as long as they are the same.                               *)
LiteralSteps(context, byte, matched) ==
    [i \in 1..SymBits |->
        LET symbol == 2^(i - 1) + byte \div 2^(SymBits - i + 1)
            same == matched # Unknown /\ matched \div 2^(SymBits - i + 1) = byte \div 2^(SymBits - i + 1)
            index == IF same THEN SymTop + SymTop * BitOf(matched, SymBits - i) + symbol ELSE symbol
        IN <<<<"lit", context, index>>, BitOf(byte, SymBits - i)>>]

RepSteps(s, i) ==
    CASE i = 1 -> <<<<<<"rep0", s>>, 0>>>>
      [] i = 2 -> <<<<<<"rep0", s>>, 1>>, <<<<"rep1", s>>, 0>>>>
      [] i = 3 -> <<<<<<"rep0", s>>, 1>>, <<<<"rep1", s>>, 1>>, <<<<"rep2", s>>, 0>>>>
      [] i = 4 -> <<<<<<"rep0", s>>, 1>>, <<<<"rep1", s>>, 1>>, <<<<"rep2", s>>, 1>>>>

-----------------------------------------------------------------------------
(* The encoder's core, with the packets it emits over a text.              *)
NewCore(lc, lp, pb) ==
    [low |-> 0, range |-> 2^RangeBits - 1, cache |-> 0, held |-> 1, bytes |-> << >>,
     probs |-> << >>, st |-> 0, reps |-> NewReps, made |-> 0, lc |-> lc, lp |-> lp, pb |-> pb]

PosState(c) == c.made % 2^c.pb
IsMatch(c, bit) == <<<<<<"match", c.st, PosState(c)>>, bit>>>>
IsRep(c, bit) == <<<<<<"isrep", c.st>>, bit>>>>
IsLong(c, bit) == <<<<<<"long", c.st, PosState(c)>>, bit>>>>

EmitLiteral(c, text) ==
    LET prev == IF c.made = 0 THEN 0 ELSE text[c.made]
        matched == IF c.st < LitStates THEN Unknown ELSE text[c.made - c.reps[1]]
        context == LiteralContext(c.made, c.lp, c.lc, prev)
        coded == EncodeSteps(c, IsMatch(c, 0) \o LiteralSteps(context, text[c.made + 1], matched))
    IN [coded EXCEPT !.st = AfterLiteral(@), !.made = @ + 1]

EmitMatch(c, d, length) ==
    LET coded == EncodeSteps(c, IsMatch(c, 1) \o IsRep(c, 0) \o LengthSteps(0, PosState(c), length)
                                \o DistanceSteps(length, d))
    IN [coded EXCEPT !.reps = WithDistance(@, d), !.st = AfterMatch(@), !.made = @ + length]

EmitShortRep(c) ==
    LET coded == EncodeSteps(c, IsMatch(c, 1) \o IsRep(c, 1) \o RepSteps(c.st, 1) \o IsLong(c, 0)) IN
    [coded EXCEPT !.st = AfterShortRep(@), !.made = @ + 1]

EmitLongRep(c, i, length) ==
    LET long == IF i = 1 THEN IsLong(c, 1) ELSE << >>
        coded == EncodeSteps(c, IsMatch(c, 1) \o IsRep(c, 1) \o RepSteps(c.st, i) \o long
                                \o LengthSteps(1, PosState(c), length))
    IN [coded EXCEPT !.reps = RepToFront(@, i), !.st = AfterRep(@), !.made = @ + length]

EmitEosMarker(c) ==
    EncodeSteps(c, IsMatch(c, 1) \o IsRep(c, 0) \o LengthSteps(0, PosState(c), MinMatchLen)
                   \o DistanceSteps(MinMatchLen, EosDistance))

-----------------------------------------------------------------------------
(* The encoder (encoder.rs).  `indexed` are the positions in the hash      *)
(* chains: those with three bytes behind them when they were coded.  What  *)
(* a parse costs is left out, so the optimal one is any of the parses it   *)
(* weighs; a chain is followed to its end.                                 *)
NewLzEncoder(greedy, zip, eos) ==
    [greedy |-> greedy, zip |-> zip, eos |-> eos, committed |-> greedy, appended |-> 0, headed |-> FALSE,
     core |-> NewCore(1, 0, 1), indexed |-> {}, pending |-> << >>, finished |-> FALSE,
     kind |-> "none", asked |-> 0]

PropsByte(lc, lp, pb) == (pb * LpRadix + lp) * LcRadix + lc
Header(zip, props, dict, size) ==
    IF zip THEN <<9, 2, props, dict>> ELSE <<props, dict, size % SymTop, size \div SymTop>>
NoSize == SymTop * SymTop - 1

MatchesFor(text, at, d) ==
    LET most == Smaller(MaxMatchLen, Len(text) - at)
        same == {n \in 0..most : \A i \in 1..n : text[at + i] = text[at + i - d]}
    IN Cardinality(same) - 1

RepMatchLen(text, at, rep) == IF rep + 1 > at THEN 0 ELSE MatchesFor(text, at, rep + 1)

(* The positions one looks at: three bytes are the same.                   *)
Chain(s, text, at) ==
    IF at + 3 > Len(text) THEN {}
    ELSE {p \in s.indexed : p < at /\ at - p <= LzDict /\ MatchesFor(text, at, at - p) >= 3}

Longest(text, at, chain) ==
    CHOOSE n \in 0..MaxMatchLen :
        /\ n = 0 \/ \E p \in chain : MatchesFor(text, at, at - p) = n
        /\ \A p \in chain : MatchesFor(text, at, at - p) <= n

(* The nearest position with a match of that length: its distance, from 0. *)
NearestFor(text, at, chain, length) ==
    LET p == CHOOSE p \in chain :
                 /\ MatchesFor(text, at, at - p) >= length
                 /\ \A q \in chain : MatchesFor(text, at, at - q) >= length => q <= p
    IN at - p - 1

InsertUpTo(s, text, from) ==
    [s EXCEPT !.indexed = @ \cup {p \in from..(s.core.made - 1) : p + 3 <= Len(text)}]

RECURSIVE EncodeGreedy(_, _, _)
EncodeGreedy(s, text, end) ==
    LET at == s.core.made
        cap == end - at
        reps == [i \in 1..4 |-> Smaller(RepMatchLen(text, at, s.core.reps[i]), cap)]
        best == CHOOSE i \in 1..4 : \A j \in 1..4 : reps[j] < reps[i] \/ (reps[j] = reps[i] /\ j <= i)
        chain == Chain(s, text, at)
        longest == Longest(text, at, chain)
        new == Smaller(longest, cap)
        core == IF new > reps[best] /\ new >= MinMatchLen
                THEN EmitMatch(s.core, NearestFor(text, at, chain, longest), new)
                ELSE IF reps[best] >= MinMatchLen THEN EmitLongRep(s.core, best, reps[best])
                ELSE IF reps[1] >= 1 THEN EmitShortRep(s.core)
                ELSE EmitLiteral(s.core, text)
    IN IF at >= end THEN s ELSE EncodeGreedy(InsertUpTo([s EXCEPT !.core = core], text, at), text, end)

(* parse_window: what it weighs at a position, up to `end`.  Distances of  *)
(* matches reach back from the window's start, those repeated from here.   *)
Weighed(s, text, end) ==
    LET c == s.core
        at == c.made
        rep(i) == Smaller(RepMatchLen(text, at, c.reps[i]), end - at)
        chain == Chain(s, text, at)
        new == Smaller(Longest(text, at, chain), end - at)
    IN {EmitLiteral(c, text)}
       \cup (IF rep(1) >= 1 THEN {EmitShortRep(c)} ELSE {})
       \cup UNION {{EmitLongRep(c, i, n) : n \in MinMatchLen..rep(i)} : i \in 1..4}
       \cup {EmitMatch(c, NearestFor(text, at, chain, n), n) : n \in MinMatchLen..new}

RECURSIVE WindowsFrom(_, _, _, _)
WindowsFrom(s, text, from, end) ==
    LET next == {[s EXCEPT !.core = c] : c \in Weighed(s, text, end)} IN
    {InsertUpTo(t, text, from) : t \in next}
    \cup UNION {WindowsFrom(t, text, from, end) : t \in {u \in next : u.core.made < end}}

RECURSIVE EncodeOptimal(_, _, _)
EncodeOptimal(s, text, end) ==
    IF s.core.made >= end THEN {s}
    ELSE LET at == s.core.made IN
         UNION {EncodeOptimal(t, text, end) : t \in WindowsFrom(s, text, at, Smaller(end, at + LzWindow))}

EncodeRange(s, end) ==
    LET text == SubSeq(plain, 1, s.appended) IN
    IF s.greedy THEN {EncodeGreedy(s, text, end)} ELSE EncodeOptimal(s, text, end)

TakeOutput(s) ==
    [s EXCEPT !.pending = (IF s.headed THEN << >>
                           ELSE Header(s.zip, PropsByte(s.core.lc, s.core.lp, s.core.pb), LzDict, NoSize))
                          \o s.core.bytes,
              !.headed = TRUE, !.core.bytes = << >>]

LookaheadMargin(s) == (IF s.greedy THEN 0 ELSE LzWindow) + MaxMatchLen + 1

Pushed(s, n) ==
    LET t == [s EXCEPT !.appended = @ + n]
        u == [t EXCEPT !.committed = TRUE]
        to == u.appended - LookaheadMargin(u)
    IN IF ~t.committed /\ t.appended <= GuardLimit THEN {t}
       ELSE {TakeOutput(v) : v \in IF to > u.core.made THEN EncodeRange(u, to) ELSE {u}}

Flushed(s) ==
    IF s.appended = 0 THEN {s}
    ELSE {TakeOutput(t) : t \in EncodeRange([s EXCEPT !.committed = TRUE], s.appended)}

(* A short input is coded both ways, and the shorter one kept.             *)
EndCoded(s) == [s EXCEPT !.core = FlushCoder(IF s.zip /\ ~s.eos THEN s.core ELSE EmitEosMarker(s.core))]

FinishSmall(s) ==
    LET greedy == EndCoded(EncodeGreedy(s, SubSeq(plain, 1, s.appended), s.appended))
        better(t) == IF Len(greedy.core.bytes) < Len(t.core.bytes) THEN greedy ELSE t
    IN {TakeOutput(better(EndCoded(t))) : t \in EncodeRange(s, s.appended)}

Ended(s) ==
    IF ~s.committed THEN FinishSmall(s)
    ELSE {TakeOutput(EndCoded(t)) : t \in EncodeRange(s, s.appended)}

LzQueued == state.pending # << >>
LzWait == LzQueued /\ NoRoom /\ Return(state, << >>)

LzEncode ==
    \/ DrainPending
    \/ LzWait
    \/ ~LzQueued /\ NoInput /\ Return(state, << >>)
    \/ /\ ~LzQueued /\ ~NoInput
       /\ LET n == Smaller(avail - pos, PushMax) IN \E s \in Pushed(state, n) : Turn(s, n, << >>)

LzFlush ==
    \/ DrainPending
    \/ LzWait
    \/ /\ ~LzQueued
       /\ \E s \in Flushed(state) :
              \/ s.pending # << >> /\ Turn(s, 0, << >>)
              \/ s.pending = << >> /\ FlushDone(s, << >>)

LzFinish(newDecoders) ==
    \/ DrainPending
    \/ LzWait
    \/ ~LzQueued /\ ~state.finished /\ \E s \in Ended(state) : Turn([s EXCEPT !.finished = TRUE], 0, << >>)
    \/ ~LzQueued /\ state.finished /\ \E d \in newDecoders : EncodeDone(state, d)

-----------------------------------------------------------------------------
(* The decoder.  What it buffers is what it took of `src` and has not      *)
(* read; `eos` and `size` are what the caller of `zip` knows of the entry. *)
NewLzDecoder(zip, eos, size) ==
    [zip |-> zip, eos |-> eos, size |-> size, stage |-> "enter", from |-> Unknown, head |-> "Empty",
     lc |-> 0, lp |-> 0, pb |-> 0, dict |-> 0, cap |-> Unknown, expected |-> Unknown,
     hist |-> << >>, made |-> 0, probs |-> << >>, st |-> 0, reps |-> NewReps,
     range |-> 0, code |-> 0, read |-> 0, ended |-> FALSE, literal |-> Unknown, owed |-> 0]

(* The range decoder reads a byte when its range is short of one; without  *)
(* it, the packet comes to nothing.                                        *)
DecNormalize(d) ==
    IF d.range >= TopValue THEN d
    ELSE IF d.read = pos THEN [d EXCEPT !.short = TRUE]
    ELSE [d EXCEPT !.range = @ * SymTop, !.code = @ * SymTop + src[d.read + 1], !.read = @ + 1]

BitBelow(d, key, bound) ==
    IF d.short THEN d
    ELSE IF d.code < bound THEN [d EXCEPT !.probs = Learnt(@, key, 0), !.bit = 0, !.range = bound]
    ELSE [d EXCEPT !.probs = Learnt(@, key, 1), !.bit = 1, !.range = @ - bound, !.code = @ - bound]

DecodeBit(d, key) ==
    LET n == DecNormalize(d) IN BitBelow(n, key, (n.range \div 2^ModelBits) * Prob(n.probs, key))

RECURSIVE DirectFrom(_, _, _)
DirectFrom(d, n, v) ==
    IF n = 0 THEN [d EXCEPT !.value = v]
    ELSE LET e == DecNormalize(d)
             half == e.range \div 2
             bit == IF e.code < half THEN 0 ELSE 1
         IN IF e.short THEN e
            ELSE DirectFrom([e EXCEPT !.range = half, !.code = @ - bit * half], n - 1, 2 * v + bit)

RECURSIVE TreeFrom(_, _, _, _)
TreeFrom(d, key, n, index) ==
    IF n = 0 THEN [d EXCEPT !.value = index]
    ELSE LET e == DecodeBit(d, Append(key, index)) IN TreeFrom(e, key, n - 1, 2 * index + e.bit)

DecodeTree(d, key, n) == [TreeFrom(d, key, n, 1) EXCEPT !.value = @ - 2^n]

RECURSIVE ReverseFrom(_, _, _, _, _)
ReverseFrom(d, key, n, i, index) ==
    IF i = n THEN d
    ELSE LET e == DecodeBit(d, Append(key, index)) IN
         ReverseFrom([e EXCEPT !.value = @ + e.bit * 2^i], key, n, i + 1, 2 * index + e.bit)

RECURSIVE SpecialFrom(_, _, _, _)
SpecialFrom(d, index, m, n) ==
    IF n = 0 THEN [d EXCEPT !.value = index - m]
    ELSE LET e == DecodeBit(d, <<"special", index>>) IN
         SpecialFrom(e, IF e.bit = 0 THEN index + m ELSE index + 2 * m, 2 * m, n - 1)

Plus(d, n) == [d EXCEPT !.value = @ + n]

DecodeLength(d, k, ps) ==
    LET a == DecodeBit(d, <<"choice", k>>)
        b == DecodeBit(a, <<"choice2", k>>)
    IN IF a.bit = 0 THEN Plus(DecodeTree(a, <<"low", k, ps>>, LenLowBits), MinMatchLen)
       ELSE IF b.bit = 0 THEN Plus(DecodeTree(b, <<"mid", k, ps>>, LenMidBits), MinMatchLen + 2^LenLowBits)
       ELSE Plus(DecodeTree(b, <<"high", k>>, LenHighBits), MinMatchLen + 2^LenLowBits + 2^LenMidBits)

DistanceIn(s) ==
    LET base == SlotBase(s.value)
        n == DirectBits(s.value)
        high == DirectFrom(s, n - AlignBits, 0)
    IN IF s.value < ModelStart THEN s
       ELSE IF s.value < ModelEnd THEN SpecialFrom(s, base + 1, 1, n)
       ELSE ReverseFrom([high EXCEPT !.value = base + @ * 2^AlignBits], <<"align">>, AlignBits, 0, 1)

DecodeDistance(d, length) == DistanceIn(DecodeTree(d, <<"slot", DistState(length)>>, SlotBits))

RECURSIVE LiteralFrom(_, _, _, _)
LiteralFrom(d, context, symbol, matched) ==
    IF symbol >= SymTop THEN [d EXCEPT !.value = symbol - SymTop]
    ELSE IF matched = Unknown
    THEN LET e == DecodeBit(d, <<"lit", context, symbol>>) IN
         LiteralFrom(e, context, 2 * symbol + e.bit, Unknown)
    ELSE LET top == BitOf(matched, SymBits - 1)
             e == DecodeBit(d, <<"lit", context, SymTop + SymTop * top + symbol>>)
         IN LiteralFrom(e, context, 2 * symbol + e.bit,
                        IF e.bit = top THEN (2 * matched) % SymTop ELSE Unknown)

(* One packet: a byte, a length at the first of the distances, the marker; *)
(* or the input ends in it, or its distance has nothing there.             *)
Has(d, distance) == distance < Len(d.hist)
FromBack(hist, distance) == hist[Len(hist) - distance]

Outcome(d, is) == IF d.short THEN [is |-> "short", core |-> d] ELSE [is |-> is, core |-> d]
Reaching(d, is) == IF ~d.short /\ ~Has(d, d.reps[1]) THEN [is |-> "bad", core |-> d] ELSE Outcome(d, is)

LiteralPacket(d) ==
    LET prev == IF d.hist = << >> THEN 0 ELSE FromBack(d.hist, 0)
        matched == IF d.st < LitStates THEN Unknown ELSE FromBack(d.hist, d.reps[1])
    IN Outcome([LiteralFrom(d, LiteralContext(d.made, d.lp, d.lc, prev), 1, matched) EXCEPT !.st = AfterLiteral(@)],
               "literal")

MatchAt(d, length) ==
    IF d.value = EosDistance /\ ~d.short THEN [is |-> "eos", core |-> [d EXCEPT !.ended = TRUE]]
    ELSE Reaching([d EXCEPT !.reps = WithDistance(@, d.value), !.st = AfterMatch(@), !.value = length], "match")

MatchPacket(d, ps) == LET e == DecodeLength(d, 0, ps) IN MatchAt(DecodeDistance(e, e.value), e.value)

ShortRepPacket(d) ==
    IF ~d.short /\ ~Has(d, d.reps[1]) THEN [is |-> "bad", core |-> d]
    ELSE IF d.short THEN [is |-> "short", core |-> d]
    ELSE Outcome([d EXCEPT !.st = AfterShortRep(@), !.value = FromBack(d.hist, d.reps[1])], "literal")

FinishRepMatch(d, i, ps) ==
    Reaching([DecodeLength([d EXCEPT !.reps = RepToFront(@, i)], 1, ps) EXCEPT !.st = AfterRep(@)], "match")

RepPacket(d, s, ps) ==
    LET r0 == DecodeBit(d, <<"rep0", s>>)
        long == DecodeBit(r0, <<"long", s, ps>>)
        r1 == DecodeBit(r0, <<"rep1", s>>)
        r2 == DecodeBit(r1, <<"rep2", s>>)
    IN IF r0.bit = 0 THEN (IF long.bit = 0 THEN ShortRepPacket(long) ELSE FinishRepMatch(long, 1, ps))
       ELSE IF r1.bit = 0 THEN FinishRepMatch(r1, 2, ps)
       ELSE FinishRepMatch(r2, 3 + r2.bit, ps)

Packet(d) ==
    LET ps == d.made % 2^d.pb
        m == DecodeBit(d, <<"match", d.st, ps>>)
        r == DecodeBit(m, <<"isrep", d.st>>)
    IN IF m.bit = 0 THEN LiteralPacket(m) ELSE IF r.bit = 1 THEN RepPacket(r, d.st, ps) ELSE MatchPacket(r, ps)

(* What a packet may not do to an entry of known size.                     *)
Oversteps(p) ==
    LET d == p.core IN
    /\ d.expected # Unknown
    /\ \/ p.is = "eos" /\ d.made # d.expected
       \/ p.is = "literal" /\ d.made >= d.expected
       \/ p.is = "match" /\ d.cap = Unknown /\ d.made + d.value > d.expected

-----------------------------------------------------------------------------
LzFinishing == phase = "decode_finish"
LzGoes(d) == Turn(d, 0, << >>)
LzLeaves(d) == LzGoes([d EXCEPT !.stage = "leave"])
Unread == pos - state.read
HeaderLen == 4

(* A stream of its own takes all it is given; one in ZIP a piece at a      *)
(* time.  finish parses no header.                                         *)
LzEnter ==
    /\ state.stage = "enter"
    /\ \/ LzFinishing /\ LzGoes([state EXCEPT !.stage = "drain"])
       \/ ~LzFinishing /\ state.zip /\ state.head = "Done" /\ End(state, << >>)
       \/ /\ ~LzFinishing /\ ~(state.zip /\ state.head = "Done")
          /\ LET n == IF state.zip THEN Smaller(avail - pos, AbsorbChunk) ELSE avail - pos IN
             Turn([state EXCEPT !.stage = "start", !.from = IF @ = Unknown THEN pos ELSE @], n, << >>)

ParseHeader ==
    LET p == state.read + (IF state.zip THEN 2 ELSE 0)
        props == src[p + 1]
        lc == props % LcRadix
        lp == (props \div LcRadix) % LpRadix
        size == IF state.zip THEN NoSize ELSE src[p + 3] + SymTop * src[p + 4]
    IN IF (state.zip /\ src[p] # 2) \/ props >= LcRadix * LpRadix * PbRadix \/ lc + lp > MaxLcLp THEN Fail
       ELSE LzGoes([state EXCEPT !.head = "HeaderParsed", !.read = @ + HeaderLen,
                                 !.lc = lc, !.lp = lp, !.pb = props \div (LcRadix * LpRadix),
                                 !.dict = Larger(DictMin, Smaller(src[p + 2], DictMax)),
                                 !.cap = IF state.zip THEN (IF state.eos THEN Unknown ELSE state.size)
                                         ELSE IF size = NoSize THEN Unknown ELSE size,
                                 !.expected = IF state.zip THEN state.size ELSE Unknown])

(* The first byte of the range coder is always zero.                       *)
InitRange ==
    LET code == (src[state.read + 2] * SymTop + src[state.read + 3]) * SymTop + src[state.read + 4] IN
    IF src[state.read + 1] # 0 THEN Fail
    ELSE LzGoes([state EXCEPT !.head = "Active", !.stage = "drain", !.range = 2^RangeBits - 1,
                              !.code = code, !.read = @ + CodeBytes])

LzStart ==
    /\ state.stage = "start"
    /\ \/ state.head = "Empty" /\ Unread < HeaderLen /\ LzLeaves(state)
       \/ state.head = "Empty" /\ Unread >= HeaderLen /\ ParseHeader
       \/ state.head = "HeaderParsed" /\ Unread < CodeBytes /\ LzLeaves(state)
       \/ state.head = "HeaderParsed" /\ Unread >= CodeBytes /\ InitRange
       \/ state.head \in {"Active", "Done"} /\ LzGoes([state EXCEPT !.stage = "drain"])

(* drain_output: a byte or a match owed, then the end, then a packet.      *)
Keep(hist, bytes) == LastBytes(hist \o bytes, state.dict)

PutLiteral ==
    \/ NoRoom /\ LzLeaves(state)
    \/ ~NoRoom /\ Turn([state EXCEPT !.hist = Keep(@, <<state.literal>>), !.made = @ + 1, !.literal = Unknown],
                       0, <<state.literal>>)

Repeated(hist, distance, n) ==
    LET byte[k \in 1..n] ==
            IF k > distance + 1 THEN byte[k - distance - 1] ELSE hist[Len(hist) - distance + k - 1]
    IN [k \in 1..n |-> byte[k]]

PutMatch ==
    LET capped == state.cap # Unknown
        n == Smaller(state.owed, IF capped THEN Smaller(room, state.cap - state.made) ELSE room)
        bytes == Repeated(state.hist, state.reps[1], n)
        ended == capped /\ state.made + n >= state.cap
        next == [state EXCEPT !.hist = Keep(@, bytes), !.made = @ + n, !.ended = @ \/ ended,
                              !.owed = IF ended THEN 0 ELSE @ - n]
    IN Turn(IF next.owed > 0 THEN [next EXCEPT !.stage = "leave"] ELSE next, 0, bytes)

LzOwes == state.literal # Unknown \/ state.owed > 0
CapReached == state.cap # Unknown /\ state.made >= state.cap

RangeCore ==
    [lc |-> state.lc, lp |-> state.lp, pb |-> state.pb, hist |-> state.hist, made |-> state.made,
     probs |-> state.probs, st |-> state.st, reps |-> state.reps, range |-> state.range,
     code |-> state.code, read |-> state.read, ended |-> FALSE, short |-> FALSE, bit |-> 0,
     value |-> 0, cap |-> state.cap, expected |-> state.expected]

(* In ZIP the coder's last byte is read as well, and must leave nothing;   *)
(* if it does where the size was reached, a marker may still follow.       *)
EndOfCode ==
    LET d == DecNormalize(RangeCore)
        read == [state EXCEPT !.range = d.range, !.code = d.code, !.read = d.read, !.ended = TRUE]
    IN \/ ~state.zip /\ LzLeaves([state EXCEPT !.ended = TRUE, !.head = "Done"])
       \/ /\ state.zip
          /\ \/ d.short /\ LzFinishing /\ Fail
             \/ d.short /\ ~LzFinishing /\ LzLeaves([state EXCEPT !.ended = TRUE])
             \/ ~d.short /\ d.code = 0 /\ LzLeaves([read EXCEPT !.head = "Done"])
             \/ ~d.short /\ d.code # 0 /\ state.cap = Unknown /\ Fail
             \/ ~d.short /\ d.code # 0 /\ state.cap # Unknown /\ LzGoes([read EXCEPT !.cap = Unknown, !.ended = FALSE])

Settle(p) ==
    LET d == p.core
        next == [state EXCEPT !.probs = d.probs, !.st = d.st, !.reps = d.reps, !.range = d.range,
                              !.code = d.code, !.read = d.read, !.ended = d.ended,
                              !.literal = IF p.is = "literal" THEN d.value ELSE Unknown,
                              !.owed = IF p.is = "match" THEN d.value ELSE 0,
                              !.head = IF p.is = "eos" /\ ~state.zip THEN "Done" ELSE @]
    IN IF p.is \in {"short", "bad"} \/ Oversteps(p) THEN Fail ELSE LzGoes(next)

TryPacket == Settle(Packet(RangeCore))

LzDrain ==
    /\ state.stage = "drain"
    /\ \/ state.literal # Unknown /\ PutLiteral
       \/ state.owed > 0 /\ PutMatch
       \/ ~LzOwes /\ state.head # "Active" /\ LzLeaves(state)
       \/ ~LzOwes /\ state.head = "Active" /\ (state.ended \/ CapReached) /\ EndOfCode
       \/ /\ ~LzOwes /\ state.head = "Active" /\ ~state.ended /\ ~CapReached
          /\ \/ ~LzFinishing /\ Unread < RequiredInput /\ LzLeaves(state)
             \/ (LzFinishing \/ Unread >= RequiredInput) /\ TryPacket

(* What ZIP's decoder took in this call and did not read goes back.        *)
Handed(d) == [d EXCEPT !.stage = "enter", !.from = Unknown]
LzFull == NoRoom \/ LzOwes

LzLeave ==
    /\ state.stage = "leave"
    /\ \/ LzFinishing /\ state.head = "Done" /\ DecodeDone
       \/ LzFinishing /\ state.head = "Active" /\ Return(Handed(state), << >>)
       \/ LzFinishing /\ state.head \in {"Empty", "HeaderParsed"} /\ Fail
       \/ ~LzFinishing /\ ~state.zip /\ Return(Handed(state), << >>)
       \/ /\ ~LzFinishing /\ state.zip /\ state.head # "Done" /\ ~LzFull /\ ~NoInput
          /\ LzGoes([state EXCEPT !.stage = "enter"])
       \/ /\ ~LzFinishing /\ state.zip /\ (state.head = "Done" \/ LzFull \/ NoInput)
          /\ LET back == IF state.head = "Done" \/ (state.head = "Active" /\ LzFull) THEN Unread ELSE 0 IN
             Turn([state EXCEPT !.stage = "return"], -Smaller(back, pos - state.from), << >>)

LzReturn ==
    /\ state.stage = "return"
    /\ \/ state.head = "Done" /\ End(Handed(state), << >>)
       \/ state.head # "Done" /\ Return(Handed(state), << >>)

LzDecode == LzEnter \/ LzStart \/ LzDrain \/ LzLeave \/ LzReturn
=============================================================================
