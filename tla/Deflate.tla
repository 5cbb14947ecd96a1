------------------------------ MODULE Deflate -------------------------------
(***************************************************************************)
(* DEFLATE, the decoder and then the encoder.                              *)
(*                                                                         *)
(* The DEFLATE decoder (deflate/decoder.rs).  A call reads bytes ahead     *)
(* into a bit reader, decodes one field at a time, keeps its place inside  *)
(* any of them, and hands back the whole bytes it did not need when it     *)
(* stops for another reason than want of input.  Its state is the `inf`    *)
(* part of `state`; gzip and zlib wrap it (GzipZlib.tla).  The alphabets   *)
(* are those of RFC 1951 cut down: the bytes, end of block, two lengths    *)
(* and three distances, some with an extra bit, and a symbol of each       *)
(* alphabet that only the fixed code has and no stream may use.            *)
(***************************************************************************)
EXTENDS CodecCall, FiniteSetsExt, Integers

CONSTANTS
    MaxCode,    \* longest code: 15
    Cap,        \* bits held that stop the reading ahead: 56
    WinCap,     \* bytes of history: 32 KiB
    LenBits     \* bits of a stored block's length: 16

ASSUME InflateAssumption ==
    /\ MaxCode \in Nat \ {0}
    /\ Cap >= 2 * LenBits /\ WinCap \in Nat \ {0} /\ LenBits % ByteBits = 0

-----------------------------------------------------------------------------
(* Canonical prefix codes (huffman.rs, deflate/inftable.rs): a table is    *)
(* built from the code lengths of its symbols, and a decoder that holds    *)
(* some bits of the stream finds a symbol, wants more, or meets bits that  *)
(* are no code.                                                            *)

(* Symbol s has length lengths[s + 1], 0 when it is not used.              *)
Coded(lengths) == {s \in 0..(Len(lengths) - 1) : lengths[s + 1] > 0}

Oversubscribed(lengths) ==
    MapThenSumSet(LAMBDA s : 2^(MaxCode - lengths[s + 1]), Coded(lengths)) > 2^MaxCode

(* Codes are numbered by length, then symbol; a code's first bit in the    *)
(* stream is its highest.                                                  *)
Before(lengths, t, s) ==
    \/ lengths[t + 1] < lengths[s + 1]
    \/ lengths[t + 1] = lengths[s + 1] /\ t < s

CodeOf(lengths, s) ==
    LET n == lengths[s + 1]
        v == MapThenSumSet(LAMBDA t : 2^(n - lengths[t + 1]),
                           {t \in Coded(lengths) : Before(lengths, t, s)})
    IN [i \in 1..n |-> (v \div 2^(n - i)) % 2]

Table(lengths) ==
    [c \in {CodeOf(lengths, s) : s \in Coded(lengths)} |->
        CHOOSE s \in Coded(lengths) : CodeOf(lengths, s) = c]

Matches(table, bits) == {c \in DOMAIN table : IsPrefix(c, bits)}
Found(table, bits) == Matches(table, bits) # {}
NextCodeOf(table, bits) == CHOOSE c \in Matches(table, bits) : TRUE

(* decode_short: the bits match no code, and no more bits can help.        *)
NotACode(table, bits) ==
    /\ ~Found(table, bits)
    /\ \A c \in DOMAIN table : Len(bits) >= Len(c)

-----------------------------------------------------------------------------
(* The alphabets.                                                          *)

EOB == 2^ByteBits
IsLiteral(s) == s < EOB

(* Length and distance symbols: base and extra bits.                       *)
LengthBases == [s \in {EOB + 1, EOB + 2} |-> IF s = EOB + 1 THEN 2 ELSE 3]
LengthBits == [s \in {EOB + 1, EOB + 2} |-> IF s = EOB + 1 THEN 0 ELSE 1]
DistBases == <<1, 2, 3>>
DistBits == <<0, 0, 1>>

FixedLitLengths == <<3, 3, 3, 4, 2, 3, 3, 4>>
FixedDistLengths == <<2, 2, 2, 2>>
FixedLit == Table(FixedLitLengths)
FixedDist == Table(FixedDistLengths)

(* Code lengths are sent in a code of their own: 0 to 3, then repeat the   *)
(* previous one, and two runs of zeros.                                    *)
CodeLengthOrder == <<4, 5, 6, 0, 3, 1, 2>>
RepeatPrev == 4
RepeatBase == <<2, 2, 4>>
RepeatBits == <<1, 1, 2>>
MinLit == EOB + 1   \* HLIT + 257
MinCl == 4          \* HCLEN + 4

NewInflate(dictionary) ==
    [st |-> "BlockHeader", n |-> 0, m |-> 0, k |-> 0, lens |-> << >>, cl |-> << >>,
     lit |-> << >>, dist |-> << >>, acc |-> << >>, last |-> FALSE,
     window |-> dictionary, fresh |-> << >>, stage |-> "enter", from |-> 0, ended |-> FALSE]

D == state.inf
Become(d) == Turn([state EXCEPT !.inf = d], 0, << >>)

History == D.window \o D.fresh

Have(n) == Len(D.acc) >= n
Peek(n) == Value(SubSeq(D.acc, 1, n))
Drop(d, n) == [d EXCEPT !.acc = SubSeq(@, n + 1, Len(@))]

-----------------------------------------------------------------------------
(* raw_decode begins: nothing written yet.                                 *)
Enter ==
    /\ D.stage = "enter"
    /\ Become([D EXCEPT !.stage = "refill", !.from = pos, !.fresh = << >>, !.ended = FALSE])

(* Each turn of the loop first reads ahead.                                *)
Fed == IF Len(D.acc) > Cap THEN 0
       ELSE Smaller(avail - pos, (Cap - Len(D.acc)) \div ByteBits + 1)

Refill ==
    /\ D.stage = "refill"
    /\ \/ D.st = "Done" /\ Become([D EXCEPT !.stage = "unfeed"])
       \/ D.st # "Done"
            /\ Turn([state EXCEPT !.inf.acc = @ \o BitsOf(SubSeq(src, pos + 1, pos + Fed)),
                                  !.inf.stage = "step"], Fed, << >>)

(* A step that moved: another turn, unless the call stops at blocks.       *)
Moved(d) ==
    [d EXCEPT !.stage = IF d.ended /\ state.stop THEN "unfeed" ELSE "refill"]

(* Not enough bits: read on if that can help, else the call is over.       *)
Starved == Become([D EXCEPT !.stage = IF NoInput \/ Len(D.acc) > Cap THEN "unfeed" ELSE "refill"])

AfterBlock(d) ==
    IF d.last THEN [d EXCEPT !.st = "Done"]
    ELSE [d EXCEPT !.st = "BlockHeader", !.ended = TRUE]

In(st) == D.stage = "step" /\ D.st = st

BlockHeader ==
    /\ In("BlockHeader")
    /\ \/ ~Have(3) /\ Starved
       \/ /\ Have(3)
          /\ LET type == Peek(3) \div 2
                 d == [Drop(D, 3) EXCEPT !.last = (Peek(1) = 1)]
             IN \/ type = 0 /\ Become(Moved([d EXCEPT !.st = "StoredAlign"]))
                \/ type = 1 /\ Become(Moved([d EXCEPT !.st = "NextSymbol",
                                                     !.lit = FixedLit, !.dist = FixedDist]))
                \/ type = 2 /\ Become(Moved([d EXCEPT !.st = "DynamicHeader"]))
                \/ type = 3 /\ Fail

StoredAlign ==
    /\ In("StoredAlign")
    /\ Become(Moved([Drop(D, Len(D.acc) % ByteBits) EXCEPT !.st = "StoredLength"]))

(* The length, and its complement.                                         *)
StoredLength ==
    /\ In("StoredLength")
    /\ \/ ~Have(2 * LenBits) /\ Starved
       \/ /\ Have(2 * LenBits)
          /\ LET n == Peek(LenBits)
                 nlen == Peek(2 * LenBits) \div 2^LenBits
             IN \/ n + nlen # 2^LenBits - 1 /\ Fail
                \/ n + nlen = 2^LenBits - 1
                     /\ Become(Moved([Drop(D, 2 * LenBits) EXCEPT !.st = "Stored", !.n = n]))

(* Bytes the reader holds go first, then straight from the input.          *)
Stored ==
    /\ In("Stored")
    /\ LET held == Smaller(D.n, Smaller(Len(D.acc) \div ByteBits, room))
           taken == Smaller(D.n - held, Smaller(avail - pos, room - held))
           put == WholeBytes(SubSeq(D.acc, 1, held * ByteBits)) \o SubSeq(src, pos + 1, pos + taken)
           d == [Drop(D, held * ByteBits) EXCEPT !.n = @ - held - taken, !.fresh = @ \o put]
       IN Turn([state EXCEPT !.inf =
                   IF d.n = 0 THEN Moved(AfterBlock(d))
                   ELSE [d EXCEPT !.stage = IF put = << >> THEN "unfeed" ELSE "refill"]],
               taken, put)

-----------------------------------------------------------------------------
(* A dynamic block: how many lengths of each kind, the lengths of the code *)
(* they are sent in, the lengths, and the two tables they make.            *)
DynamicHeader ==
    /\ In("DynamicHeader")
    /\ \/ ~Have(6) /\ Starved
       \/ /\ Have(6)
          /\ LET hlit == Peek(2)
                 hdist == (Peek(4) \div 4)
                 hclen == (Peek(6) \div 16)
             IN \/ (hlit > 2 \/ hdist > 2) /\ Fail
                \/ hlit <= 2 /\ hdist <= 2
                     /\ Become(Moved([Drop(D, 6) EXCEPT
                            !.st = "CodeLengthLengths", !.lens = << >>,
                            !.n = MinLit + hlit, !.m = hdist + 1, !.k = MinCl + hclen]))

(* Where the i-th length sent belongs; those not sent are 0.               *)
Ordered(lens) ==
    [s \in 1..Len(CodeLengthOrder) |->
        LET at == {i \in DOMAIN lens : CodeLengthOrder[i] = s - 1} IN
        IF at = {} THEN 0 ELSE lens[CHOOSE i \in at : TRUE]]

CodeLengthLengths ==
    /\ In("CodeLengthLengths")
    /\ \/ Len(D.lens) < D.k /\ ~Have(2) /\ Starved
       \/ Len(D.lens) < D.k /\ Have(2) /\ Become([Drop(D, 2) EXCEPT !.lens = Append(@, Peek(2))])
       \/ /\ Len(D.lens) = D.k
          /\ LET lengths == Ordered(D.lens) IN
             \/ Oversubscribed(lengths) /\ Fail
             \/ ~Oversubscribed(lengths)
                  /\ Become(Moved([D EXCEPT !.st = "CodeLengthsData", !.cl = Table(lengths),
                                            !.lens = << >>, !.k = 0]))

(* The symbol of a table, if the bits held make one.                       *)
Symbol(table) == table[NextCodeOf(table, D.acc)]
Without(table) == Drop(D, Len(NextCodeOf(table, D.acc)))
NoSymbolYet(table) ==
    /\ ~Found(table, D.acc)
    /\ IF NotACode(table, D.acc) THEN Fail ELSE Starved

(* A run of lengths, once its extra bits are in: 0, or the one before.     *)
Repeat ==
    LET v == IF D.k = RepeatPrev THEN D.lens[Len(D.lens)] ELSE 0
        n == Peek(RepeatBits[D.k - RepeatPrev + 1]) + RepeatBase[D.k - RepeatPrev + 1]
    IN IF Len(D.lens) + n > D.n + D.m \/ (D.k = RepeatPrev /\ D.lens = << >>) THEN Fail
       ELSE Become([Drop(D, RepeatBits[D.k - RepeatPrev + 1]) EXCEPT
                        !.lens = @ \o Copies(v, n), !.k = 0])

(* k is the repeat symbol whose extra bits are to come, 0 for none.        *)
CodeLengthsData ==
    /\ In("CodeLengthsData")
    /\ LET total == D.n + D.m
           lit == SubSeq(D.lens, 1, D.n)
           dist == SubSeq(D.lens, D.n + 1, total)
       IN \/ /\ Len(D.lens) = total
             /\ \/ (Oversubscribed(lit) \/ Oversubscribed(dist)) /\ Fail
                \/ ~Oversubscribed(lit) /\ ~Oversubscribed(dist)
                     /\ Become(Moved([D EXCEPT !.st = "NextSymbol", !.lit = Table(lit),
                            !.dist = Table(dist), !.cl = << >>, !.lens = << >>]))
          \/ Len(D.lens) < total /\ D.k = 0 /\ NoSymbolYet(D.cl)
          \/ Len(D.lens) < total /\ D.k = 0 /\ Found(D.cl, D.acc)
               /\ Become(IF Symbol(D.cl) < RepeatPrev
                         THEN [Without(D.cl) EXCEPT !.lens = Append(@, Symbol(D.cl))]
                         ELSE [Without(D.cl) EXCEPT !.k = Symbol(D.cl)])
          \/ Len(D.lens) < total /\ D.k # 0
               /\ IF Have(RepeatBits[D.k - RepeatPrev + 1]) THEN Repeat ELSE Starved

-----------------------------------------------------------------------------
(* A block of symbols: n is the length of the match, m its distance, k the *)
(* symbol whose extra bits are to come, or the literal without room.       *)
Put(d, put) == Turn([state EXCEPT !.inf = [d EXCEPT !.fresh = @ \o put]], 0, put)

NextSymbol ==
    /\ In("NextSymbol")
    /\ \/ NoSymbolYet(D.lit)
       \/ /\ Found(D.lit, D.acc)
          /\ LET s == Symbol(D.lit)
                 d == Without(D.lit)
             IN \/ IsLiteral(s) /\ ~NoRoom /\ Put(d, <<s>>)
                \/ IsLiteral(s) /\ NoRoom
                     /\ Become([d EXCEPT !.st = "PendingLiteral", !.k = s])
                \/ s = EOB /\ Become(Moved(AfterBlock(d)))
                \/ s \in DOMAIN LengthBases /\ Become([d EXCEPT !.st = "LengthExtra", !.k = s])
                \/ s > EOB /\ s \notin DOMAIN LengthBases /\ Fail

LengthExtra ==
    /\ In("LengthExtra")
    /\ \/ ~Have(LengthBits[D.k]) /\ Starved
       \/ Have(LengthBits[D.k])
            /\ Become([Drop(D, LengthBits[D.k]) EXCEPT
                           !.st = "DistanceSymbol", !.n = LengthBases[D.k] + Peek(LengthBits[D.k])])

DistanceSymbol ==
    /\ In("DistanceSymbol")
    /\ \/ NoSymbolYet(D.dist)
       \/ /\ Found(D.dist, D.acc)
          /\ LET s == Symbol(D.dist) IN
             \/ s + 1 \in DOMAIN DistBases
                  /\ Become([Without(D.dist) EXCEPT !.st = "DistanceExtra", !.k = s + 1])
             \/ s + 1 \notin DOMAIN DistBases /\ Fail

DistanceExtra ==
    /\ In("DistanceExtra")
    /\ \/ ~Have(DistBits[D.k]) /\ Starved
       \/ /\ Have(DistBits[D.k])
          /\ LET distance == DistBases[D.k] + Peek(DistBits[D.k]) IN
             \/ (distance > Len(History) \/ distance > WinCap) /\ Fail
             \/ distance <= Len(History) /\ distance <= WinCap
                  /\ Become([Drop(D, DistBits[D.k]) EXCEPT !.st = "EmittingMatch", !.m = distance])

(* As much of the match as fits; it may overlap what it writes.            *)
EmittingMatch ==
    /\ In("EmittingMatch")
    /\ LET n == Smaller(D.n, room)
           start == Len(History) - D.m
           put == [i \in 1..n |-> History[start + ((i - 1) % D.m) + 1]]
       IN IF n = D.n THEN Put([D EXCEPT !.st = "NextSymbol"], put)
          ELSE Put([D EXCEPT !.n = @ - n, !.stage = "unfeed"], put)

PendingLiteral ==
    /\ In("PendingLiteral")
    /\ \/ NoRoom /\ Become([D EXCEPT !.stage = "unfeed"])
       \/ ~NoRoom /\ Put([D EXCEPT !.st = "NextSymbol"], <<D.k>>)

-----------------------------------------------------------------------------
(* Bug: the bytes read ahead are kept where the stream ends.               *)
KeepFed == D.stage = "unfeed" /\ Become([D EXCEPT !.stage = "return"])

(* The whole bytes not needed go back to the input, unless the call stops  *)
(* for want of more of it.                                                 *)
HandsBack ==
    \/ D.st \in {"Done", "Stored", "EmittingMatch", "PendingLiteral"}
    \/ D.ended /\ state.stop

Unfeed ==
    /\ D.stage = "unfeed"
    /\ LET whole == IF HandsBack THEN Len(D.acc) \div ByteBits ELSE 0
           back == Smaller(whole, pos - D.from)
       IN Turn([state EXCEPT !.inf = [D EXCEPT
                   !.acc = IF HandsBack THEN SubSeq(@, 1, Len(@) % ByteBits) ELSE @,
                   !.stage = "return"]], -back, << >>)

(* The call's output joins the history as it returns.                      *)
PushHistory(d) ==
    [d EXCEPT !.window = LastBytes(@ \o d.fresh, WinCap), !.fresh = << >>, !.stage = "enter"]

InnerMoved == pos # D.from \/ D.fresh # << >>
Complete == D.st = "Done"
AtBlockBoundary == D.st = "BlockHeader"

(* The code takes many of these in one go while input and room are ample   *)
(* (fast_huffman), and comes back to them at a symbol's end.               *)
Symbols == NextSymbol \/ LengthExtra \/ DistanceSymbol \/ DistanceExtra \/ EmittingMatch

InflateStep ==
    \/ Enter \/ Refill \/ Unfeed
    \/ BlockHeader \/ StoredAlign \/ StoredLength \/ Stored
    \/ DynamicHeader \/ CodeLengthLengths \/ CodeLengthsData
    \/ Symbols \/ PendingLiteral

InflateOwes ==
    \/ D.st \in {"EmittingMatch", "PendingLiteral"}
    \/ D.st = "NextSymbol" /\ Found(D.lit, D.acc)

-----------------------------------------------------------------------------
(***************************************************************************)
(* The DEFLATE encoder (deflate/encoder.rs): it gathers input in a window, *)
(* turns every BlockSize bytes of it, and what there is at a flush or the  *)
(* end, into a block in a buffer, and hands the buffer out before it takes *)
(* more.  The strategy says how a block is parsed; which kind of block is  *)
(* the cheapest is left open: any of the three.                            *)
(***************************************************************************)
CONSTANTS
    BlockSize,   \* fresh input bytes per block, from the memory level
    WindowMax,   \* WINDOW_MAX
    Strategies   \* bound: those of the run, "stored" being level 0

ASSUME DeflateAssumption ==
    /\ BlockSize \in Nat \ {0} /\ WindowMax >= WinCap + BlockSize
    /\ Strategies \subseteq {"stored", "literal", "rle", "fixed", "lz77"}

MinMatch == 2
MaxMatch == 4

NewDeflate(dictionary, strategy) ==
    [st |-> "Accepting", strategy |-> strategy, window |-> dictionary, cursor |-> Len(dictionary), floor |-> 0,
     acc |-> << >>, buf |-> << >>, final |-> FALSE, midFlush |-> FALSE]

E == state.def

(* The longest match at p, the nearest of those: <<length, distance>>.     *)
MatchesAt(d, p) ==
    LET far == IF d.strategy = "rle" THEN 1 ELSE WinCap IN
    {m \in (MinMatch..MaxMatch) \X (1..Smaller(far, p - d.floor)) :
        /\ p + m[1] <= Len(d.window)
        /\ \A i \in 1..m[1] : d.window[p + i] = d.window[p + i - m[2]]}

Longest(ms) ==
    CHOOSE m \in ms : \A o \in ms : o[1] < m[1] \/ (o[1] = m[1] /\ m[2] <= o[2])

(* The symbols of window[cursor..end]; a match may run past `end` into     *)
(* what lies ahead.                                                        *)
Parse(d, end) ==
    LET from[p \in 0..Len(d.window)] ==
            IF p >= end THEN [toks |-> << >>, at |-> p]
            ELSE LET ms == IF d.strategy = "literal" \/ (d.strategy # "rle" /\ p + MinMatch > end)
                           THEN {} ELSE MatchesAt(d, p)
                     t == IF ms = {} THEN <<d.window[p + 1]>> ELSE Longest(ms)
                     rest == from[p + (IF ms = {} THEN 1 ELSE t[1])]
                 IN [rest EXCEPT !.toks = <<t>> \o @]
    IN from[d.cursor]

-----------------------------------------------------------------------------
LengthSymbol(n) == IF n = 2 THEN EOB + 1 ELSE EOB + 2
DistanceSymbolOf(dist) == Smaller(dist, 3)

SymbolsUsed(toks) ==
    {EOB} \cup {IF Len(t) = 1 THEN t[1] ELSE LengthSymbol(t[1]) : t \in Range(toks)}
DistancesUsed(toks) == {DistanceSymbolOf(t[2]) - 1 : t \in {u \in Range(toks) : Len(u) = 2}}

TokenBits(t, lit, dist) ==
    IF Len(t) = 1 THEN CodeOf(lit, t[1])
    ELSE LET l == LengthSymbol(t[1])
             c == DistanceSymbolOf(t[2])
         IN CodeOf(lit, l) \o Bits(t[1] - LengthBases[l], LengthBits[l])
            \o CodeOf(dist, c - 1) \o Bits(t[2] - DistBases[c], DistBits[c])

EmitSymbols(toks, lit, dist) ==
    FoldLeft(LAMBDA acc, t : acc \o TokenBits(t, lit, dist), << >>, toks) \o CodeOf(lit, EOB)

FixedBlock(toks) == EmitSymbols(toks, FixedLitLengths, FixedDistLengths)

(* Lengths for the symbols used; any that make a code will do.             *)
LengthsFor(used, n) ==
    LET bits == CHOOSE k \in 1..MaxCode : 2^k >= Cardinality(used) /\ (k = 1 \/ 2^(k - 1) < Cardinality(used))
    IN [i \in 1..n |-> IF i - 1 \in used THEN bits ELSE 0]

(* Zeros at the end are not sent, down to a least count.                   *)
Trimmed(lens, least) ==
    LET n == CHOOSE n \in least..Len(lens) : /\ \A i \in (n + 1)..Len(lens) : lens[i] = 0
                                             /\ n = least \/ lens[n] # 0
    IN SubSeq(lens, 1, n)

(* rle_encode_lengths_into: <<symbol, extra value>>.                       *)
RunLengths(lens) ==
    LET from[i \in 1..(Len(lens) + 1)] ==
            IF i > Len(lens) THEN << >>
            ELSE LET v == lens[i]
                     run == CHOOSE n \in 1..(Len(lens) - i + 1) :
                                /\ \A k \in 0..(n - 1) : lens[i + k] = v
                                /\ i + n > Len(lens) \/ lens[i + n] # v
                     long == Smaller(run, 7)
                     short == Smaller(run, 3)
                 IN IF v = 0 /\ run >= 4 THEN <<<<6, long - 4>>>> \o from[i + long]
                    ELSE IF v = 0 /\ run >= 2 THEN <<<<5, run - 2>>>> \o from[i + run]
                    ELSE IF i > 1 /\ v # 0 /\ lens[i - 1] = v /\ run >= 2
                    THEN <<<<RepeatPrev, short - 2>>>> \o from[i + short]
                    ELSE <<<<v, 0>>>> \o from[i + 1]
    IN from[1]

(* The lengths of both codes, themselves coded.                            *)
CodedLengths(lit, dist) ==
    LET sentLit == Trimmed(lit, MinLit)
        sentDist == Trimmed(dist, 1)
        runs == RunLengths(sentLit \o sentDist)
        cl == LengthsFor({r[1] : r \in Range(runs)}, 7)
        order == Trimmed([i \in 1..7 |-> cl[CodeLengthOrder[i] + 1]], MinCl)
        extra(r) == IF r[1] < RepeatPrev THEN << >> ELSE Bits(r[2], RepeatBits[r[1] - RepeatPrev + 1])
    IN Bits(Len(sentLit) - MinLit, 2) \o Bits(Len(sentDist) - 1, 2) \o Bits(Len(order) - MinCl, 2)
       \o FoldLeft(LAMBDA acc, n : acc \o Bits(n, 2), << >>, order)
       \o FoldLeft(LAMBDA acc, r : acc \o CodeOf(cl, r[1]) \o extra(r), << >>, runs)

DynamicBlock(toks) ==
    LET lit == LengthsFor(SymbolsUsed(toks), EOB + 3)
        dist == LengthsFor(DistancesUsed(toks), 3)
    IN CodedLengths(lit, dist) \o EmitSymbols(toks, lit, dist)

(* Bits go out by whole bytes; up to a byte's worth stays behind.          *)
Write(d, bits) ==
    [d EXCEPT !.buf = @ \o WholeBytes(d.acc \o bits), !.acc = LeftOver(d.acc \o bits)]

StoredHeader(d, final, n) ==
    Write([d EXCEPT !.acc = << >>],
          Aligned(d.acc \o <<final, 0, 0>>) \o Bits(n, LenBits) \o Bits(2^LenBits - 1 - n, LenBits))

Align(d) == Write([d EXCEPT !.acc = << >>], Aligned(d.acc))

(* maybe_slide: history past the window's size goes.                       *)
Slid(d) ==
    LET drop == IF d.cursor > WinCap THEN d.cursor - WinCap ELSE 0 IN
    [d EXCEPT !.window = SubSeq(@, drop + 1, Len(@)), !.cursor = @ - drop,
              !.floor = IF @ > drop THEN @ - drop ELSE 0]

(* emit_stored_range: level 0, in blocks as long as their length can say.  *)
StoredRange(d, end, final) ==
    LET most == 2^LenBits - 1
        n == end - d.cursor
        count == IF n = 0 THEN 1 ELSE (n + most - 1) \div most
        part(k) == SubSeq(d.window, d.cursor + (k - 1) * most + 1, Smaller(d.cursor + k * most, end))
    IN [FoldLeft(LAMBDA w, k : [StoredHeader(w, IF k = count THEN final ELSE 0, Len(part(k)))
                                    EXCEPT !.buf = @ \o part(k)],
                 d, [k \in 1..count |-> k]) EXCEPT !.cursor = end]

(* The blocks window[cursor..end] can become; a stored block has the bytes *)
(* its symbols stand for.                                                  *)
BlocksFor(d, end, last) ==
    LET final == IF last THEN 1 ELSE 0
        close(w) == Slid(IF last THEN Align(w) ELSE w)
        parse == Parse(d, end)
        past == [d EXCEPT !.cursor = parse.at]
        bytes == SubSeq(d.window, d.cursor + 1, parse.at)
        fixed == close(Write(past, <<final, 1, 0>> \o FixedBlock(parse.toks)))
        dynamic == close(Write(past, <<final, 0, 1>> \o DynamicBlock(parse.toks)))
        stored == Slid([StoredHeader(past, final, Len(bytes)) EXCEPT !.buf = @ \o bytes])
    IN CASE d.strategy = "stored" -> {Slid(StoredRange(d, end, final))}
         [] d.strategy = "fixed" -> {fixed}
         [] OTHER -> {fixed, dynamic} \cup (IF Len(bytes) < 2^LenBits THEN {stored} ELSE {})

-----------------------------------------------------------------------------
(* set_params, between two calls.                                          *)
SetParams(strategy) ==
    /\ ~calling /\ phase = "encode"
    /\ state' = [state EXCEPT !.def.strategy = strategy, !.asked = @ + 1]
    /\ UNCHANGED <<format, plain, given, phase, src, pos, avail, room, out, calling>>

(* What raw_encode, raw_finish and raw_flush share: the buffer goes out    *)
(* first, and the call goes on if all of it fits.                          *)
DrainBuf(drained) ==
    /\ E.st = "Emitting"
    /\ LET n == Smaller(Len(E.buf), room) IN
       IF n = Len(E.buf)
       THEN Turn([state EXCEPT !.def = drained], 0, E.buf)
       ELSE Return([state EXCEPT !.def.buf = SubSeq(@, n + 1, Len(@))], SubSeq(E.buf, 1, n))

Emptied == [E EXCEPT !.st = "Accepting", !.buf = << >>]

(* The checksum of a container runs over what is taken.                    *)
Sum(c, bytes) == FoldLeft(LAMBDA a, b : (5 * a + b + 3) % 16, c, bytes)

Taking(n) ==
    [state EXCEPT !.sum = Sum(@, SubSeq(src, pos + 1, pos + n)), !.count = (@ + n) % 16]

DeflateEncode ==
    \/ DrainBuf(Emptied)
    \/ /\ E.st = "Accepting"
       /\ LET n == Smaller(avail - pos, WindowMax - Len(E.window))
              d == [E EXCEPT !.window = @ \o SubSeq(src, pos + 1, pos + n)]
          IN \/ /\ Len(d.window) - d.cursor >= BlockSize
                /\ \E b \in BlocksFor(d, d.cursor + BlockSize, FALSE) :
                       Turn([Taking(n) EXCEPT !.def = [b EXCEPT !.st = "Emitting"]], n, << >>)
             \/ /\ Len(d.window) - d.cursor < BlockSize
                /\ IF n = 0 THEN Return(state, << >>)
                   ELSE Turn([Taking(n) EXCEPT !.def = d], n, << >>)

(* The blocks left, the last of them marked final; `ended` is what the     *)
(* caller does then.                                                       *)
DeflateFinish(ended) ==
    \/ ~E.final /\ DrainBuf(Emptied)
    \/ E.final /\ E.st = "Emitting" /\ DrainBuf([Emptied EXCEPT !.st = "Done"])
    \/ E.st = "Done" /\ ended
    \/ /\ E.st = "Accepting"
       /\ LET whole == Len(E.window) - E.cursor >= BlockSize
              end == IF whole THEN E.cursor + BlockSize ELSE Len(E.window)
          IN \E b \in BlocksFor(E, end, ~whole) :
                 Turn([state EXCEPT !.def = [b EXCEPT !.st = "Emitting", !.final = ~whole]], 0, << >>)

(* Bug: a full flush is a sync flush.                                      *)
MarkerKeepsHistory(d, kind) ==
    IF kind = "partial" THEN Write(d, <<0, 1, 0>> \o FixedBlock(<< >>)) ELSE StoredHeader(d, 0, 0)

(* Everything taken becomes a block, then comes the marker of the flush.   *)
Marker(d, kind) ==
    CASE kind = "sync" -> StoredHeader(d, 0, 0)
      [] kind = "full" -> [StoredHeader(d, 0, 0) EXCEPT !.floor = d.cursor]
      [] kind = "partial" -> Write(d, <<0, 1, 0>> \o FixedBlock(<< >>))
      [] kind = "block" -> d

(* Bug: output left from encoding counts as the flush's own.               *)
FlushAlreadyDone(kind) ==
    \/ E.st = "Emitting" /\ Len(E.buf) <= room
         /\ FlushDone([state EXCEPT !.def = [Emptied EXCEPT !.midFlush = FALSE]], E.buf)
    \/ Len(E.buf) > room /\ DrainBuf(Emptied)
    \/ /\ E.st = "Accepting"
       /\ \E b \in (IF Len(E.window) > E.cursor THEN BlocksFor(E, Len(E.window), FALSE) ELSE {E}) :
              Turn([state EXCEPT !.def = [Marker(b, kind) EXCEPT !.st = "Emitting"]], 0, << >>)

DeflateFlush(kind) ==
    \/ E.st = "Emitting" /\ Len(E.buf) <= room /\ E.midFlush
         /\ FlushDone([state EXCEPT !.def = [Emptied EXCEPT !.midFlush = FALSE]], E.buf)
    \/ (Len(E.buf) > room \/ ~E.midFlush) /\ DrainBuf(Emptied)
    \/ /\ E.st = "Accepting"
       /\ \E b \in (IF Len(E.window) > E.cursor THEN BlocksFor(E, Len(E.window), FALSE) ELSE {E}) :
              Turn([state EXCEPT !.def = [Marker(b, kind) EXCEPT !.st = "Emitting",
                                                                 !.midFlush = TRUE]], 0, << >>)

-----------------------------------------------------------------------------
(***************************************************************************)
(* DEFLATE's larger sibling (deflate64/): blocks and codes as in Inflate   *)
(* and Deflate, with wider alphabets over twice the window: the last       *)
(* length symbol has a base of its own that begins again at the least      *)
(* length, and every distance symbol is in use.  The decoder hands nothing *)
(* back: bytes it has read ahead stay with it, for drain_trailing_bytes.   *)
(***************************************************************************)

Wide ==
    [lenBase |-> (EOB + 1) :> 2 @@ (EOB + 2) :> 2, lenBits |-> (EOB + 1) :> 0 @@ (EOB + 2) :> 2,
     distBase |-> <<1, 2, 3, 5>>, distBits |-> <<0, 0, 1, 1>>, hdist |-> 3, far |-> 2 * WinCap]

(* WINDOW_MAX, and MAX_MATCH: the last length symbol with all its bits.    *)
Window64Max == 2 * Wide.far
MaxMatch64 == 5

NewDecoder64(dictionary) ==
    [inf |-> NewInflate(LastBytes(dictionary, Wide.far)), dictionary |-> dictionary,
     stop |-> FALSE, fed |-> FALSE]
NewEncoder64(lazy) == [def |-> NewDeflate(<< >>, "lz77"), lazy |-> lazy, asked |-> 0, kind |-> "none"]

-----------------------------------------------------------------------------
(* Each turn reads ahead, at the end of the stream too, and remembers      *)
(* whether there was anything to read.                                     *)
Refill64 ==
    /\ D.stage = "refill"
    /\ Turn([state EXCEPT !.fed = Fed > 0, !.inf.acc = @ \o BitsOf(Take(Fed)),
                          !.inf.stage = IF D.st = "Done" THEN "unfeed" ELSE "step"], Fed, << >>)

(* An empty block ends without counting as progress: unless the turn has   *)
(* read something, the call stops behind it.                               *)
Stored64 ==
    /\ In("Stored")
    /\ LET held == Smaller(D.n, Smaller(Len(D.acc) \div ByteBits, room))
           taken == Smaller(D.n - held, Smaller(avail - pos, room - held))
           put == WholeBytes(SubSeq(D.acc, 1, held * ByteBits)) \o Take(taken)
           d == [Drop(D, held * ByteBits) EXCEPT !.n = @ - held - taken, !.fresh = @ \o put]
       IN \/ d.n > 0 /\ put = << >> /\ Starved
          \/ put # << >>
               /\ Turn([state EXCEPT !.inf = Moved(IF d.n = 0 THEN AfterBlock(d) ELSE d)], taken, put)
          \/ d.n = 0 /\ put = << >>
               /\ Become([AfterBlock(d) EXCEPT !.stage = IF state.fed THEN "refill" ELSE "unfeed"])

(* The framing is DEFLATE's, with room for one distance code more.         *)
DynamicHeader64 ==
    /\ In("DynamicHeader")
    /\ \/ ~Have(6) /\ Starved
       \/ Have(6) /\ Peek(2) > 2 /\ Fail
       \/ /\ Have(6) /\ Peek(2) <= 2
          /\ Become(Moved([Drop(D, 6) EXCEPT
                 !.st = "CodeLengthLengths", !.lens = << >>,
                 !.n = MinLit + Peek(2), !.m = (Peek(4) \div 4) + 1, !.k = MinCl + (Peek(6) \div 16)]))

Header64 == BlockHeader \/ StoredAlign \/ StoredLength
Codes64 == CodeLengthLengths \/ CodeLengthsData

-----------------------------------------------------------------------------
NextSymbol64 ==
    /\ In("NextSymbol")
    /\ \/ NoSymbolYet(D.lit)
       \/ /\ Found(D.lit, D.acc)
          /\ LET s == Symbol(D.lit)
                 d == Without(D.lit)
             IN \/ IsLiteral(s) /\ ~NoRoom /\ Put(d, <<s>>)
                \/ IsLiteral(s) /\ NoRoom
                     /\ Become(Moved([d EXCEPT !.st = "PendingLiteral", !.k = s]))
                \/ s = EOB /\ Become(Moved(AfterBlock(d)))
                \/ s \in DOMAIN Wide.lenBase /\ Become([d EXCEPT !.st = "LengthExtra", !.k = s])
                \/ s > EOB /\ s \notin DOMAIN Wide.lenBase /\ Fail

(* Extra bits of a length or of a distance.                                *)
LengthExtra64 ==
    /\ In("LengthExtra")
    /\ LET n == Wide.lenBits[D.k] IN
       \/ ~Have(n) /\ Starved
       \/ Have(n) /\ Become([Drop(D, n) EXCEPT !.st = "DistanceSymbol", !.n = Wide.lenBase[D.k] + Peek(n)])

DistanceSymbol64 ==
    /\ In("DistanceSymbol")
    /\ \/ NoSymbolYet(D.dist)
       \/ Found(D.dist, D.acc)
            /\ Become([Without(D.dist) EXCEPT !.st = "DistanceExtra", !.k = Symbol(D.dist) + 1])

DistanceExtra64 ==
    /\ In("DistanceExtra")
    /\ LET n == Wide.distBits[D.k]
           distance == Wide.distBase[D.k] + Peek(n)
       IN \/ ~Have(n) /\ Starved
          \/ Have(n) /\ distance > Smaller(Len(History), Wide.far) /\ Fail
          \/ Have(n) /\ distance <= Smaller(Len(History), Wide.far)
               /\ Become([Drop(D, n) EXCEPT !.st = "EmittingMatch", !.m = distance])

EmittingMatch64 ==
    /\ In("EmittingMatch")
    /\ LET n == Smaller(D.n, room)
           start == Len(History) - D.m
           put == [i \in 1..n |-> History[start + ((i - 1) % D.m) + 1]]
       IN IF n = D.n THEN Put([D EXCEPT !.st = "NextSymbol"], put)
          ELSE IF n > 0 THEN Put(Moved([D EXCEPT !.n = @ - n]), put)
          ELSE Starved

(* The literal found without room, kept as a match of an impossible        *)
(* distance.                                                               *)
PendingLiteral64 ==
    /\ In("PendingLiteral")
    /\ \/ NoRoom /\ Starved
       \/ ~NoRoom /\ Put([D EXCEPT !.st = "NextSymbol"], <<D.k>>)

(* raw_decode returns; raw_finish, which is raw_decode without input, ends *)
(* with an error when nothing came of it.                                  *)
Returns64 ==
    /\ D.stage = "unfeed"
    /\ LET d == [D EXCEPT !.window = LastBytes(History, Wide.far), !.fresh = << >>, !.stage = "enter"]
           s == [state EXCEPT !.inf = d]
       IN \/ D.st = "Done" /\ End(s, << >>)
          \/ D.st # "Done" /\ phase = "decode_finish" /\ D.fresh = << >> /\ Fail
          \/ D.st # "Done" /\ (phase = "decode" \/ D.fresh # << >>) /\ Return(s, << >>)

Decode64 ==
    \/ Enter \/ Refill64 \/ Returns64
    \/ Header64 \/ Stored64 \/ DynamicHeader64 \/ Codes64
    \/ NextSymbol64 \/ LengthExtra64 \/ DistanceSymbol64 \/ DistanceExtra64
    \/ EmittingMatch64 \/ PendingLiteral64

(* drain_trailing_bytes: whole bytes read and not used.                    *)
Trailing64 == WholeBytes(After(D.acc, Len(D.acc) % ByteBits))

-----------------------------------------------------------------------------
(* length_to_code: the last symbol only for what no other can say.         *)
LengthSymbol64(n) == IF n = 2 THEN EOB + 1 ELSE EOB + 2
DistanceSymbolOf64(dist) == CHOOSE c \in 1..4 : Wide.distBase[c] <= dist /\ (c = 4 \/ dist < Wide.distBase[c + 1])

TokenBits64(t, lit, dist) ==
    IF Len(t) = 1 THEN CodeOf(lit, t[1])
    ELSE LET l == LengthSymbol64(t[1])
             c == DistanceSymbolOf64(t[2])
         IN CodeOf(lit, l) \o Bits(t[1] - Wide.lenBase[l], Wide.lenBits[l])
            \o CodeOf(dist, c - 1) \o Bits(t[2] - Wide.distBase[c], Wide.distBits[c])

EmitSymbols64(toks, lit, dist) ==
    FoldLeft(LAMBDA acc, t : acc \o TokenBits64(t, lit, dist), << >>, toks) \o CodeOf(lit, EOB)

FixedBlock64(toks) == EmitSymbols64(toks, FixedLitLengths, FixedDistLengths)

(* build_dynamic: code lengths for what occurs.                            *)
LitLengths64(toks) ==
    LengthsFor({EOB} \cup {IF Len(t) = 1 THEN t[1] ELSE LengthSymbol64(t[1]) : t \in Range(toks)}, EOB + 3)
DistLengths64(toks) ==
    LengthsFor({DistanceSymbolOf64(t[2]) - 1 : t \in {u \in Range(toks) : Len(u) = 2}}, 4)

DynamicBlock64(toks) ==
    CodedLengths(LitLengths64(toks), DistLengths64(toks))
    \o EmitSymbols64(toks, LitLengths64(toks), DistLengths64(toks))

(* emit_stored_block, which has the bytes the symbols stand for.           *)
StoredBlock64(d, final, bytes) == [StoredHeader(d, final, Len(bytes)) EXCEPT !.buf = @ \o bytes]

(* The longest of the matches at p, the nearest of those.                  *)
Matches64(d, p) ==
    {m \in (MinMatch..MaxMatch64) \X (1..Smaller(Wide.far, p - d.floor)) :
        /\ p + m[1] <= Len(d.window)
        /\ \A i \in 1..m[1] : d.window[p + i] = d.window[p + i - m[2]]}

(* lz77_pass: a match found, or, from level 4 on, one byte put off as long *)
(* as the next one is longer; only the last match may run past `end`.             *)
Parse64(d, end) ==
    LET at(p) == IF p + MinMatch > end THEN {} ELSE Matches64(d, p)
        longer(ms, p) == state.lazy /\ p + 1 < end /\ \E m \in at(p + 1) : m[1] > Longest(ms)[1]
        from[p \in 0..Len(d.window)] ==
            IF p >= end THEN [toks |-> << >>, at |-> p]
            ELSE LET ms == at(p)
                     literal == ms = {} \/ longer(ms, p)
                     rest == from[p + (IF literal THEN 1 ELSE Longest(ms)[1])]
                 IN [rest EXCEPT !.toks = <<IF literal THEN <<d.window[p + 1]>> ELSE Longest(ms)>> \o @]
    IN from[d.cursor]

(* maybe_slide                                                             *)
Slid64(d) ==
    LET drop == Larger(d.cursor, Wide.far) - Wide.far IN
    [d EXCEPT !.window = After(@, drop), !.cursor = @ - drop, !.floor = Larger(@, drop) - drop]

(* compress_and_emit_block: the cheapest of three is one of them.          *)
Blocks64(d, end, last) ==
    LET final == IF last THEN 1 ELSE 0
        close(w) == Slid64(IF last THEN Align(w) ELSE w)
        parse == Parse64(d, end)
        past == [d EXCEPT !.cursor = parse.at]
        bytes == SubSeq(d.window, d.cursor + 1, parse.at)
    IN {close(Write(past, <<final, 1, 0>> \o FixedBlock64(parse.toks))),
        close(Write(past, <<final, 0, 1>> \o DynamicBlock64(parse.toks)))}
       \cup (IF Len(bytes) < 2^LenBits
             THEN {Slid64(StoredBlock64(past, final, bytes))} ELSE {})

-----------------------------------------------------------------------------
Encode64 ==
    \/ DrainBuf(Emptied)
    \/ /\ E.st = "Accepting"
       /\ LET n == Smaller(avail - pos, Window64Max - Len(E.window))
              d == [E EXCEPT !.window = @ \o Take(n)]
          IN \/ Len(d.window) - d.cursor >= BlockSize
                  /\ \E b \in Blocks64(d, d.cursor + BlockSize, FALSE) :
                         Turn([state EXCEPT !.def = [b EXCEPT !.st = "Emitting"]], n, << >>)
             \/ Len(d.window) - d.cursor < BlockSize
                  /\ IF n = 0 THEN Return(state, << >>) ELSE Turn([state EXCEPT !.def = d], n, << >>)

Finish64(newDecoder) ==
    \/ ~E.final /\ DrainBuf(Emptied)
    \/ E.final /\ E.st = "Emitting" /\ DrainBuf([Emptied EXCEPT !.st = "Done"])
    \/ E.st = "Done" /\ EncodeDone(state, newDecoder)
    \/ /\ E.st = "Accepting"
       /\ LET whole == Len(E.window) - E.cursor >= BlockSize
              end == IF whole THEN E.cursor + BlockSize ELSE Len(E.window)
          IN \E b \in Blocks64(E, end, ~whole) :
                 Turn([state EXCEPT !.def = [b EXCEPT !.st = "Emitting", !.final = ~whole]], 0, << >>)

(* One marker for every kind of flush; a full one forgets the matches.     *)
Marker64(d, kind) == [StoredHeader(d, 0, 0) EXCEPT !.floor = IF kind = "full" THEN d.cursor ELSE @]

Flush64(kind) ==
    \/ E.st = "Emitting" /\ Len(E.buf) <= room /\ E.midFlush
         /\ FlushDone([state EXCEPT !.def = [Emptied EXCEPT !.midFlush = FALSE]], E.buf)
    \/ (Len(E.buf) > room \/ ~E.midFlush) /\ DrainBuf(Emptied)
    \/ /\ E.st = "Accepting"
       /\ \E b \in (IF Len(E.window) > E.cursor THEN Blocks64(E, Len(E.window), FALSE) ELSE {E}) :
              Turn([state EXCEPT !.def = [Marker64(b, kind) EXCEPT !.st = "Emitting", !.midFlush = TRUE]],
                   0, << >>)

Owes64 ==
    \/ D.st \in {"EmittingMatch", "PendingLiteral"}
    \/ D.st = "NextSymbol" /\ Found(D.lit, D.acc)
=============================================================================
