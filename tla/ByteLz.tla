------------------------------- MODULE ByteLz -------------------------------
(***************************************************************************)
(* The LZ77 codecs whose tokens are whole bytes: Snappy's block, LZF and   *)
(* LZO1X.                                                                  *)
(***************************************************************************)
EXTENDS LzBlocks
-----------------------------------------------------------------------------
(***************************************************************************)
(* Snappy's raw block (snappy/), whole on both sides: the length as a      *)
(* varint, then literals and copies.  The upper part of a tag has 3 bits   *)
(* instead of 6, a byte of the varint 3 instead of 7, and a length 5       *)
(* instead of 32.                                                          *)
(***************************************************************************)

LenMax == 31
VarintMost == 2     \* bytes of a varint: 5
MinCopy == 2        \* shortest copy found: 4
MaxCopy == 8        \* longest copy of a tag: 64
InTag == 4          \* literals up to here have their length in the tag: 60

RECURSIVE WriteVarint(_)
WriteVarint(v) == IF v < 8 THEN <<v>> ELSE <<8 + (v % 8)>> \o WriteVarint(v \div 8)

ReadVarint(s) ==
    LET ends == {i \in 1..Len(s) : s[i] < 8 /\ \A j \in 1..(i - 1) : s[j] >= 8} IN
    IF ends = {} \/ \E i \in ends : i > VarintMost THEN Broken
    ELSE LET n == CHOOSE i \in ends : TRUE
             value == FoldRight(LAMBDA b, v : 8 * v + (b % 8), SubSeq(s, 1, n), 0)
         IN IF value > LenMax THEN Broken ELSE [ok |-> TRUE, n |-> value, ip |-> n]

-----------------------------------------------------------------------------
Tag(kind, upper) == 4 * upper + kind

RECURSIVE LittleEndian(_)
LittleEndian(n) == IF n < 16 THEN <<n>> ELSE <<n % 16>> \o LittleEndian(n \div 16)

EmitLiteral(data) ==
    LET n == Len(data) - 1 IN
    (IF n < InTag THEN <<Tag(0, n)>>
     ELSE <<Tag(0, InTag + Len(LittleEndian(n)) - 1)>> \o LittleEndian(n)) \o data

EmitCopyTag(dist, len) ==
    IF len <= 3 /\ dist < 64 THEN <<Tag(1, (len - MinCopy) + 2 * (dist \div 16)), dist % 16>>
    ELSE IF dist < 256 THEN <<Tag(2, len - 1)>> \o Word(dist)
    ELSE <<Tag(3, len - 1)>> \o Word(dist % 256) \o Word(dist \div 256)

(* A long match in copies of at most MaxCopy, none below MinCopy.          *)
RECURSIVE EmitMatch(_, _)
EmitMatch(dist, len) ==
    LET take == IF len <= MaxCopy THEN len ELSE IF len < MaxCopy + MinCopy THEN len - MinCopy ELSE MaxCopy
    IN EmitCopyTag(dist, take) \o (IF len = take THEN << >> ELSE EmitMatch(dist, len - take))

SnappyParses(data) ==
    IF Len(data) < MinCopy THEN {<< >>}
    ELSE Parses(data, 0, [min |-> MinCopy, max |-> Len(data), far |-> Len(data), greedy |-> TRUE,
                          start |-> Len(data) - MinCopy, end |-> Len(data)])

LiteralIfAny(data) == IF data = << >> THEN << >> ELSE EmitLiteral(data)

CompressBlock(data) ==
    {LET e == FoldLeft(LAMBDA a, m : [anchor |-> m.at + m.len,
                                      out |-> a.out \o LiteralIfAny(SubSeq(data, a.anchor + 1, m.at))
                                              \o EmitMatch(m.dist, m.len)],
                       [anchor |-> 0, out |-> WriteVarint(Len(data))], parse)
     IN e.out \o LiteralIfAny(After(data, e.anchor))
     : parse \in SnappyParses(data)}

-----------------------------------------------------------------------------
(* decompress_block, from ip on; `total` is the declared length.           *)
RECURSIVE Tags(_, _, _, _)

CopyFromBack(s, ip, h, total, dist, len) ==
    IF dist \notin 1..Len(h) \/ Len(h) + len > total THEN Broken
    ELSE Tags(s, ip, CopyOf(h, dist, len), total)

LiteralTag(s, ip, h, total, upper) ==
    LET extra == Larger(upper - (InTag - 1), 0)
        length == IF extra = 0 THEN upper + 1
                  ELSE (FoldRight(LAMBDA b, v : 16 * v + b, SubSeq(s, ip + 1, ip + extra), 0) + 1) % 16^4
    IN IF ip + extra > Len(s) THEN Broken
       ELSE IF ip + extra + length > Len(s) \/ Len(h) + length > total THEN Broken
       ELSE Tags(s, ip + extra + length, h \o SubSeq(s, ip + extra + 1, ip + extra + length), total)

CopyTag(s, ip, h, total, kind, upper) ==
    CASE kind = 1 -> IF ip + 1 > Len(s) THEN Broken
                     ELSE CopyFromBack(s, ip + 1, h, total, 16 * (upper \div 2) + s[ip + 1], (upper % 2) + MinCopy)
      [] kind = 2 -> IF ip + 2 > Len(s) THEN Broken
                     ELSE CopyFromBack(s, ip + 2, h, total, WordAt(s, ip), upper + 1)
      [] kind = 3 -> IF ip + 4 > Len(s) THEN Broken
                     ELSE CopyFromBack(s, ip + 4, h, total, WordAt(s, ip) + 256 * WordAt(s, ip + 2), upper + 1)

Tags(s, ip, h, total) ==
    IF ip >= Len(s) THEN IF Len(h) = total THEN [ok |-> TRUE, out |-> h] ELSE Broken
    ELSE IF s[ip + 1] % 4 = 0 THEN LiteralTag(s, ip + 1, h, total, s[ip + 1] \div 4)
    ELSE CopyTag(s, ip + 1, h, total, s[ip + 1] % 4, s[ip + 1] \div 4)

(* What a header may claim of so many bytes.                               *)
MaxPlausible(s) == Larger(4 * Len(s), 16)

DecompressBlock(s) ==
    LET v == ReadVarint(s) IN
    IF ~v.ok THEN Broken
    ELSE IF v.n > MaxPlausible(s) THEN Broken
    ELSE Tags(s, v.ip, << >>, v.n)

-----------------------------------------------------------------------------
NewSnappyEncoder == [raw |-> << >>, pending |-> << >>, finished |-> FALSE]
NewSnappyDecoder == NewSnappyEncoder

Compressed(s) == {[s EXCEPT !.raw = << >>, !.pending = b] : b \in CompressBlock(s.raw)}

(* An input longer than a length can say is refused.                       *)
SnappyEncode == IF Len(state.raw) + (avail - pos) > LenMax THEN Fail ELSE Collect

SnappyEncodeFinish(newDecoder) == CollectedFinish(Compressed, newDecoder)
SnappyDecode == Collect
SnappyDecodeFinish == CollectedDecodeFinish(DecompressBlock)
-----------------------------------------------------------------------------
(***************************************************************************)
(* LZF (lzf/): an encoder that holds back the longest match, so that the   *)
(* end of a chunk never cuts one, flushes, and a decoder that takes a      *)
(* token in pieces.  A control byte has 2 bits of length and 2 of offset,  *)
(* the low part of an offset has 1 bit.                                    *)
(***************************************************************************)

CONSTANTS
    InputChunk,   \* CHUNK: input taken into the window at once
    Slack         \* SLIDE: how much more than a window is kept

ASSUME LzfAssumption == InputChunk \in Nat \ {0} /\ Slack \in Nat

LzfWindow == 8       \* WINDOW
MaxLiteral == 4      \* MAX_LITERAL
MaxMatch == 7        \* MAX_MATCH
LzfMinMatch == 3     \* MIN_MATCH
LongField == 3       \* 7

LzfLiteral(data) == <<Len(data) - 1>> \o data
LzfMatch(dist, len) ==
    LET hi == (dist - 1) \div 2
        lo == (dist - 1) % 2
    IN IF len - 2 < LongField THEN <<4 * (len - 2) + hi, lo>>
       ELSE <<4 * LongField + hi, len - 2 - LongField, lo>>

(* Runs of MaxLiteral, and what is left of them.                           *)
RECURSIVE FullRuns(_)
FullRuns(data) ==
    IF Len(data) < MaxLiteral THEN << >>
    ELSE LzfLiteral(SubSeq(data, 1, MaxLiteral)) \o FullRuns(After(data, MaxLiteral))
ShortRest(data) == LastBytes(data, Len(data) % MaxLiteral)
RunsOf(data) ==
    FullRuns(data) \o (IF ShortRest(data) = << >> THEN << >> ELSE LzfLiteral(ShortRest(data)))

-----------------------------------------------------------------------------
(* `win` is the window and what is not encoded yet, `at` the next byte to  *)
(* encode, `lit` where the pending literals begin; the table has forgotten *)
(* what is before `floor`.                                                 *)
NewLzfEncoder ==
    [win |-> << >>, at |-> 0, lit |-> 0, floor |-> 0, pending |-> << >>, finished |-> FALSE,
     kind |-> "sync", asked |-> 0]

Slide(s) ==
    LET drop == Smaller(s.at - LzfWindow, s.lit) IN
    IF s.at <= LzfWindow + Slack THEN s
    ELSE [s EXCEPT !.win = After(@, drop), !.at = @ - drop, !.lit = @ - drop, !.floor = Larger(@ - drop, 0)]

Found(s, limit) ==
    {p \in Parses(s.win, s.at, [min |-> LzfMinMatch, max |-> MaxMatch, far |-> LzfWindow, greedy |-> TRUE,
                                start |-> limit, end |-> Len(s.win)])
       : \A i \in DOMAIN p : p[i].at - p[i].dist >= s.floor}

(* compress: up to the limit, or a match beyond it.                        *)
CompressTo(s, limit) ==
    {LET e == FoldLeft(LAMBDA a, m : [a EXCEPT !.at = m.at + m.len, !.lit = m.at + m.len,
                                               !.pending = @ \o RunsOf(SubSeq(s.win, a.lit + 1, m.at))
                                                           \o LzfMatch(m.dist, m.len)],
                       s, parse)
         at == Larger(limit, e.at)
         runs == SubSeq(s.win, e.lit + 1, at)
     IN [e EXCEPT !.at = at, !.lit = at - Len(ShortRest(runs)), !.pending = @ \o FullRuns(runs)]
     : parse \in Found(s, limit)}

Compress(s) == CompressTo(s, Larger(Len(s.win) - MaxMatch, 0))

(* Bug: the last literals stay behind.                                     *)
CompressNotAll(s) == CompressTo(s, Len(s.win))

(* compress_all: and the literals that are pending.                        *)
CompressAll(s) ==
    {[e EXCEPT !.lit = e.at,
               !.pending = @ \o (IF e.lit < e.at THEN LzfLiteral(SubSeq(e.win, e.lit + 1, e.at)) ELSE << >>)]
     : e \in CompressTo(s, Len(s.win))}

LzfEncode ==
    \/ DrainPending
    \/ state.pending # << >> /\ NoRoom /\ Return(state, << >>)
    \/ state.pending = << >> /\ NoInput /\ Return(state, << >>)
    \/ /\ state.pending = << >> /\ ~NoInput
       /\ LET n == Smaller(avail - pos, InputChunk)
              s == Slide(state)
          IN \E e \in Compress([s EXCEPT !.win = @ \o Take(n)]) : Turn(e, n, << >>)

(* Bug: matches go on reaching back over a full flush.                     *)
FlushedNotCleared(s) == s

Flushed(s) == IF s.kind = "full" THEN [s EXCEPT !.floor = s.at] ELSE s

(* Output of earlier calls goes first; the table is cleared whenever the   *)
(* call returns.                                                           *)
LzfFlush ==
    \/ DrainPending
    \/ state.pending # << >> /\ NoRoom /\ Return(Flushed(state), << >>)
    \/ state.pending = << >> /\ state.at < Len(state.win) /\ \E e \in CompressAll(state) : Turn(e, 0, << >>)
    \/ state.pending = << >> /\ state.at = Len(state.win) /\ FlushDone(Flushed(state), << >>)

LzfEncodeFinish(newDecoder) ==
    \/ ~state.finished /\ \E e \in CompressAll(state) : Turn([e EXCEPT !.finished = TRUE], 0, << >>)
    \/ state.finished /\ HandOut(EncodeDone(state, newDecoder))

-----------------------------------------------------------------------------
(* `hdr` is the token so far; `lit` and `mlen` what is left to copy.       *)
NewLzfDecoder == [hist |-> << >>, hdr |-> << >>, lit |-> 0, mlen |-> 0, mdist |-> 0]

Push(s, bytes) == [s EXCEPT !.hist = LastBytes(@ \o bytes, LzfWindow)]

CopyMatch ==
    /\ state.mlen > 0 /\ ~NoRoom
    /\ LET n == Smaller(state.mlen, room)
           bytes == LastBytes(CopyOf(state.hist, state.mdist, n), n)
       IN Turn([Push(state, bytes) EXCEPT !.mlen = @ - n], 0, bytes)

CopyLiterals ==
    /\ state.mlen = 0 /\ state.lit > 0 /\ ~NoRoom /\ ~NoInput
    /\ LET n == Smaller(state.lit, Smaller(avail - pos, room)) IN
       Turn([Push(state, Take(n)) EXCEPT !.lit = @ - n], n, Take(n))

(* One byte of a token, and what a whole one asks for.                     *)
Need(hdr) == IF hdr[1] \div 4 = LongField THEN 3 ELSE 2

ReadToken ==
    /\ state.mlen = 0 /\ state.lit = 0 /\ ~NoInput
    /\ LET hdr == Append(state.hdr, NextByte)
           ctrl == hdr[1]
           s == [state EXCEPT !.hdr = << >>]
           len == IF Need(hdr) = 3 THEN LongField + hdr[2] ELSE ctrl \div 4
           dist == 2 * (ctrl % 4) + hdr[Len(hdr)] + 1
       IN IF ctrl < MaxLiteral THEN Turn([s EXCEPT !.lit = ctrl + 1], 1, << >>)
          ELSE IF Len(hdr) < Need(hdr) THEN Turn([state EXCEPT !.hdr = hdr], 1, << >>)
          ELSE IF dist > Len(state.hist) THEN Fail
          ELSE Turn([s EXCEPT !.mlen = len + 2, !.mdist = dist], 1, << >>)

(* Bug: the end of the input ends a call, whatever is still to copy.       *)
LzfDecodeLeavesMatch ==
    \/ CopyMatch /\ ~NoInput
    \/ CopyLiterals \/ ReadToken
    \/ (NoInput \/ NoRoom) /\ Return(state, << >>)

LzfDecode ==
    \/ CopyMatch \/ CopyLiterals \/ ReadToken
    \/ state.mlen > 0 /\ NoRoom /\ Return(state, << >>)
    \/ state.mlen = 0 /\ state.lit > 0 /\ (NoRoom \/ NoInput) /\ Return(state, << >>)
    \/ state.mlen = 0 /\ state.lit = 0 /\ NoInput /\ Return(state, << >>)

LzfDecodeFinish ==
    \/ CopyMatch
    \/ state.mlen > 0 /\ NoRoom /\ Return(state, << >>)
    \/ state.mlen = 0 /\ (state.lit > 0 \/ state.hdr # << >>) /\ Fail
    \/ state.mlen = 0 /\ state.lit = 0 /\ state.hdr = << >> /\ DecodeDone
-----------------------------------------------------------------------------
(***************************************************************************)
(* LZO1X (lzo/) in the container of LzBlocks.  A token has 5 bits here:    *)
(* below 4 a literal run or a short match, by what came before it, then    *)
(* the far matches (M4), the near ones (M3) and the short near ones (M2).  *)
(* One bit instead of two says how many literals follow a match, and the   *)
(* offset word is one byte.                                                *)
(***************************************************************************)

CONSTANT LzoBlockSize   \* BLOCK_SIZE

MinFound == 3       \* what the hash finds: 4
Inline == 1         \* literals that ride on a match: 3
ShortRun == 3       \* the longest run in a token: 15
FirstBias == 5      \* 17
FirstMost == 26     \* 238
M2MaxDistance == 4
M3MaxDistance == 8
M4MaxDistance == 23
M2MaxLength == 6    \* 8
M3MaxLength == 9    \* 33
M4MaxLength == 3    \* 9

LzoCompressBound(n) == n + (n \div 4) + 8

-----------------------------------------------------------------------------
InitialLiterals(lits) ==
    IF lits = << >> THEN << >>
    ELSE IF Len(lits) <= FirstMost THEN <<Len(lits) + FirstBias>> \o lits
    ELSE <<0>> \o ContinuedByZeros(Len(lits) - ShortRun - Inline) \o lits

LongRun(lits) ==
    (IF Len(lits) <= ShortRun + Inline THEN <<Len(lits) - Inline>>
     ELSE <<0>> \o ContinuedByZeros(Len(lits) - ShortRun - Inline)) \o lits

(* The copy, with no literals riding on it yet.                            *)
EmitCopy(dist, len) ==
    IF len <= M2MaxLength /\ dist <= M2MaxDistance
    THEN <<(IF len <= 4 THEN 16 + 4 * (len - 3) ELSE 24 + 4 * (len - 5)) + 2 * ((dist - 1) % 2),
           (dist - 1) \div 2>>
    ELSE IF dist <= M3MaxDistance
    THEN (IF len <= M3MaxLength THEN <<8 + len - 2>> ELSE <<8>> \o ContinuedByZeros(len - M3MaxLength))
         \o <<2 * (dist - 1)>>
    ELSE LET d == dist - M3MaxDistance
             token == 4 + 2 * (d \div 8)
         IN (IF len <= M4MaxLength THEN <<token + len - 2>>
             ELSE <<token>> \o ContinuedByZeros(len - M4MaxLength)) \o <<2 * (d % 8)>>

(* The count of literals is patched into the token of M2, or the offset of *)
(* the others, which ends the output.                                      *)
PatchInline(h, tok) ==
    IF h[tok] >= 16 THEN [h EXCEPT ![tok] = @ + Inline] ELSE [h EXCEPT ![Len(h)] = @ + Inline]

(* Literals before the next match, or at the end; tok is the last token.   *)
WithLiterals(h, tok, lits) ==
    CASE tok = 0 -> h \o InitialLiterals(lits)
      [] tok # 0 /\ lits = << >> -> h
      [] tok # 0 /\ Len(lits) \in 1..Inline -> PatchInline(h, tok) \o lits
      [] tok # 0 /\ Len(lits) > Inline -> h \o LongRun(lits)

Eos == <<5, 0>>

LzoParses(data) ==
    IF Len(data) < 6 THEN {<< >>}
    ELSE Parses(data, 0, [min |-> MinFound, max |-> Len(data), far |-> M4MaxDistance, greedy |-> TRUE,
                          start |-> Len(data) - MinFound, end |-> Len(data)])

LzoEncodeBlock(data) ==
    {LET e == FoldLeft(LAMBDA a, m :
                 LET h == WithLiterals(a.out, a.tok, SubSeq(data, a.anchor + 1, m.at)) IN
                 [anchor |-> m.at + m.len, tok |-> Len(h) + 1, out |-> h \o EmitCopy(m.dist, m.len)],
                 [anchor |-> 0, tok |-> 0, out |-> << >>], parse)
     IN WithLiterals(e.out, e.tok, After(data, e.anchor)) \o Eos
     : parse \in LzoParses(data)}

-----------------------------------------------------------------------------
(* decode_block.  `st` is what the last token left: literals that rode on  *)
(* it, 2 for a run of its own.                                             *)
RECURSIVE Tokens(_, _, _, _, _)

Literals(s, ip, h, n, most, st) ==
    IF ip + n > Len(s) \/ Len(h) + n > most THEN Broken
    ELSE Tokens(s, ip + n, h \o SubSeq(s, ip + 1, ip + n), most, st)

CopyThen(s, ip, h, dist, n, most, inline) ==
    IF dist \notin 1..Len(h) \/ Len(h) + n > most THEN Broken
    ELSE Literals(s, ip, CopyOf(h, dist, n), inline, most, inline)

(* A field of a length, 0 if it goes on.                                   *)
FieldAt(s, ip, field, base) ==
    IF field # 0 THEN [ok |-> TRUE, n |-> field, ip |-> ip]
    ELSE LET more == LengthAt(s, ip, 0) IN IF more.ok THEN [more EXCEPT !.n = @ + base] ELSE Broken

Run(s, h, length, most) ==
    IF ~length.ok THEN Broken ELSE Literals(s, length.ip, h, length.n + Inline, most, 2)

(* A match whose offset byte is at ip.                                     *)
NearToken(s, ip, t, h, most, base, n) ==
    IF ip >= Len(s) THEN Broken
    ELSE CopyThen(s, ip + 1, h, 2 * s[ip + 1] + ((t \div 2) % 2) + base, n, most, t % 2)

FarToken(s, length, h, most, base, n, ends) ==
    IF ~length.ok THEN Broken
    ELSE IF length.ip >= Len(s) THEN Broken
    ELSE IF ends /\ base = M3MaxDistance /\ s[length.ip + 1] \div 2 = 0 THEN [ok |-> TRUE, out |-> h]
    ELSE CopyThen(s, length.ip + 1, h, base + (s[length.ip + 1] \div 2), length.n + 2, most, s[length.ip + 1] % 2)

TokenAt(s, ip, t, h, most, st) ==
    CASE t < 4 /\ st = 0 -> Run(s, h, FieldAt(s, ip, t, ShortRun), most)
      [] t < 4 /\ st \in 1..Inline -> NearToken(s, ip, t, h, most, 1, 2)
      [] t < 4 /\ st > Inline -> NearToken(s, ip, t, h, most, M2MaxDistance + 1, 3)
      [] t \in 4..7 -> FarToken(s, FieldAt(s, ip, t % 2, 1), h, most,
                                M3MaxDistance + 8 * ((t \div 2) % 2), 2, TRUE)
      [] t \in 8..15 -> FarToken(s, FieldAt(s, ip, t % 8, 7), h, most, 1, 2, FALSE)
      [] t \in 16..23 -> NearToken(s, ip, t, h, most, 1, 3 + ((t \div 4) % 2))
      [] t \in 24..31 -> NearToken(s, ip, t, h, most, 1, 5 + ((t \div 4) % 2))

Tokens(s, ip, h, most, st) ==
    IF ip >= Len(s) THEN Broken ELSE TokenAt(s, ip + 1, s[ip + 1], h, most, st)

(* The first byte may be a version or a run of literals.                   *)
LzoDecodeBlock(s, most) ==
    IF s = << >> THEN Broken
    ELSE IF s[1] = FirstBias /\ Len(s) >= 4 THEN Tokens(s, 2, << >>, most, 0)
    ELSE IF s[1] = FirstBias - 1 THEN Broken
    ELSE IF s[1] > FirstBias
    THEN Literals(s, 1, << >>, s[1] - FirstBias, most, Smaller(s[1] - FirstBias, Inline + 1))
    ELSE Tokens(s, 0, << >>, most, 0)

-----------------------------------------------------------------------------
NewLzoEncoder == [raw |-> << >>, pending |-> << >>, finished |-> FALSE]

LzoBuildBlock(s) == {WithBlock(s, b) : b \in LzoEncodeBlock(s.raw)}

LzoEncode == BlockEncode(LzoBlockSize, LzoBuildBlock)
LzoEncodeFinish(newDecoder) == BlockFinish(LzoBuildBlock, Terminator, newDecoder)

LzoMaxBlock == 2 * (LzoCompressBound(LzoBlockSize) + 1)

LzoDecode ==
    \/ FillItem \/ ReadLength(LzoMaxBlock)
    \/ ReadBlock(LzoDecodeBlock(state.got, 2 * LzoBlockSize))
    \/ BlocksEnd

LzoDecodeFinish == ItemsFinish(BetweenBlocks)
=============================================================================
