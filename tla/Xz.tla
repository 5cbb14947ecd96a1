--------------------------------- MODULE Xz ---------------------------------
(***************************************************************************)
(* The .xz container (xz/mod.rs) and raw LZMA2 (lzma2/mod.rs), which is    *)
(* its block payload alone: stream header, blocks, an index of their       *)
(* sizes, a footer; streams may follow one another, with padding between.  *)
(* Fields are cut down: an alignment of 2, a checksum of two bytes, a      *)
(* magic of two bytes (one in the footer), varints of base 8 in at most    *)
(* two bytes.  Block headers with sizes or with filters before LZMA2 are   *)
(* left out.                                                               *)
(***************************************************************************)
EXTENDS CodecCall

CONSTANTS
    Dict,        \* dictionary size of the encoder
    ChunkMax,    \* CHUNK_UNCOMP_MAX: bytes gathered for a chunk
    CompCap,     \* CHUNK_COMP_CAP: a compressed body ends when it gets there
    Slice,       \* LZMA2_CHUNK_MAX: bytes an encoder takes at a time
    InRequired   \* IN_REQUIRED: bytes a packet may read

ASSUME Lzma2Assumption ==
    /\ Dict \in Nat /\ Slice \in Nat \ {0} /\ ChunkMax \in Nat \ {0}
    /\ CompCap \in Nat \ {0, 1} /\ InRequired \in Nat \ {0, 1}

-----------------------------------------------------------------------------
(***************************************************************************)
(* LZMA2 (lzma2_internal/, lzma2/mod.rs): data in chunks, raw or           *)
(* compressed, over one dictionary and one adaptive model that the control *)
(* byte of a chunk resets, or not.  The range coder is abstracted to one   *)
(* byte for a literal and two for a match <<length, distance - 1>>; the    *)
(* model to what a literal's code depends on: packets and bytes since      *)
(* their resets, and the properties.  Repeated distances are left out.     *)
(***************************************************************************)

Literals == 0..2
MatchLengths == 3..5
Props == 1          \* LZMA2_PROPS_BYTE
MaxProps == 2

(* CRC32, as an amount.                                                    *)
Summed(c, bytes) == FoldLeft(LAMBDA a, b : (2 * a + b + 1) % 13, c, bytes)

(* The model: `m` packets since the state was reset, `p` bytes since the   *)
(* dictionary was, `q` the properties.                                     *)
Shift(core) == (core.m + core.p + core.q) % 3
Lzma2Moved(core, n) == [core EXCEPT !.m = (@ + 1) % 3, !.p = (@ + n) % 3]

-----------------------------------------------------------------------------
(* The encoder of chunks: `ahead` is what is gathered, `win` the bytes     *)
(* whose positions the hash chains hold.  A reset of the dictionary leaves *)
(* the chains as they are, and moves the base that matches may not cross   *)
(* (`win_base`): the first `base` bytes of win are no history any more.    *)
NewChunks == [on |-> FALSE, win |-> << >>, base |-> 0, ahead |-> << >>, m |-> 0, p |-> 0, q |-> Props,
              first |-> TRUE, reset |-> TRUE]

Agreeing(data, from, end, far) ==
    {c \in MatchLengths \X (1..far) :
        /\ from + c[1] <= end
        /\ \A i \in 1..c[1] : data[from + i] = data[from + i - c[2]]}

(* Bug: the walk of a chain is bounded by the dictionary's size alone.     *)
IntoStale(data, base, from, end) == Agreeing(data, from, end, Smaller(Dict, from))

(* The matches a chain's walk comes to before it stops: at a position too  *)
(* far for the dictionary or before the base (`max_dist`).                 *)
Lzma2Matches(data, base, from, end) == Agreeing(data, from, end, Smaller(Dict, from - base))

(* The longest, the nearest of those.                                      *)
Lzma2Longest(cs) == CHOOSE c \in cs : \A o \in cs : o[1] < c[1] \/ (o[1] = c[1] /\ c[2] <= o[2])

(* One packet at r.at of `data`, the parse going no further than `end`.    *)
Packet(r, data, base, end) ==
    LET cs == Lzma2Matches(data, base, r.at, end) IN
    IF r.at >= end \/ Len(r.body) >= CompCap THEN r
    ELSE IF cs = {} THEN [Lzma2Moved(r, 1) EXCEPT !.at = @ + 1, !.body = Append(@, (data[r.at + 1] + Shift(r)) % 3)]
    ELSE LET c == Lzma2Longest(cs) IN
         [Lzma2Moved(r, c[1]) EXCEPT !.at = @ + c[1], !.body = @ \o <<c[1], c[2] - 1>>]

EncodeBody(e, n) ==
    LET data == e.win \o e.ahead
        start == [at |-> Len(e.win), body |-> <<0>>, p |-> e.p, q |-> e.q,
                  m |-> IF e.first \/ e.reset THEN 0 ELSE e.m]
    IN FoldLeft(LAMBDA r, i : Packet(r, data, e.base, Len(e.win) + n), start, [i \in 1..n |-> i])

(* The chains go no further back than the dictionary.                      *)
Lzma2Passed(e, n) ==
    LET win == e.win \o SubSeq(e.ahead, 1, n)
        kept == Smaller(Len(win), Dict)
    IN [e EXCEPT !.win = LastBytes(win, Dict), !.ahead = After(@, n),
                 !.base = @ - Smaller(@, Len(win) - kept)]

(* Bug: the model goes on after a raw chunk.                               *)
ModelKept(e, r, n, compressed) ==
    [Lzma2Passed(e, n) EXCEPT !.m = r.m, !.p = r.p, !.first = FALSE, !.reset = FALSE]

(* The chunk is behind; a raw one has left the two models apart.           *)
Behind(e, r, n, compressed) ==
    [Lzma2Passed(e, n) EXCEPT !.m = r.m, !.p = r.p, !.first = FALSE, !.reset = ~compressed]

(* Control byte: 1 and 2 raw, from 4 on compressed, bit 1 with properties. *)
RawChunk(reset, data) == <<IF reset THEN 1 ELSE 2, Len(data) - 1>> \o data
CompChunk(control, n, props, body) ==
    <<control, n - 1, Len(body) - 1>> \o (IF control >= 6 THEN <<props>> ELSE << >>) \o body

ControlFor(e) == IF e.first THEN 7 ELSE IF e.reset THEN 6 ELSE 4

Lzma2Chunk(e, r, n, compressed) ==
    IF compressed THEN CompChunk(ControlFor(e), n, e.q, r.body) ELSE RawChunk(e.first, SubSeq(e.ahead, 1, n))

(* Stage one chunk of at most `most` bytes: pending, check and counts.     *)
StageOne(s, r, most) ==
    LET n == r.at - Len(s.enc.win)
        compressed == Len(r.body) < n
        chunk == Lzma2Chunk(s.enc, r, n, compressed)
    IN [s EXCEPT !.enc = Behind(s.enc, r, n, compressed), !.pending = @ \o chunk,
                 !.sum = Summed(@, SubSeq(s.enc.ahead, 1, n)),
                 !.total = @ + n, !.payload = @ + Len(chunk)]

EncodeOne(s, most) == StageOne(s, EncodeBody(s.enc, most), most)

(* Stage what there is, while at least `least` bytes are gathered.         *)
StageAll(s, least) ==
    FoldLeft(LAMBDA a, i : IF Len(a.enc.ahead) >= least
                           THEN EncodeOne(a, Smaller(ChunkMax, Len(a.enc.ahead))) ELSE a,
             s, s.enc.ahead)

(* push: gather, and stage the chunks that are full.                       *)
Push(s, bytes) == StageAll([s EXCEPT !.enc.on = TRUE, !.enc.ahead = @ \o bytes], ChunkMax)

(* flush and finish of the chunk encoder.                                  *)
Everything(s) == StageAll(s, 1)

(* Nothing is taken out of the chains.                                     *)
ResetDict(e) == [e EXCEPT !.base = Len(e.win), !.p = 0, !.first = TRUE, !.reset = TRUE]

-----------------------------------------------------------------------------
(* The decoder's model, absent until a chunk makes it.                     *)
NoCore == [on |-> FALSE, win |-> << >>, m |-> 0, p |-> 0, q |-> Props]
FreshCore(q) == [NoCore EXCEPT !.on = TRUE, !.q = q]

(* A raw chunk's bytes go into the dictionary.                             *)
Lzma2Fed(core, bytes, dict) ==
    [core EXCEPT !.on = TRUE, !.win = LastBytes(@ \o bytes, dict), !.p = (@ + Len(bytes)) % 3]

Copied(win, n, dist) == FoldLeft(LAMBDA w, i : Append(w, w[Len(w) - dist]), win, [i \in 1..n |-> i])

(* One packet of the body u.body, of which u.read bytes are read; nothing  *)
(* is read with fewer than `margin` bytes left.                            *)
DecodePacket(u, n, margin, dict) ==
    LET left == Len(u.body) - u.read
        b == u.body[u.read + 1]
        dist == u.body[u.read + 2]
        copy == Copied(u.core.win, b, dist)
        value == (b + 2 * Shift(u.core)) % 3
    IN IF u.error # "" \/ Len(u.fresh) = n \/ left < margin THEN u
       ELSE IF left = 0 \/ (b \notin Literals /\ left = 1) THEN [u EXCEPT !.error = "end"]
       ELSE IF b \in Literals
       THEN [u EXCEPT !.core = [Lzma2Moved(@, 1) EXCEPT !.win = LastBytes(Append(@, value), dict)],
                      !.read = @ + 1, !.fresh = Append(@, value)]
       ELSE IF dist >= Len(u.core.win) \/ Len(u.fresh) + b > n THEN [u EXCEPT !.error = "corrupt"]
       ELSE [u EXCEPT !.core = [Lzma2Moved(@, b) EXCEPT !.win = LastBytes(copy, dict)],
                      !.read = @ + 2, !.fresh = @ \o LastBytes(copy, b)]

(* decode_partial: up to n bytes more.                                     *)
DecodeBody(core, body, read, n, margin, dict) ==
    FoldLeft(LAMBDA u, i : DecodePacket(u, n, margin, dict),
             [core |-> core, body |-> body, read |-> read, fresh |-> << >>, error |-> ""],
             [i \in 1..n |-> i])

(* What the control byte of a chunk does to the model; none can be reset   *)
(* or go on before there is one.                                           *)
ResetFor(core, control, props) ==
    CASE control = 7 -> FreshCore(props)
      [] control = 6 -> [core EXCEPT !.q = props, !.m = 0]
      [] control = 5 -> [core EXCEPT !.m = 0]
      [] control = 4 -> core

-----------------------------------------------------------------------------
(* The container.                                                         *)

XzAlign == 2
Magic == <<6, 7>>
FooterMagic == 5
CheckId == 1
DictFlag == 1

CrcBytes(c) == <<c % 4, c \div 4>>
XzWithCrc(bytes) == bytes \o CrcBytes(Summed(0, bytes))
CrcHolds(bytes) == bytes = XzWithCrc(SubSeq(bytes, 1, Len(bytes) - 2))
Padding(n) == IF n % XzAlign = 0 THEN << >> ELSE <<0>>
CheckSize(id) == IF id = 0 THEN 0 ELSE 2
DictOf(flag) == Dict + flag - DictFlag

Varint(n) == IF n < 8 THEN <<n>> ELSE <<8 + (n % 8), n \div 8>>

(* The value at `at` of a buffer and what follows it, "more" while it is   *)
(* not all there; a last group of zero and a third group are refused.      *)
VarintAt(bytes, at) ==
    CASE at > Len(bytes) -> [is |-> "more"]
      [] at <= Len(bytes) /\ bytes[at] < 8 -> [is |-> "ok", n |-> bytes[at], next |-> at + 1]
      [] at = Len(bytes) /\ bytes[at] >= 8 -> [is |-> "more"]
      [] at < Len(bytes) /\ bytes[at] >= 8 ->
             IF bytes[at + 1] \in 1..7
             THEN [is |-> "ok", n |-> (bytes[at] % 8) + 8 * bytes[at + 1], next |-> at + 2]
             ELSE [is |-> "bad"]

StreamHeaderOf(id) == Magic \o XzWithCrc(<<id>>)
BlockHeaderOf(flag) == XzWithCrc(<<2, 0, flag, 0>>)
IndexOf(records) ==
    LET body == <<0>> \o Varint(Len(records))
                \o FoldLeft(LAMBDA acc, r : acc \o Varint(r[1]) \o Varint(r[2]), << >>, records)
    IN XzWithCrc(body \o Padding(Len(body)))
FooterOf(id, indexSize) ==
    LET body == <<(indexSize \div XzAlign) - 1, id>> IN CrcBytes(Summed(0, body)) \o body \o <<FooterMagic>>

HeaderSize == Len(BlockHeaderOf(DictFlag))
FooterSize == 5

XzAt(p) == state.at = p

-----------------------------------------------------------------------------
(* The encoders.  `pending` is encoded and not yet handed out.             *)
XzNewWriter ==
    [at |-> IF format = "xz" THEN "StreamHeader" ELSE "Body",
     pending |-> IF format = "xz" THEN StreamHeaderOf(CheckId) ELSE << >>,
     enc |-> NewChunks, finished |-> FALSE, sum |-> 0, total |-> 0, payload |-> 0,
     kind |-> "sync", asked |-> 0]

(* Bug: the call also returns when all of it fit.                          *)
DrainStops(drained) ==
    LET n == Smaller(Len(state.pending), room) IN
    Return(IF n = Len(state.pending) THEN drained ELSE [state EXCEPT !.pending = After(@, n)],
           SubSeq(state.pending, 1, n))

(* drain_pending; the call goes on when all of it fits.                    *)
Drain(drained) ==
    LET n == Smaller(Len(state.pending), room) IN
    IF n = Len(state.pending) THEN Turn(drained, 0, state.pending)
    ELSE Return([state EXCEPT !.pending = After(@, n)], SubSeq(state.pending, 1, n))

DrainHeaders ==
    \/ XzAt("StreamHeader")
         /\ Drain([state EXCEPT !.at = "BlockHeader", !.pending = BlockHeaderOf(DictFlag)])
    \/ XzAt("BlockHeader") /\ Drain([state EXCEPT !.at = "Body", !.pending = << >>])

DrainChunks == XzAt("Body") /\ state.pending # << >> /\ Drain([state EXCEPT !.pending = << >>])

(* What raw LZMA2 does, and xz inside a block.                             *)
BodyEncode ==
    \/ DrainChunks
    \/ /\ XzAt("Body") /\ state.pending = << >> /\ ~NoInput
       /\ LET n == Smaller(avail - pos, Slice) IN
          Turn(Push(state, SubSeq(src, pos + 1, pos + n)), n, << >>)
    \/ XzAt("Body") /\ state.pending = << >> /\ NoInput /\ Return(state, << >>)

XzEncode == DrainHeaders \/ BodyEncode

(* stage_block_trailer; of a raw stream the end marker is all.             *)
BlockTrailer(s) ==
    IF format = "xz"
    THEN <<0>> \o Padding(HeaderSize + s.payload + 1) \o CrcBytes(s.sum)
    ELSE <<0>>

BodyFinish(newDecoder) ==
    \/ DrainChunks
    \/ XzAt("Body") /\ state.pending = << >> /\ state.enc.on /\ ~state.finished
         /\ Turn([Everything(state) EXCEPT !.finished = TRUE], 0, << >>)
    \/ XzAt("Body") /\ state.pending = << >> /\ (~state.enc.on \/ state.finished)
         /\ Turn([state EXCEPT !.pending = BlockTrailer(state), !.payload = @ + 1,
                               !.at = IF format = "xz" THEN "BlockTrailer" ELSE "Tail"], 0, << >>)
    \/ XzAt("Tail") /\ Drain([state EXCEPT !.at = "Done", !.pending = << >>])
    \/ XzAt("Done") /\ EncodeDone(state, newDecoder)

XzFinish(newDecoder) ==
    \/ DrainHeaders \/ BodyFinish(newDecoder)
    \/ /\ XzAt("BlockTrailer")
       /\ LET index == IndexOf(<<<<HeaderSize + state.payload + CheckSize(CheckId), state.total>>>>) IN
          Drain([state EXCEPT !.at = "Tail", !.pending = index \o FooterOf(CheckId, Len(index))])

BodyFlush ==
    \/ DrainChunks
    \/ /\ XzAt("Body") /\ state.pending = << >>
       /\ LET s == Everything(state)
              after == IF state.enc.on /\ state.kind = "full" THEN [s EXCEPT !.enc = ResetDict(@)] ELSE s
          IN IF after.pending # << >> THEN Turn(after, 0, << >>) ELSE FlushDone(after, << >>)

(* raw_flush: with no input yet there is nothing to flush, the headers     *)
(* included.                                                               *)
XzFlush ==
    \/ XzAt("StreamHeader") /\ ~state.enc.on /\ FlushDone(state, << >>)
    \/ XzAt("BlockHeader") /\ ~state.enc.on /\ FlushDone(state, << >>)
    \/ state.enc.on /\ DrainHeaders
    \/ BodyFlush

-----------------------------------------------------------------------------
(* The decoders.  `scratch` is the item being read, `fresh` what is        *)
(* decoded of a chunk and not handed out, `wrote` that this call did.      *)
NewDecoder ==
    [at |-> IF format = "xz" THEN "StreamHeader" ELSE "Control",
     scratch |-> << >>, id |-> 0, hsize |-> 0, dict |-> Dict, first |-> TRUE, core |-> NoCore,
     n |-> 0, comp |-> 0, body |-> << >>, read |-> 0, made |-> 0, cut |-> FALSE, fresh |-> << >>,
     sum |-> 0, total |-> 0, payload |-> 0, blocks |-> << >>, index |-> << >>, padding |-> 0,
     wrote |-> FALSE]

(* The call can do no more: raw_decode returns; xz's raw_finish lets the   *)
(* caller come again while bytes come out, LZMA2's does not decode.        *)
XzYield(s) ==
    \/ phase = "decode" /\ Return([s EXCEPT !.wrote = FALSE], << >>)
    \/ phase = "decode_finish" /\ (s.wrote \/ NoRoom) /\ Return([s EXCEPT !.wrote = FALSE], << >>)
    \/ phase = "decode_finish" /\ ~s.wrote /\ ~NoRoom /\ Fail

(* The length of the item that state.at reads.                             *)
Want ==
    CASE state.at = "StreamHeader" -> 5
      [] state.at \in {"BlockOrIndex", "Control"} -> 1
      [] state.at = "BlockHeader" -> state.hsize
      [] state.at = "RawHeader" -> 2
      [] state.at = "CompHeader" -> IF state.scratch[1] >= 6 THEN 4 ELSE 3
      [] state.at = "BlockPadding" -> Len(Padding(state.hsize + state.payload))
      [] state.at = "BlockCheck" -> CheckSize(state.id)
      [] state.at = "StreamFooter" -> FooterSize
      [] OTHER -> 0

BadMagic == XzAt("StreamHeader") /\ Len(state.scratch) >= 2 /\ ~IsPrefix(Magic, state.scratch)

Items == {"StreamHeader", "BlockOrIndex", "BlockHeader", "Control", "RawHeader", "CompHeader",
          "BlockPadding", "BlockCheck", "StreamFooter"}

(* fill_scratch.                                                           *)
Fill ==
    /\ state.at \in Items /\ Len(state.scratch) < Want /\ ~BadMagic
    /\ LET n == Smaller(Want - Len(state.scratch), avail - pos) IN
       IF n = 0 THEN XzYield(state)
       ELSE Turn([state EXCEPT !.scratch = @ \o SubSeq(src, pos + 1, pos + n)], n, << >>)

Filled(p) == XzAt(p) /\ Len(state.scratch) = Want /\ ~BadMagic
OnTo(p) == [state EXCEPT !.at = p, !.scratch = << >>]

StreamHeader ==
    \/ BadMagic /\ Fail
    \/ /\ Filled("StreamHeader")
       /\ IF state.scratch[3] < 4 /\ CrcHolds(After(state.scratch, 2))
          THEN Turn([OnTo("BlockOrIndex") EXCEPT !.id = state.scratch[3]], 0, << >>) ELSE Fail

(* A zero begins the index, anything else is the size of a block header.   *)
BlockOrIndex ==
    /\ Filled("BlockOrIndex")
    /\ IF state.scratch[1] = 0
       THEN Turn([OnTo("Index") EXCEPT !.index = <<0>>], 0, << >>)
       ELSE Turn([state EXCEPT !.at = "BlockHeader", !.hsize = (state.scratch[1] + 1) * XzAlign,
                               !.payload = 0, !.total = 0, !.sum = 0, !.core = NoCore, !.first = TRUE],
                 0, << >>)

XzBlockHeader ==
    /\ Filled("BlockHeader")
    /\ LET h == state.scratch IN
       IF CrcHolds(h) /\ Len(h) > 4 /\ h[2] = 0 /\ h[3] <= 2 /\ \A i \in 4..(Len(h) - 2) : h[i] = 0
       THEN Turn([OnTo("Control") EXCEPT !.dict = DictOf(h[3])], 0, << >>) ELSE Fail

(* The first chunk of a block must reset the dictionary.                   *)
Control ==
    /\ Filled("Control")
    /\ LET c == state.scratch[1] IN
       \/ c = 0 /\ format = "xz"
            /\ Turn([OnTo("BlockPadding") EXCEPT !.payload = @ + 1, !.core = NoCore], 0, << >>)
       \/ c = 0 /\ format = "lzma2" /\ Turn(OnTo("Done"), 0, << >>)
       \/ c \in {1, 2} /\ ~(state.first /\ c = 2)
            /\ Turn([OnTo("RawHeader") EXCEPT !.core = IF c = 1 THEN NoCore ELSE @, !.first = FALSE,
                                              !.scratch = <<c>>], 0, << >>)
       \/ c \in 4..7 /\ ~(state.first /\ c < 7) /\ Turn([state EXCEPT !.at = "CompHeader"], 0, << >>)
       \/ (c \notin {0, 1, 2} \cup (4..7) \/ (state.first /\ c \in {2, 4, 5, 6})) /\ Fail

RawHeader ==
    /\ Filled("RawHeader")
    /\ Turn([OnTo("Data") EXCEPT !.n = state.scratch[2] + 1, !.payload = @ + 2], 0, << >>)

(* Raw bytes go straight through, and into the dictionary.                 *)
Data ==
    /\ XzAt("Data")
    /\ LET k == Smaller(state.n, Smaller(avail - pos, room))
           bytes == SubSeq(src, pos + 1, pos + k)
       IN \/ state.n = 0 /\ Turn(OnTo("Control"), 0, << >>)
          \/ state.n > 0 /\ k = 0 /\ XzYield(state)
          \/ k > 0 /\ Turn([state EXCEPT !.core = Lzma2Fed(@, bytes, state.dict), !.sum = Summed(@, bytes),
                                         !.total = @ + k, !.payload = @ + k, !.n = @ - k,
                                         !.wrote = TRUE], k, bytes)

CompHeader ==
    /\ Filled("CompHeader")
    /\ LET h == state.scratch
           props == IF h[1] >= 6 THEN h[4] ELSE Props
       IN IF props <= MaxProps /\ (h[1] = 7 \/ state.core.on)
          THEN Turn([OnTo("CompBuffer") EXCEPT
                        !.core = ResetFor(@, h[1], props), !.first = FALSE, !.payload = @ + Len(h),
                        !.n = h[2] + 1, !.comp = h[3] + 1, !.body = << >>, !.read = 1, !.made = 0], 0, << >>)
          ELSE Fail

WholeBody == Len(state.body) = state.comp

CompFill ==
    /\ XzAt("CompBuffer") /\ ~WholeBody /\ ~NoInput
    /\ LET k == Smaller(state.comp - Len(state.body), avail - pos) IN
       Turn([state EXCEPT !.body = @ \o SubSeq(src, pos + 1, pos + k)], k, << >>)

(* xz decodes what is safe of a chunk as its bytes arrive, and at finish   *)
(* what a cut chunk holds; LZMA2 waits for all of the chunk.  The range    *)
(* decoder starts on a zero.                                               *)
CutShort == ~WholeBody /\ phase = "decode_finish"

CompDecode ==
    /\ XzAt("CompBuffer") /\ (WholeBody \/ NoInput)
    /\ LET ready == state.body # << >> /\ (format = "xz" \/ WholeBody) /\ ~state.cut
           u == DecodeBody(state.core, state.body, state.read, state.n - state.made,
                           IF WholeBody \/ CutShort THEN 0 ELSE InRequired, state.dict)
       IN IF ~ready THEN XzYield(state)
          ELSE IF state.body[1] # 0 \/ u.error = "corrupt" \/ (u.error = "end" /\ ~CutShort) THEN Fail
          ELSE LET s == [state EXCEPT !.core = u.core, !.read = u.read, !.fresh = u.fresh,
                                      !.made = @ + Len(u.fresh), !.cut = CutShort]
               IN IF s.made = s.n /\ WholeBody
                  THEN Turn([s EXCEPT !.at = "CompDrain", !.payload = @ + s.comp], 0, << >>)
                  ELSE IF u.fresh = << >> THEN XzYield(s) ELSE Turn([s EXCEPT !.at = "CompDrain"], 0, << >>)

CompDrain ==
    /\ XzAt("CompDrain")
    /\ LET k == Smaller(Len(state.fresh), room)
           bytes == SubSeq(state.fresh, 1, k)
           s == [state EXCEPT !.fresh = After(@, k), !.sum = Summed(@, bytes), !.total = @ + k,
                              !.wrote = @ \/ k > 0]
       IN IF k < Len(state.fresh)
          THEN IF k = 0 THEN XzYield(state) ELSE Turn(s, 0, bytes)
          ELSE Turn([s EXCEPT !.scratch = << >>,
                              !.at = IF WholeBody /\ state.made = state.n THEN "Control" ELSE "CompBuffer"], 0, bytes)

BlockPadding ==
    /\ Filled("BlockPadding")
    /\ IF \A i \in DOMAIN state.scratch : state.scratch[i] = 0
       THEN Turn(OnTo("BlockCheck"), 0, << >>) ELSE Fail

(* Only the check kinds that are known are verified.                       *)
BlockCheck ==
    /\ Filled("BlockCheck")
    /\ IF state.id = CheckId /\ state.scratch # CrcBytes(state.sum) THEN Fail
       ELSE Turn([OnTo("BlockOrIndex") EXCEPT
                     !.blocks = Append(@, <<state.hsize + state.payload + CheckSize(state.id), state.total>>)],
                 0, << >>)

-----------------------------------------------------------------------------
(* The index in a buffer: its records once they are all there.             *)
Records(bytes) ==
    LET count == VarintAt(bytes, 2)
        read[i \in 0..(2 * count.n)] ==
            IF i = 0 THEN [is |-> "ok", ns |-> << >>, next |-> count.next]
            ELSE LET so == read[i - 1] IN
                 IF so.is # "ok" THEN so
                 ELSE LET v == VarintAt(bytes, so.next) IN
                      IF v.is # "ok" THEN v ELSE [is |-> "ok", ns |-> Append(so.ns, v.n), next |-> v.next]
    IN IF count.is # "ok" THEN count ELSE read[2 * count.n]

(* What of this call's input belongs to the index.                         *)
HandBack(r, buffer) == r.next - 1 + Len(Padding(r.next - 1)) + 2 - Len(state.index)

(* All the input is taken, and what turns out to lie behind the index is   *)
(* handed back.  The sizes must be those of the blocks.                    *)
Index ==
    /\ XzAt("Index")
    /\ LET buffer == state.index \o SubSeq(src, pos + 1, avail)
           r == Records(buffer)
           size == IF r.is = "ok" THEN r.next - 1 + Len(Padding(r.next - 1)) + 2 ELSE 0
           sound == /\ CrcHolds(SubSeq(buffer, 1, size))
                    /\ \A i \in r.next..(size - 2) : buffer[i] = 0
                    /\ r.ns = FoldLeft(LAMBDA acc, b : acc \o b, << >>, state.blocks)
       IN \/ NoInput /\ XzYield(state)
          \/ ~NoInput /\ r.is = "bad" /\ Fail
          \/ ~NoInput /\ (r.is = "more" \/ size > Len(buffer))
               /\ Turn([state EXCEPT !.index = buffer], avail - pos, << >>)
          \/ ~NoInput /\ r.is = "ok" /\ size <= Len(buffer)
               /\ IF sound
                  THEN Turn([OnTo("StreamFooter") EXCEPT !.index = << >>, !.hsize = size],
                            HandBack(r, buffer), << >>)
                  ELSE Fail

StreamFooter ==
    /\ Filled("StreamFooter")
    /\ IF state.scratch = FooterOf(state.id, state.hsize)
       THEN Turn([OnTo("StreamPadding") EXCEPT !.padding = 0], 0, << >>) ELSE Fail

(* Padding, then another stream or bytes that are not the stream's; how    *)
(* far they look like a magic is kept from call to call.                   *)
StreamPadding ==
    /\ XzAt("StreamPadding")
    /\ LET most == Smaller(Len(Magic) - Len(state.scratch), avail - pos)
           k == CHOOSE k \in 0..most :
                    /\ IsPrefix(state.scratch \o SubSeq(src, pos + 1, pos + k), Magic)
                    /\ k = most \/ src[pos + k + 1] # Magic[Len(state.scratch) + k + 1]
           seen == state.scratch \o SubSeq(src, pos + 1, pos + k)
       IN \/ NoInput /\ phase = "decode" /\ XzYield(state)
          \/ NoInput /\ phase = "decode_finish"
               /\ IF state.padding # 0 THEN Fail ELSE Turn(OnTo("Done"), 0, << >>)
          \/ ~NoInput /\ state.scratch = << >> /\ NextByte = 0
               /\ Turn([state EXCEPT !.padding = (@ + 1) % XzAlign], 1, << >>)
          \/ ~NoInput /\ ~(state.scratch = << >> /\ NextByte = 0) /\ state.padding # 0 /\ Fail
          \/ /\ ~NoInput /\ ~(state.scratch = << >> /\ NextByte = 0) /\ state.padding = 0
             /\ IF seen = Magic
                THEN Turn([state EXCEPT !.at = "StreamHeader", !.scratch = seen, !.blocks = << >>], k, << >>)
                ELSE IF pos + k = avail THEN Turn([state EXCEPT !.scratch = seen], k, << >>)
                ELSE Turn(OnTo("Done"), 0, << >>)

ChunksDecode == Control \/ RawHeader \/ Data \/ CompHeader \/ CompFill \/ CompDecode \/ CompDrain

(* LZMA2's raw_finish does not decode.                                     *)
Lzma2Finish == IF XzAt("Done") THEN DecodeDone ELSE Fail

XzDecode ==
    \/ format = "lzma2" /\ phase = "decode_finish" /\ Lzma2Finish
    \/ /\ format = "xz" \/ phase = "decode"
       /\ \/ Fill \/ ChunksDecode
          \/ StreamHeader \/ BlockOrIndex \/ XzBlockHeader \/ BlockPadding \/ BlockCheck
          \/ Index \/ StreamFooter \/ StreamPadding
          \/ XzAt("Done") /\ phase = "decode" /\ End(state, << >>)
          \/ XzAt("Done") /\ phase = "decode_finish" /\ DecodeDone

=============================================================================
