-------------------------------- MODULE Embed --------------------------------
(***************************************************************************)
(* The heap-free DEFLATE codecs (embed/): a decoder that takes a step on   *)
(* whatever input there is and takes it back when that runs out, an        *)
(* encoder that starts a token only when all of it fits, the same steps    *)
(* run over one slice into another, and embed::flate's, whose output       *)
(* always has room.  `surface` tells them apart, `box` is the container,   *)
(* with the headers and the alphabet of GzipZlib.tla.                      *)
(***************************************************************************)
EXTENDS GzipZlib

CONSTANTS
    EmBlock,   \* bytes of an encoder's block: B
    Ample      \* bound: room that holds everything

ASSUME EmbedAssumption == EmBlock \in Nat \ {0} /\ Ample \in Nat

(* 32 bits both, cut down: the bit buffers, and what a step reads at most. *)
ReadBytes == 5
Width == 4 * ByteBits

Box(b) == state.box = b
Flate == state.surface \in {"flate", "detect"}
OneShot == state.surface = "slice"

-----------------------------------------------------------------------------
(* `far` is the farthest a match may reach, `halt` that the call is over.  *)
EmDecoder(box, surface, far) ==
    [at |-> "Start", box |-> box, surface |-> surface, far |-> far, halt |-> FALSE, flags |-> {},
     n |-> 0, m |-> 0, k |-> 0, last |-> FALSE, lens |-> << >>, cl |-> << >>, lit |-> << >>, dist |-> << >>,
     acc |-> << >>, window |-> << >>, sum |-> 0, count |-> 0, check |-> << >>]

(* What a step may read: the bits held, then the input.                    *)
Ahead == state.acc \o BitsOf(SubSeq(src, pos + 1, Smaller(avail, pos + ReadBytes)))
Reach(n) == Len(Ahead) >= n
See(at, n) == Value(SubSeq(Ahead, at + 1, at + n))

(* A step that reads n bits fetches the bytes they are in.                 *)
Fetched(n) == IF n <= Len(state.acc) THEN 0 ELSE (n - Len(state.acc) + ByteBits - 1) \div ByteBits
UpTo(n) == Len(state.acc) + Fetched(n) * ByteBits
Step(n, s) == Turn([s EXCEPT !.acc = SubSeq(Ahead, n + 1, UpTo(n))], Fetched(n), << >>)
Produce(n, s, put) ==
    Turn([s EXCEPT !.acc = SubSeq(Ahead, n + 1, UpTo(n)), !.window = LastBytes(@ \o put, s.far),
                   !.sum = Sum(@, put), !.count = (@ + Len(put)) % 16], Fetched(n), put)

(* `n` and the bits up to the byte's end.                                  *)
ToByte(n) == n + ((UpTo(n) - n) % ByteBits)

(* The input ran out in the step: it is taken back, and the bytes left go  *)
(* into the bit buffer, where they fit.                                    *)
Fits(held) ==
    LET least == (ReadBytes - 1) * ByteBits IN IF held > least THEN 0 ELSE (least - held) \div ByteBits + 1

RunsDry ==
    LET n == Smaller(avail - pos, Fits(Len(state.acc))) IN
    IF OneShot THEN Fail
    ELSE Turn([state EXCEPT !.acc = @ \o BitsOf(Take(n)), !.halt = TRUE], n, << >>)

(* The call is over; raw_finish judges.                                    *)
Stop ==
    \/ phase = "decode" /\ Return([state EXCEPT !.halt = FALSE], << >>)
    \/ phase = "decode_finish"
         /\ IF At("Next") THEN DecodeDone ELSE IF NoRoom THEN Return(state, << >>) ELSE Fail

(* A one-shot call fails for want of room, and is made again.              *)
TooSmall(fresh) ==
    /\ state' = fresh
    /\ out' = << >>
    /\ pos' = IF Decoding THEN 0 ELSE pos
    /\ calling' = FALSE
    /\ UNCHANGED <<format, plain, given, phase, src, avail, room>>

StopsFull == NoRoom /\ (IF OneShot THEN TooSmall(EmDecoder(state.box, state.surface, state.far)) ELSE Stop)

-----------------------------------------------------------------------------
(* The zlib header is read at once; embed::flate's first byte on its own.  *)
EmStart ==
    /\ At("Start")
    /\ \/ Box("raw") /\ Continue([state EXCEPT !.at = "Block"])
       \/ ~Box("raw") /\ ~Reach(ByteBits) /\ RunsDry
       \/ Box("gzip") /\ Reach(ByteBits) /\ ~Flate /\ Continue([state EXCEPT !.at = "Member"])
       \/ Flate /\ Box("gzip") /\ Reach(ByteBits)
            /\ IF See(0, ByteBits) = 1 THEN Step(ByteBits, [state EXCEPT !.at = "Member"]) ELSE Fail
       \/ state.surface = "detect" /\ Box("") /\ Reach(ByteBits)
            /\ Continue([state EXCEPT !.box = IF See(0, ByteBits) = 1 THEN "gzip" ELSE "zlib"])
       \/ Box("zlib") /\ Reach(ByteBits) /\ ~Reach(2 * ByteBits) /\ RunsDry
       \/ Box("zlib") /\ Reach(2 * ByteBits)
            /\ IF See(0, ByteBits) = 2 /\ See(ByteBits, ByteBits) = 0
               THEN Step(2 * ByteBits, [state EXCEPT !.at = "Block"]) ELSE Fail

(* The rest of the magic, and the flags.                                   *)
Magic_ == IF Flate THEN <<2>> ELSE <<1, 2>>

Member_ ==
    /\ At("Member")
    /\ LET lead == Len(Magic_) * ByteBits IN
       \/ ~Reach(lead) /\ RunsDry
       \/ Reach(lead) /\ WholeBytes(SubSeq(Ahead, 1, lead)) # Magic_ /\ Fail
       \/ Reach(lead) /\ WholeBytes(SubSeq(Ahead, 1, lead)) = Magic_
            /\ IF Reach(lead + 2 * ByteBits)
               THEN Step(lead + 2 * ByteBits,
                         [state EXCEPT !.at = "Fields", !.sum = 0, !.count = 0,
                                       !.flags = Flags(See(lead, ByteBits), See(lead + ByteBits, ByteBits))])
               ELSE RunsDry

SkipHeader ==
    /\ At("Skip")
    /\ \/ state.n = 0 /\ Continue([state EXCEPT !.at = "Fields"])
       \/ state.n > 0 /\ IF Reach(ByteBits) THEN Step(ByteBits, [state EXCEPT !.n = @ - 1]) ELSE RunsDry

(* The optional fields left; the header's checksum is not looked at.       *)
Fields ==
    /\ At("Fields")
    /\ LET texts == state.flags \cap {"name", "comment"}
           first == IF "name" \in texts THEN "name" ELSE "comment"
       IN \/ "extra" \in state.flags
               /\ IF Reach(2 * ByteBits)
                  THEN Step(2 * ByteBits, [state EXCEPT !.at = "Skip", !.flags = @ \ {"extra"},
                                              !.n = See(0, ByteBits) + 4 * See(ByteBits, ByteBits)])
                  ELSE RunsDry
          \/ "extra" \notin state.flags /\ texts # {}
               /\ IF Reach(ByteBits)
                  THEN Step(ByteBits, [state EXCEPT !.flags = IF See(0, ByteBits) = 0 THEN @ \ {first} ELSE @])
                  ELSE RunsDry
          \/ state.flags = {"hcrc"} /\ Continue([state EXCEPT !.at = "Skip", !.flags = {}, !.n = 2])
          \/ state.flags = {} /\ Continue([state EXCEPT !.at = "Block"])

-----------------------------------------------------------------------------
(* A block ends, and with the last the data, at the end of a byte.         *)
Ends(n) ==
    IF ~state.last THEN Step(n, [state EXCEPT !.at = "Block"])
    ELSE Step(ToByte(n), [state EXCEPT !.at = IF Box("raw") THEN "Done" ELSE "Checksum"])

Block_ ==
    /\ At("Block")
    /\ LET type == See(1, 2)
           s == [state EXCEPT !.last = (See(0, 1) = 1)]
       IN \/ ~Reach(3) /\ RunsDry
          \/ Reach(3) /\ type = 0 /\ Step(ToByte(3), [s EXCEPT !.at = "StoredLen"])
          \/ Reach(3) /\ type = 1 /\ Step(3, [s EXCEPT !.at = "Length", !.lit = FixedLit, !.dist = FixedDist])
          \/ Reach(3) /\ type = 2 /\ ~Reach(9) /\ RunsDry
          \/ Reach(9) /\ type = 2 /\ (See(3, 2) > 2 \/ See(5, 2) > 2) /\ Fail
          \/ Reach(9) /\ type = 2 /\ See(3, 2) <= 2 /\ See(5, 2) <= 2
               /\ Step(9, [s EXCEPT !.at = "CodeLengths", !.lens = << >>, !.n = MinLit + See(3, 2),
                                    !.m = See(5, 2) + 1, !.k = MinCl + See(7, 2)])
          \/ Reach(3) /\ type = 3 /\ Fail

StoredLen ==
    /\ At("StoredLen")
    /\ LET n == See(0, LenBits) IN
       \/ ~Reach(2 * LenBits) /\ RunsDry
       \/ Reach(2 * LenBits) /\ n + See(LenBits, LenBits) # 2^LenBits - 1 /\ Fail
       \/ Reach(2 * LenBits) /\ n + See(LenBits, LenBits) = 2^LenBits - 1
            /\ Step(2 * LenBits, [state EXCEPT !.at = "Stored", !.n = n])

StoredByte ==
    /\ At("Stored")
    /\ \/ state.n = 0 /\ Ends(0)
       \/ state.n > 0 /\ StopsFull
       \/ state.n > 0 /\ ~NoRoom
            /\ IF Reach(ByteBits) THEN Produce(ByteBits, [state EXCEPT !.n = @ - 1], <<See(0, ByteBits)>>)
               ELSE RunsDry

(* Complete, or made of one-bit codes alone.                               *)
Kraft(lens) == MapThenSumSet(LAMBDA s : 2^(MaxCode - lens[s + 1]), Coded(lens))
Complete_(lens) == Kraft(lens) = 2^MaxCode
Permitted(lens) ==
    \/ Complete_(lens)
    \/ Kraft(lens) < 2^MaxCode /\ \A s \in Coded(lens) : lens[s + 1] = 1

CodeLengths ==
    /\ At("CodeLengths")
    /\ \/ Len(state.lens) < state.k
            /\ IF Reach(2) THEN Step(2, [state EXCEPT !.lens = Append(@, See(0, 2))]) ELSE RunsDry
       \/ Len(state.lens) = state.k
            /\ IF Complete_(Ordered(state.lens))
               THEN Continue([state EXCEPT !.at = "Lengths", !.cl = Table(Ordered(state.lens)), !.lens = << >>])
               ELSE Fail

(* A code takes a bit after another: none found when they end is no error  *)
(* yet, and none among the longest is one.                                 *)
CodeSeen(table) == Found(table, SubSeq(Ahead, 1, Smaller(Len(Ahead), MaxCode)))
CodeBits(table) == Len(NextCodeOf(table, Ahead))
Seen(table) == table[NextCodeOf(table, Ahead)]
NoCode(table) == ~CodeSeen(table) /\ (IF Reach(MaxCode) THEN Fail ELSE RunsDry)

Repeated(v, bits, i) ==
    IF ~Reach(bits + RepeatBits[i]) THEN RunsDry
    ELSE LET n == RepeatBase[i] + See(bits, RepeatBits[i]) IN
         IF Len(state.lens) + n > state.n + state.m THEN Fail
         ELSE Step(bits + RepeatBits[i], [state EXCEPT !.lens = @ \o Copies(v, n)])

Lengths ==
    /\ At("Lengths")
    /\ LET total == state.n + state.m
           lit == SubSeq(state.lens, 1, state.n)
           dist == SubSeq(state.lens, state.n + 1, total)
           more == Len(state.lens) < total
       IN \/ more /\ NoCode(state.cl)
          \/ more /\ CodeSeen(state.cl) /\ Seen(state.cl) < RepeatPrev
               /\ Step(CodeBits(state.cl), [state EXCEPT !.lens = Append(@, Seen(state.cl))])
          \/ more /\ CodeSeen(state.cl) /\ Seen(state.cl) = RepeatPrev /\ state.lens = << >> /\ Fail
          \/ more /\ CodeSeen(state.cl) /\ Seen(state.cl) = RepeatPrev /\ state.lens # << >>
               /\ Repeated(state.lens[Len(state.lens)], CodeBits(state.cl), 1)
          \/ more /\ CodeSeen(state.cl) /\ Seen(state.cl) > RepeatPrev
               /\ Repeated(0, CodeBits(state.cl), Seen(state.cl) - RepeatPrev + 1)
          \/ ~more /\ IF lit[EOB + 1] # 0 /\ Permitted(lit) /\ Permitted(dist)
                      THEN Continue([state EXCEPT !.at = "Length", !.lit = Table(lit), !.dist = Table(dist)])
                      ELSE Fail

(* A literal without room is taken back, to be read again.                 *)
Length ==
    /\ At("Length")
    /\ \/ NoCode(state.lit)
       \/ /\ CodeSeen(state.lit)
          /\ LET s == Seen(state.lit)
                 bits == CodeBits(state.lit)
             IN \/ IsLiteral(s) /\ StopsFull
                \/ IsLiteral(s) /\ ~NoRoom /\ Produce(bits, state, <<s>>)
                \/ s = EOB /\ Ends(bits)
                \/ s \in DOMAIN LengthBases
                     /\ IF Reach(bits + LengthBits[s])
                        THEN Step(bits + LengthBits[s], [state EXCEPT !.at = "Distance",
                                      !.n = LengthBases[s] + See(bits, LengthBits[s])])
                        ELSE RunsDry
                \/ s > EOB /\ s \notin DOMAIN LengthBases /\ Fail

(* The one-shot output is its own history, all of it.                      *)
Backward == IF OneShot THEN out ELSE state.window

Distance ==
    /\ At("Distance")
    /\ \/ NoCode(state.dist)
       \/ /\ CodeSeen(state.dist)
          /\ LET c == Seen(state.dist) + 1
                 bits == CodeBits(state.dist)
             IN \/ c \notin DOMAIN DistBases /\ Fail
                \/ c \in DOMAIN DistBases
                     /\ IF ~Reach(bits + DistBits[c]) THEN RunsDry
                        ELSE IF DistBases[c] + See(bits, DistBits[c]) > Len(Backward) THEN Fail
                        ELSE Step(bits + DistBits[c],
                                  [state EXCEPT !.at = "Copy", !.m = DistBases[c] + See(bits, DistBits[c])])

Copy ==
    /\ At("Copy")
    /\ \/ StopsFull
       \/ ~NoRoom
            /\ LET n == Smaller(state.n, room)
                   start == Len(Backward) - state.m
               IN Produce(0, [state EXCEPT !.n = @ - n, !.at = IF n = state.n THEN "Length" ELSE @],
                          [i \in 1..n |-> Backward[start + ((i - 1) % state.m) + 1]])

-----------------------------------------------------------------------------
(* The trailer: the checksum, and gzip's length, each read at once.        *)
Verified(check, size) ==
    IF Box("gzip")
    THEN check = LE(state.sum) /\ size = LE(state.count)
    ELSE check = BE(state.sum)

Trailer ==
    /\ state.at \in {"Checksum", "Size"}
    /\ LET word == WholeBytes(SubSeq(Ahead, 1, 2 * ByteBits)) IN
       \/ ~Reach(2 * ByteBits) /\ RunsDry
       \/ Reach(2 * ByteBits) /\ Box("gzip") /\ At("Checksum")
            /\ Step(2 * ByteBits, [state EXCEPT !.at = "Size", !.check = word])
       \/ Reach(2 * ByteBits) /\ (Box("zlib") \/ At("Size"))
            /\ IF Verified(IF At("Size") THEN state.check ELSE word, word)
               THEN Step(2 * ByteBits, [state EXCEPT !.at = IF Box("gzip") THEN "Next" ELSE "Done"])
               ELSE Fail

(* Another member is known by its first byte, which only embed::flate      *)
(* consumes to look at.                                                    *)
Next_ ==
    /\ At("Next")
    /\ \/ NoInput /\ IF OneShot THEN End(state, << >>) ELSE Stop
       \/ ~NoInput /\ Step(IF Flate THEN ByteBits ELSE 0,
                           [state EXCEPT !.at = IF NextByte = 1 THEN "Member" ELSE "Done"])

EmDecode ==
    \/ state.halt /\ Stop
    \/ ~state.halt /\
         \/ EmStart \/ Member_ \/ SkipHeader \/ Fields
         \/ Block_ \/ StoredLen \/ StoredByte \/ CodeLengths \/ Lengths \/ Length \/ Distance \/ Copy
         \/ Trailer \/ Next_
         \/ At("Done") /\ End(state, << >>)

(* What it could hand out from what it holds.                              *)
EmOwes ==
    \/ At("Copy")
    \/ At("Stored") /\ state.n > 0 /\ Len(state.acc) >= ByteBits
    \/ At("Length") /\ Found(state.lit, state.acc) /\ IsLiteral(state.lit[NextCodeOf(state.lit, state.acc)])

-----------------------------------------------------------------------------
(* The encoders: a block gathered, then its tokens, p bytes of it done.    *)
EmHeader(box) == CASE box = "raw" -> << >> [] box = "zlib" -> <<2, 0>> [] box = "gzip" -> <<1, 2, 0, 0>>

EmEncoder(box, surface) ==
    [at |-> "Gather", box |-> box, surface |-> surface, block |-> << >>, p |-> 0, acc |-> << >>,
     left |-> EmHeader(box), sum |-> 0, count |-> 0]

EmTrailer ==
    CASE Box("raw") -> << >> [] Box("zlib") -> BE(state.sum) [] Box("gzip") -> LE(state.sum) \o LE(state.count)

(* Bits go out by whole bytes as far as there is room for them.            *)
Flushed(w) ==
    LET n == Smaller(Len(w.acc) \div ByteBits, w.room) IN
    [w EXCEPT !.acc = SubSeq(@, n * ByteBits + 1, Len(@)), !.room = @ - n,
              !.put = @ \o WholeBytes(SubSeq(w.acc, 1, n * ByteBits))]
Pushed == Flushed([acc |-> state.acc, put |-> << >>, room |-> room, ok |-> TRUE])

(* `bits`: what does not fit in the buffer, after a flush, is lost.        *)
WithBits(w, bits) ==
    LET f == Flushed(w) IN
    IF ~w.ok \/ Len(f.acc) + Len(bits) >= Width THEN [f EXCEPT !.ok = FALSE] ELSE [f EXCEPT !.acc = @ \o bits]

Emit(s, fields) ==
    LET w == FoldLeft(WithBits, Pushed, fields) IN
    IF OneShot /\ ~w.ok THEN TooSmall([EmEncoder(state.box, state.surface) EXCEPT !.block = plain])
    ELSE Turn([s EXCEPT !.acc = w.acc], 0, w.put)

(* `ready`: the streaming encoder starts nothing that might not fit.       *)
Ready(n) == OneShot \/ Len(Pushed.acc) + n < Width + ByteBits * Smaller(Pushed.room, 4)
Waits(n) == ~Ready(n) /\ Return([state EXCEPT !.acc = Pushed.acc], Pushed.put)

WritesHeader ==
    /\ state.left # << >>
    /\ \/ Waits(ByteBits)
       \/ Ready(ByteBits) /\ Emit([state EXCEPT !.left = Tail(@)], <<Bits(state.left[1], ByteBits)>>)

OpensBlock ==
    /\ state.left = << >>
    /\ \/ Waits(3)
       \/ Ready(3) /\ Emit([state EXCEPT !.at = "Open", !.p = 0, !.sum = Sum(@, state.block),
                                         !.count = (@ + Len(state.block)) % 16], <<<<0, 1, 0>>>>)

(* The table may hold any earlier place in the block, or none of them; a   *)
(* match it finds is as long as can be.                                    *)
MatchFrom(p, dist) ==
    LET same(n) == \A i \in 1..n : state.block[p + i] = state.block[p + i - dist] IN
    CHOOSE n \in 0..Smaller(MaxMatch, Len(state.block) - p) :
        same(n) /\ (n = Smaller(MaxMatch, Len(state.block) - p) \/ ~same(n + 1))

TokensAt(p) ==
    {<<state.block[p + 1]>>} \cup
    {m \in {<<MatchFrom(p, dist), dist>> : dist \in 1..Smaller(p, WinCap)} :
        m[1] >= MinMatch /\ p + MinMatch <= Len(state.block)}

TokenFields(t) ==
    IF Len(t) = 1 THEN <<CodeOf(FixedLitLengths, t[1])>>
    ELSE LET l == LengthSymbol(t[1])
             c == DistanceSymbolOf(t[2])
         IN <<CodeOf(FixedLitLengths, l), Bits(t[1] - LengthBases[l], LengthBits[l]),
              CodeOf(FixedDistLengths, c - 1), Bits(t[2] - DistBases[c], DistBits[c])>>

MostTokenBits == 7   \* TOKEN_BITS
EndCode == CodeOf(FixedLitLengths, EOB)

WritesTokens ==
    /\ At("Open")
    /\ \/ state.p < Len(state.block) /\ Waits(MostTokenBits)
       \/ state.p < Len(state.block) /\ Ready(MostTokenBits)
            /\ \E t \in TokensAt(state.p) :
                   Emit([state EXCEPT !.p = @ + (IF Len(t) = 1 THEN 1 ELSE t[1])], TokenFields(t))
       \/ state.p = Len(state.block) /\ Waits(Len(EndCode))
       \/ state.p = Len(state.block) /\ Ready(Len(EndCode))
            /\ Emit([state EXCEPT !.at = "Gather", !.block = << >>, !.p = 0], <<EndCode>>)

(* embed::flate's compressor makes a block of every write; a one-shot call *)
(* has only one.                                                           *)
BlockFull ==
    /\ At("Gather") /\ state.block # << >>
    /\ (Flate /\ NoInput) \/ (~OneShot /\ Len(state.block) = EmBlock)

EmEncode ==
    \/ BlockFull /\ (WritesHeader \/ OpensBlock)
    \/ WritesTokens
    \/ /\ At("Gather") /\ ~BlockFull
       /\ \/ NoInput /\ Return([state EXCEPT !.acc = Pushed.acc], Pushed.put)
          \/ ~NoInput
               /\ LET n == IF OneShot THEN avail - pos ELSE Smaller(avail - pos, EmBlock - Len(state.block)) IN
                  Turn([state EXCEPT !.block = @ \o Take(n)], n, << >>)

(* The final, empty block and what fills its last byte are one step, the   *)
(* trailer goes by halves of a word.                                       *)
EmFinish(newDecoder) ==
    \/ At("Gather") /\ WritesHeader
    \/ At("Gather") /\ state.block # << >> /\ OpensBlock
    \/ WritesTokens
    \/ /\ At("Gather") /\ state.block = << >> /\ state.left = << >>
       /\ LET used == 3 + Len(EndCode)
              pad == Len(Aligned(state.acc \o Copies(0, used))) - Len(state.acc) - used
          IN \/ Waits(used + ByteBits - 1)
             \/ Ready(used + ByteBits - 1)
                  /\ Emit([state EXCEPT !.at = "Trailer", !.left = EmTrailer],
                          <<<<1, 1, 0>>, EndCode, Copies(0, pad)>>)
    \/ At("Trailer") /\ state.left # << >> /\ WritesHeader
    \/ At("Trailer") /\ state.left = << >> /\ Pushed.put # << >> /\ Emit(state, << >>)
    \/ At("Trailer") /\ state.left = << >> /\ Pushed.put = << >>
         /\ IF state.acc = << >> THEN EncodeDone(state, newDecoder)
            ELSE IF OneShot THEN TooSmall([EmEncoder(state.box, state.surface) EXCEPT !.block = plain])
            ELSE Return(state, << >>)
=============================================================================
