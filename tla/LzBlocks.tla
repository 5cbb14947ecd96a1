------------------------------ MODULE LzBlocks ------------------------------
(***************************************************************************)
(* What the LZ77 codecs that work on blocks share: how a block may be      *)
(* parsed into matches, how lengths beyond a field are continued, and the  *)
(* buffering around the block functions.  A byte of the compressed data    *)
(* has 16 values, which the formats' own fields build on, and a word two   *)
(* bytes.                                                                  *)
(***************************************************************************)
EXTENDS CodecCall

ASSUME LzBlocksAssumption == ByteBits = 4

ByteMax == 2^ByteBits - 1
Word(n) == <<n % 16, n \div 16>>
WordAt(s, ip) == s[ip + 1] + 16 * s[ip + 2]

(* A checksum, as an amount.                                               *)
Checksum(c, bytes) == FoldLeft(LAMBDA a, b : (3 * a + b + 1) % 251, c, bytes)

-----------------------------------------------------------------------------
(* Parsing.  The hash tables and chains of the encoders only decide which  *)
(* earlier occurrence is found, if any; a rule says which matches are      *)
(* legal: `min` and `max` length, `far` distance, the first position that  *)
(* is not a start and the one no match goes beyond, and whether a match is *)
(* extended as far as it goes.                                             *)
Agree(data, at, dist, n) == \A i \in 1..n : data[at + i] = data[at + i - dist]

Longest(data, at, dist, most) ==
    CHOOSE n \in 0..most : Agree(data, at, dist, n) /\ (n = most \/ ~Agree(data, at, dist, n + 1))

MatchesAt(data, at, rule) ==
    UNION {LET n == Longest(data, at, dist, Smaller(rule.max, rule.end - at)) IN
           {[at |-> at, len |-> l, dist |-> dist] :
               l \in (IF rule.greedy THEN {n} \cap rule.min..n ELSE rule.min..n)}
           : dist \in 1..Smaller(rule.far, at)}

RECURSIVE Parses(_, _, _)
Parses(data, at, rule) ==
    IF at >= rule.start THEN {<< >>}
    ELSE Parses(data, at + 1, rule)
         \cup UNION {{<<m>> \o p : p \in Parses(data, at + m.len, rule)} : m \in MatchesAt(data, at, rule)}

-----------------------------------------------------------------------------
(* A length continued in bytes, as LZ4 and as LZO do it.                   *)
Continued(n) == Copies(ByteMax, n \div ByteMax) \o <<n % ByteMax>>
ContinuedByZeros(n) == Copies(0, (n - 1) \div ByteMax) \o <<((n - 1) % ByteMax) + 1>>

(* The length that goes on at ip: every byte `more` adds ByteMax, the      *)
(* first other one ends it.                                                *)
LengthAt(s, ip, more) ==
    LET ends == {k \in ip..(Len(s) - 1) : s[k + 1] # more /\ \A i \in (ip + 1)..k : s[i] = more} IN
    IF ends = {} THEN [ok |-> FALSE]
    ELSE LET k == CHOOSE k \in ends : TRUE IN
         [ok |-> TRUE, n |-> (k - ip) * ByteMax + s[k + 1], ip |-> k + 1]

(* A copy may overlap what it makes.                                       *)
CopyOf(h, dist, n) == h \o [i \in 1..n |-> h[Len(h) - dist + ((i - 1) % dist) + 1]]

Broken == [ok |-> FALSE]

-----------------------------------------------------------------------------
(* Encoders that gather a block of `size` bytes in `raw`, then hand out    *)
(* what it became.                                                         *)
BlockEncode(size, Built(_)) ==
    \/ DrainPending
    \/ state.pending # << >> /\ NoRoom /\ Return(state, << >>)
    \/ state.pending = << >> /\ NoInput /\ Return(state, << >>)
    \/ /\ state.pending = << >> /\ ~NoInput
       /\ LET n == Smaller(avail - pos, size - Len(state.raw))
              s == [state EXCEPT !.raw = @ \o Take(n)]
          IN IF Len(s.raw) < size THEN Turn(s, n, << >>)
             ELSE \E b \in Built(s) : Turn(b, n, << >>)

(* At the end the last block, then the trailer.                            *)
BlockFinish(Built(_), Trailer(_), newDecoder) ==
    \/ DrainPending
    \/ state.pending # << >> /\ NoRoom /\ Return(state, << >>)
    \/ /\ state.pending = << >> /\ ~state.finished
       /\ IF state.raw # << >> THEN \E b \in Built(state) : Turn(b, 0, << >>)
          ELSE Turn([state EXCEPT !.finished = TRUE, !.pending = Trailer(state)], 0, << >>)
    \/ state.pending = << >> /\ state.finished /\ EncodeDone(state, newDecoder)

-----------------------------------------------------------------------------
(* Decoders of a sequence of items: `got` fills up to `need` bytes, then   *)
(* the item is read, once what the last one gave is handed out.            *)
Filled == Len(state.got) = state.need

FillItem ==
    \/ DrainPending
    \/ state.pending # << >> /\ NoRoom /\ Return(state, << >>)
    \/ state.pending = << >> /\ ~Filled /\ NoInput /\ Return(state, << >>)
    \/ /\ state.pending = << >> /\ ~Filled /\ ~NoInput
       /\ LET n == Smaller(avail - pos, state.need - Len(state.got)) IN
          Turn([state EXCEPT !.got = @ \o Take(n)], n, << >>)

Reading(item) == state.pending = << >> /\ Filled /\ state.at = item

(* On to an item of `need` bytes.                                          *)
Goto(s, item, need) == [s EXCEPT !.at = item, !.need = need, !.got = << >>]

(* finish hands out what is left, then is content or not.                  *)
ItemsFinish(content) ==
    HandOut((content /\ DecodeDone) \/ (~content /\ Fail))

-----------------------------------------------------------------------------
(* The container of LZ4 and LZO: a word of length before each block, and   *)
(* zero for the end.                                                       *)
WithBlock(s, block) == [s EXCEPT !.raw = << >>, !.pending = Word(Len(block)) \o block]
Terminator(s) == <<0, 0>>

NewBlockDecoder == [at |-> "Length", need |-> 2, got |-> << >>, pending |-> << >>]

ReadLength(most) ==
    /\ Reading("Length")
    /\ LET n == WordAt(state.got, 0) IN
       \/ n = 0 /\ Return(Goto(state, "Done", 0), << >>)
       \/ n > most /\ Fail
       \/ n \in 1..most /\ Continue(Goto(state, "BlockData", n))

ReadBlock(Decoded) ==
    /\ Reading("BlockData")
    /\ IF Decoded.ok THEN Continue([Goto(state, "Length", 2) EXCEPT !.pending = Decoded.out]) ELSE Fail

BlocksEnd == Reading("Done") /\ End(state, << >>)

BetweenBlocks == state.at = "Done" \/ (state.at = "Length" /\ state.got = << >>)
=============================================================================
