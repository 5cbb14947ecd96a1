----------------------------- MODULE RunLength ------------------------------
(***************************************************************************)
(* The run-length codecs: rle.rs, packbits.rs and rle90.rs.                *)
(***************************************************************************)
EXTENDS CodecCall

CONSTANTS
    MaxCount,  \* rle.rs: u8::MAX
    Half,      \* packbits.rs: 128, MAX_LITERAL and MAX_RUN, and half the values of a byte
    MinRun,    \* packbits.rs: MIN_RUN
    Flag,      \* rle90.rs: FLAG
    MinRun90,  \* rle90.rs: MIN_RUN
    MaxRun90   \* rle90.rs: MAX_RUN

-----------------------------------------------------------------------------
(* rle.rs: runs as [count][value] pairs.  A pair whose value did not fit   *)
(* is finished by the next call.                                           *)

RleEmpty == [at |-> "Empty"]
RleRun(b, n) == [at |-> "Run", byte |-> b, count |-> n]
RlePartialPair(b) == [at |-> "PartialPair", byte |-> b]

RleNewEncoder == RleEmpty

RleOwedValue ==
    /\ state.at = "PartialPair"
    /\ \/ NoRoom /\ Return(state, << >>)
       \/ ~NoRoom /\ Turn(RleEmpty, 0, <<state.byte>>)

(* Bug: the pair waits until both of its bytes fit.                        *)
RleWholePairOnly ==
    \/ room >= 2 /\ Turn(RleEmpty, 0, <<state.count, state.byte>>)
    \/ room < 2 /\ Return(state, << >>)

(* Flushing a run: all of the pair, its count only, or nothing.            *)
RleEmitPair ==
    \/ room >= 2 /\ Turn(RleEmpty, 0, <<state.count, state.byte>>)
    \/ room = 1 /\ Return(RlePartialPair(state.byte), <<state.count>>)
    \/ NoRoom /\ Return(state, << >>)

RleExtends(b) == state.at = "Run" /\ state.byte = b /\ state.count < MaxCount

RleEncode ==
    \/ RleOwedValue
    \/ state.at # "PartialPair" /\ NoInput /\ Return(state, << >>)
    \/ state.at = "Empty" /\ ~NoInput /\ Turn(RleRun(NextByte, 1), 1, << >>)
    \/ state.at = "Run" /\ ~NoInput /\ RleExtends(NextByte)
         /\ Turn(RleRun(state.byte, state.count + 1), 1, << >>)
    \/ state.at = "Run" /\ ~NoInput /\ ~RleExtends(NextByte) /\ RleEmitPair

-----------------------------------------------------------------------------
RleExpectCount == [at |-> "ExpectCount"]
RleExpectValue(n) == [at |-> "ExpectValue", count |-> n]
RleEmittingRun(b, n) ==
    IF n = 0 THEN RleExpectCount ELSE [at |-> "EmittingRun", byte |-> b, count |-> n]

RleNewDecoder == RleExpectCount

RleEncodeFinish ==
    \/ RleOwedValue
    \/ state.at = "Run" /\ RleEmitPair
    \/ state.at = "Empty" /\ EncodeDone(state, RleNewDecoder)

RleEmitRun ==
    /\ state.at = "EmittingRun"
    /\ \/ NoRoom /\ Return(state, << >>)
       \/ ~NoRoom /\ EmitCopies(state.byte, state.count,
                                 [k \in 0..state.count |-> RleEmittingRun(state.byte, k)])

RleDecode ==
    \/ RleEmitRun
    \/ state.at # "EmittingRun" /\ NoInput /\ Return(state, << >>)
    \/ state.at = "ExpectCount" /\ ~NoInput /\ NextByte = 0 /\ Fail
    \/ state.at = "ExpectCount" /\ ~NoInput /\ NextByte # 0
         /\ Turn(RleExpectValue(NextByte), 1, << >>)
    \/ state.at = "ExpectValue" /\ ~NoInput /\ Turn(RleEmittingRun(NextByte, state.count), 1, << >>)

RleDecodeFinish ==
    \/ RleEmitRun
    \/ state.at = "ExpectCount" /\ DecodeDone
    \/ state.at = "ExpectValue" /\ Fail

(* The decoder has output it could write.                                  *)
RleOwes == state.at = "EmittingRun"

(* What the format's description says a stream stands for: its bytes, up   *)
(* to the first thing that is malformed or missing.                        *)
RleMeaning(w) ==
    LET from[i \in 1..(Len(w) + 1)] ==
            IF i > Len(w) THEN [bytes |-> << >>, ok |-> TRUE]
            ELSE IF w[i] = 0 \/ i = Len(w) THEN [bytes |-> << >>, ok |-> FALSE]
            ELSE [from[i + 2] EXCEPT !.bytes = Copies(w[i + 1], w[i]) \o @]
    IN from[1]

-----------------------------------------------------------------------------
(* packbits.rs: literal chunks and replicate runs behind a signed header   *)
(* byte.  The encoder collects a literal chunk and a run that may follow   *)
(* it; the two reach the queue in the order of the input.                  *)

(* Encoder: the literal buffer, the run (<< >> for none), the queue.       *)
PackNewEncoder == [literal |-> << >>, run |-> << >>, pending |-> << >>, finished |-> FALSE]

PackFlushLiteral(e) ==
    IF e.literal = << >> THEN e
    ELSE [e EXCEPT !.pending = @ \o <<Len(e.literal) - 1>> \o e.literal, !.literal = << >>]

(* The header of a run is -(count - 1), as a byte.                         *)
PackRunHeader(count) == (2 * Half - (count - 1)) % (2 * Half)

PackFlushRun(e) ==
    [e EXCEPT !.pending = @ \o <<PackRunHeader(e.run[2]), e.run[1]>>, !.run = << >>]

PackPushLiteral(e, b) ==
    LET longer == [e EXCEPT !.literal = Append(@, b)]
    IN IF Len(longer.literal) = Half THEN PackFlushLiteral(longer) ELSE longer

(* A run too short to replicate joins the literals.                        *)
PackDemote(e) ==
    LET pushed[n \in 0..MinRun] ==
            IF n = 0 THEN [e EXCEPT !.run = << >>] ELSE PackPushLiteral(pushed[n - 1], e.run[1])
    IN pushed[e.run[2]]

PackLiteralThenRun(e) == PackFlushRun(PackFlushLiteral(e))

PackFeed(e, b) ==
    CASE e.run = << >> -> [e EXCEPT !.run = <<b, 1>>]
      [] e.run # << >> /\ e.run[1] = b /\ e.run[2] < Half -> [e EXCEPT !.run[2] = @ + 1]
      [] e.run # << >> /\ e.run[1] = b /\ e.run[2] = Half ->
           [PackLiteralThenRun(e) EXCEPT !.run = <<b, 1>>]
      [] e.run # << >> /\ e.run[1] # b /\ e.run[2] >= MinRun ->
           [PackLiteralThenRun(e) EXCEPT !.run = <<b, 1>>]
      [] OTHER -> [PackDemote(e) EXCEPT !.run = <<b, 1>>]

PackFinalize(e) ==
    CASE e.run = << >> -> PackFlushLiteral(e)
      [] e.run # << >> /\ e.run[2] >= MinRun -> PackLiteralThenRun(e)
      [] OTHER -> PackFlushLiteral(PackDemote(e))

PackEncode == QueueEncode(PackFeed(state, NextByte))

-----------------------------------------------------------------------------
PackHeader == [at |-> "Header"]
PackLiteral(n) == IF n = 0 THEN PackHeader ELSE [at |-> "Literal", count |-> n]
PackNeedRunByte(n) == [at |-> "NeedRunByte", count |-> n]
PackRun(b, n) == IF n = 0 THEN PackHeader ELSE [at |-> "Run", byte |-> b, count |-> n]

PackNewDecoder == PackHeader

PackEncodeFinish == QueueFinish(PackFinalize(state), PackNewDecoder)

(* The header byte read as signed: half of them are negative, the lowest   *)
(* one is a no-op.                                                         *)
PackAfterHeader(h) ==
    CASE h < Half -> PackLiteral(h + 1)
      [] h = Half -> PackHeader
      [] h > Half -> PackNeedRunByte(2 * Half - h + 1)

PackReplicateRun ==
    /\ state.at = "Run"
    /\ \/ NoRoom /\ Return(state, << >>)
       \/ ~NoRoom /\ EmitCopies(state.byte, state.count,
                                 [k \in 0..state.count |-> PackRun(state.byte, k)])

PackCopyLiteral ==
    /\ state.at = "Literal"
    /\ \/ (NoInput \/ NoRoom) /\ Return(state, << >>)
       \/ ~NoInput /\ ~NoRoom /\ Turn(PackLiteral(state.count - 1), 1, <<NextByte>>)

PackDecode ==
    \/ PackReplicateRun
    \/ PackCopyLiteral
    \/ state.at \in {"Header", "NeedRunByte"} /\ NoInput /\ Return(state, << >>)
    \/ state.at = "Header" /\ ~NoInput /\ Turn(PackAfterHeader(NextByte), 1, << >>)
    \/ state.at = "NeedRunByte" /\ ~NoInput /\ Turn(PackRun(NextByte, state.count), 1, << >>)

PackDecodeFinish ==
    \/ PackReplicateRun
    \/ state.at = "Header" /\ DecodeDone
    \/ state.at \in {"Literal", "NeedRunByte"} /\ Fail

PackOwes == state.at = "Run"

(* What the format's description says a stream stands for.                 *)
PackMeaning(w) ==
    LET from[i \in 1..(Len(w) + 1)] ==
            IF i > Len(w) THEN [bytes |-> << >>, ok |-> TRUE]
            ELSE IF w[i] < Half
            THEN LET last == i + w[i] + 1 IN
                 IF last > Len(w) THEN [bytes |-> SubSeq(w, i + 1, Len(w)), ok |-> FALSE]
                 ELSE [from[last + 1] EXCEPT !.bytes = SubSeq(w, i + 1, last) \o @]
            ELSE IF w[i] = Half THEN from[i + 1]
            ELSE IF i = Len(w) THEN [bytes |-> << >>, ok |-> FALSE]
            ELSE [from[i + 2] EXCEPT !.bytes = Copies(w[i + 1], 2 * Half - w[i] + 1) \o @]
    IN from[1]

-----------------------------------------------------------------------------
(* rle90.rs: a byte followed by [0x90][n] stands for n copies of it; the   *)
(* marker itself is escaped as [0x90][0].  The decoder repeats the last    *)
(* byte it handed over.                                                    *)

MarkerNewEncoder == [run |-> << >>, pending |-> << >>, finished |-> FALSE]

MarkerEscapedLiteral(b) == IF b = Flag THEN <<b, 0>> ELSE <<b>>

MarkerLiterals(b, n) ==
    [i \in 1..(n * Len(MarkerEscapedLiteral(b))) |->
        MarkerEscapedLiteral(b)[((i - 1) % Len(MarkerEscapedLiteral(b))) + 1]]

(* Runs written out byte by byte.                                          *)
MarkerUncoded(b, n) == b = Flag \/ n < MinRun90

(* A run is cut at MAX_RUN when it is counted, so one [flag][n] is enough. *)
MarkerFlushRun(e) ==
    IF e.run = << >> THEN e
    ELSE [e EXCEPT !.run = << >>,
                   !.pending = @ \o (IF MarkerUncoded(e.run[1], e.run[2])
                                     THEN MarkerLiterals(e.run[1], e.run[2])
                                     ELSE <<e.run[1], Flag, e.run[2]>>)]

MarkerFeed(e, b) ==
    IF e.run # << >> /\ e.run[1] = b /\ e.run[2] < MaxRun90
    THEN [e EXCEPT !.run[2] = @ + 1]
    ELSE [MarkerFlushRun(e) EXCEPT !.run = <<b, 1>>]

MarkerEncode == QueueEncode(MarkerFeed(state, NextByte))

-----------------------------------------------------------------------------
(* The decoder remembers the last byte handed over, << >> at the start.    *)
MarkerNormal(last) == [at |-> "Normal", last |-> last]
MarkerAwaitCount(last) == [at |-> "AwaitCount", last |-> last]
MarkerRun(b, n) ==
    IF n = 0 THEN MarkerNormal(<<b>>) ELSE [at |-> "Run", byte |-> b, count |-> n]

MarkerNewDecoder == MarkerNormal(<< >>)

MarkerEncodeFinish == QueueFinish(MarkerFlushRun(state), MarkerNewDecoder)

MarkerEmitRun ==
    /\ state.at = "Run"
    /\ \/ NoRoom /\ Return(state, << >>)
       \/ ~NoRoom /\ EmitCopies(state.byte, state.count,
                                 [k \in 0..state.count |-> MarkerRun(state.byte, k)])

(* A literal waits for room before it is consumed; the marker does not.    *)
MarkerPlain ==
    /\ state.at = "Normal" /\ ~NoInput /\ NextByte # Flag
    /\ \/ NoRoom /\ Return(state, << >>)
       \/ ~NoRoom /\ Turn(MarkerNormal(<<NextByte>>), 1, <<NextByte>>)

(* An escaped marker with no room becomes a run of one.                    *)
MarkerStashed == 1

MarkerEscapedMarker ==
    /\ state.at = "AwaitCount" /\ ~NoInput /\ NextByte = 0
    /\ \/ NoRoom /\ Turn(MarkerRun(Flag, MarkerStashed), 1, << >>)
       \/ ~NoRoom /\ Turn(MarkerRun(Flag, 0), 1, <<Flag>>)

MarkerCount ==
    /\ state.at = "AwaitCount" /\ ~NoInput /\ NextByte # 0
    /\ \/ state.last = << >> /\ Fail
       \/ state.last # << >> /\ Turn(MarkerRun(state.last[1], NextByte - 1), 1, << >>)

MarkerDecode ==
    \/ MarkerEmitRun
    \/ MarkerPlain
    \/ state.at \in {"Normal", "AwaitCount"} /\ NoInput /\ Return(state, << >>)
    \/ state.at = "Normal" /\ ~NoInput /\ NextByte = Flag /\ Turn(MarkerAwaitCount(state.last), 1, << >>)
    \/ MarkerEscapedMarker
    \/ MarkerCount

MarkerDecodeFinish ==
    \/ MarkerEmitRun
    \/ state.at = "Normal" /\ DecodeDone
    \/ state.at = "AwaitCount" /\ Fail

MarkerOwes == state.at = "Run"

(* What the format's description says a stream stands for.                 *)
MarkerMeaning(w) ==
    LET from[i \in 1..(Len(w) + 1), last \in {<< >>} \cup {<<w[j]>> : j \in DOMAIN w}] ==
            IF i > Len(w) THEN [bytes |-> << >>, ok |-> TRUE]
            ELSE IF w[i] # Flag THEN [from[i + 1, <<w[i]>>] EXCEPT !.bytes = <<w[i]>> \o @]
            ELSE IF i = Len(w) THEN [bytes |-> << >>, ok |-> FALSE]
            ELSE IF w[i + 1] = 0 THEN [from[i + 2, <<Flag>>] EXCEPT !.bytes = <<Flag>> \o @]
            ELSE IF last = << >> THEN [bytes |-> << >>, ok |-> FALSE]
            ELSE [from[i + 2, last] EXCEPT !.bytes = Copies(last[1], w[i + 1] - 1) \o @]
    IN from[1, << >>]
=============================================================================
