------------------------ MODULE DecoderAdaptersProof ------------------------
(***************************************************************************)
(* Proofs about DecoderAdapters, for every stream, expansion, hold and     *)
(* buffer size: no adapter reports an end that is none or refuses a whole  *)
(* stream, and each is a pipe of the plaintext.                            *)
(***************************************************************************)
EXTENDS DecoderAdapters, DecoderCodecProof

(* The first m bytes of the plaintext.                                     *)
Prefix(m) == BytesFrom(0, m)

(* The first m bytes of the plaintext, of which those of `held` have still *)
(* to follow those that were given.                                        *)
Relayed(given, held, m) ==
    /\ Len(given) \in Nat /\ Len(held) \in Nat /\ Len(given) + Len(held) = m
    /\ given = Prefix(Len(given))
    /\ held = BytesFrom(Len(given), Len(held))

(* A step of Pipe, or a stutter of it.                                     *)
PipeStep(t, t2, given, given2, c, c2) ==
    \/ t2 = t /\ given2 = given /\ c2 = c
    \/ /\ ~c /\ t2 \in Nat /\ t2 >= t
       /\ \E n \in 0..(t2 - Len(given)) : given2 = given \o [i \in 1..n |-> Len(given) + i]
       /\ c2 => Len(given2) = t2

(* The blocking writer: whatever the decoder took the caller was told of,  *)
(* or is in the call in progress; a strict one owes no more than a finish  *)
(* can hand over.                                                          *)
WriterInv ==
    /\ Sound(dec) /\ Relayed(wire, staged, dec.emitted)
    /\ dec.strict => Expansion(dec.taken) <= dec.emitted + WriterHold
    /\ call \in W!CallState /\ call.consumed <= call.len
    /\ reported \in Nat
    /\ call.op # "write" => call.consumed = 0
    /\ ~broken => reported + call.consumed = dec.taken
    /\ call.op \in {"finish", "drop"} => ~owned
    /\ call.status = "StreamEnd" => dec.ended /\ ~broken
    /\ last.op = "finish" /\ last.ok =>
           call.op = "none" /\ ~owned /\ staged = << >> /\ dec.ended /\ ~broken

AsyncCall == [op : A!Ops, len : Nat, at : {"decode", "finish", "end"}]

(* The tokio writer: a poll reports what it took at once, and finish is    *)
(* only called on a decoder that has nothing left of a whole stream.       *)
AsyncInv ==
    /\ Sound(dec) /\ Relayed(wire, out, dec.emitted)
    /\ call \in AsyncCall
    /\ reported = dec.taken
    /\ call.op = "write" => ~closing
    /\ call.op = "shutdown" => closing
    /\ call.op = "shutdown" /\ call.at = "finish" /\ dec.taken = StreamLen => dec.ended
    /\ call.op = "shutdown" /\ call.at = "end" => dec.ended
    /\ finished => closing /\ dec.ended /\ out = << >>
    /\ last.op = "shutdown" /\ last.how = "ready" => finished

(* The reader: what was pulled is with the decoder or in the buffer, and   *)
(* the round of a decoder with nothing to give is over.                    *)
ReaderInv ==
    /\ Sound(dec) /\ Relayed(got, << >>, dec.emitted)
    /\ size \in Nat /\ pulled \in 0..size /\ room \in Nat
    /\ in_filled \in Nat /\ in_consumed \in 0..in_filled
    /\ dec.taken + (in_filled - in_consumed) = pulled
    /\ inner_eof => pulled = size
    /\ finished \in BOOLEAN /\ (finished <=> dec.ended)
    /\ drained => /\ in_consumed = in_filled /\ dec.taken < StreamLen
                  /\ dec.eager => dec.emitted = Expansion(dec.taken)
    /\ last = "eof" => finished
    /\ last = "truncated" => size < StreamLen

(* The one-shot call: until it fails the Vec has all the decoder gave, and *)
(* finish is only called on a stream that is cut short.                    *)
VecInv ==
    /\ Sound(lim.dec) /\ lim \in [dec : DecState, limit : Nat, written : Nat]
    /\ size \in Nat /\ consumed \in 0..size /\ lim.dec.taken = consumed
    /\ phase \in {"decode", "finish", "ok", "err"}
    /\ phase # "err" =>
           /\ lim.written = lim.dec.emitted /\ Relayed(out, << >>, lim.dec.emitted)
           /\ phase = "ok" <=> lim.dec.ended
           /\ error = "none"
    /\ phase = "finish" => size < StreamLen
    /\ phase = "err" => size < StreamLen \/ error = "limit"
    /\ error = "limit" => Expansion(StreamLen) > lim.limit

IInv ==
    /\ adapter \in {"writer", "async_writer", "reader", "vec"}
    /\ adapter = "writer" => WriterInv
    /\ adapter = "async_writer" => AsyncInv
    /\ adapter = "reader" => ReaderInv
    /\ adapter = "vec" => VecInv

-----------------------------------------------------------------------------
(* The plaintext in pieces.                                                *)

LEMMA PrefixLength ==
    ASSUME NEW m \in Nat
    PROVE  Len(Prefix(m)) = m
BY DEF Prefix, BytesFrom

LEMMA NoBytes ==
    ASSUME NEW m \in Nat
    PROVE  BytesFrom(m, 0) = << >>
BY DEF BytesFrom

LEMMA Join ==
    ASSUME NEW a \in Nat, NEW m \in Nat
    PROVE  Prefix(a) \o BytesFrom(a, m) = Prefix(a + m)
BY DEF Prefix, BytesFrom

LEMMA Split ==
    ASSUME NEW a \in Nat, NEW m \in Nat, NEW n \in 0..m
    PROVE  /\ SubSeq(BytesFrom(a, m), 1, n) = BytesFrom(a, n)
           /\ SubSeq(BytesFrom(a, m), n + 1, m) = BytesFrom(a + n, m - n)
<1>1. SubSeq(BytesFrom(a, m), 1, n) = BytesFrom(a, n)
  BY DEF BytesFrom
<1>2. SubSeq(BytesFrom(a, m), n + 1, m) = BytesFrom(a + n, m - n)
  BY DEF BytesFrom
<1> QED BY <1>1, <1>2

LEMMA RelayedStart == Relayed(<< >>, << >>, 0)
BY DEF Relayed, Prefix, BytesFrom

(* With nothing held, what the codec gives next is what is held.           *)
LEMMA RelayedMore ==
    ASSUME NEW given, NEW m \in Nat, Relayed(given, << >>, m),
           NEW w \in Nat, NEW new, new = BytesFrom(m, w)
    PROVE  /\ Relayed(given, new, m + w)
           /\ Relayed(given \o new, << >>, m + w)
           /\ given \o new = given \o [i \in 1..w |-> Len(given) + i]
           /\ Len(given) = m /\ Len(given \o new) = m + w
<1>0. m \in Nat /\ w \in Nat /\ m + w \in Nat /\ new = BytesFrom(m, w)
  OBVIOUS
<1>1. Len(given) = m /\ given = Prefix(m)
  BY DEF Relayed
<1>2. Len(new) = w
  BY ONLY <1>0, BytesFromLength
<1>3. Prefix(m) \o BytesFrom(m, w) = Prefix(m + w) /\ Len(Prefix(m + w)) = m + w
  BY ONLY <1>0, Join, PrefixLength
<1>4. given \o new = Prefix(m + w)
  BY <1>0, <1>1, <1>3, Zenon
<1>5. new = [i \in 1..w |-> Len(given) + i]
  BY <1>1 DEF BytesFrom
<1>6. Relayed(given, new, m + w)
  BY <1>0, <1>1, <1>2 DEF Relayed
<1>7. BytesFrom(m + w, 0) = << >>
  BY ONLY <1>0, NoBytes
<1>8. Relayed(given \o new, << >>, m + w)
  BY ONLY <1>0, <1>3, <1>4, <1>7 DEF Relayed
<1> QED BY <1>1, <1>3, <1>4, <1>5, <1>6, <1>8

(* What the inner writer takes of what is held moves over.                 *)
LEMMA RelayedOn ==
    ASSUME NEW given, NEW held, NEW m \in Nat, Relayed(given, held, m),
           NEW n \in 1..Len(held)
    PROVE  /\ Relayed(given \o SubSeq(held, 1, n), SubSeq(held, n + 1, Len(held)), m)
           /\ given \o SubSeq(held, 1, n) = given \o [i \in 1..n |-> Len(given) + i]
           /\ Len(given \o SubSeq(held, 1, n)) = Len(given) + n
           /\ SubSeq(held, n + 1, Len(held)) = << >> <=> Len(given) + n = m
<1> DEFINE g == Len(given)
           h == Len(held)
           rest == h - n
<1>1. /\ g \in Nat /\ h \in Nat /\ n \in Nat /\ n \in 0..h /\ rest \in Nat /\ g + h = m
      /\ given = Prefix(g) /\ held = BytesFrom(g, h) /\ g + n \in Nat /\ (g + n) + rest = m
  BY DEF Relayed
<1>2. SubSeq(BytesFrom(g, h), 1, n) = BytesFrom(g, n)
      /\ SubSeq(BytesFrom(g, h), n + 1, h) = BytesFrom(g + n, rest)
  BY ONLY <1>1, Split
<1> HIDE DEF g, h, rest
<1>3. Prefix(g) \o BytesFrom(g, n) = Prefix(g + n) /\ Len(Prefix(g + n)) = g + n
  BY ONLY <1>1, Join, PrefixLength
<1>4. Len(BytesFrom(g + n, rest)) = rest /\ (BytesFrom(g + n, rest) = << >> <=> rest = 0)
  BY ONLY <1>1, BytesFromLength
<1>5. BytesFrom(g, n) = [i \in 1..n |-> g + i]
  BY DEF BytesFrom
<1>6. /\ given \o SubSeq(held, 1, n) = Prefix(g + n)
      /\ SubSeq(held, n + 1, h) = BytesFrom(g + n, rest)
      /\ SubSeq(held, 1, n) = [i \in 1..n |-> g + i]
  BY ONLY <1>1, <1>2, <1>3, <1>5, Zenon
<1>7. Relayed(given \o SubSeq(held, 1, n), SubSeq(held, n + 1, h), m)
  BY ONLY <1>1, <1>3, <1>4, <1>6 DEF Relayed
<1>8. SubSeq(held, n + 1, h) = << >> <=> g + n = m
  <2>1. rest = 0 <=> g + n = m
    BY ONLY <1>1
  <2> QED BY ONLY <2>1, <1>4, <1>6, Zenon
<1> QED BY <1>3, <1>6, <1>7, <1>8 DEF g, h

(* When nothing is held, the inner writer has all that was given.          *)
LEMMA RelayedAll ==
    ASSUME NEW given, NEW m \in Nat, Relayed(given, << >>, m)
    PROVE  given = BytesFrom(0, m) /\ Len(given) = m
BY DEF Relayed, Prefix

-----------------------------------------------------------------------------
(* The decoder each adapter drives is the one of DecoderCodec.             *)

LEMMA SameDecoder ==
    ASSUME NEW d, NEW n, NEW cap
    PROVE  /\ A!DecodeOutcomes(d, n, cap) = DecodeOutcomes(d, n, cap)
           /\ R!DecodeOutcomes(d, n, cap) = DecodeOutcomes(d, n, cap)
           /\ V!DecodeOutcomes(d, n, cap) = DecodeOutcomes(d, n, cap)
<1>1. A!DecodeOutcomes(d, n, cap) = DecodeOutcomes(d, n, cap)
  BY DEF A!DecodeOutcomes, A!Complete, A!Expansion, A!BytesFrom, A!Bounded, A!DecodeStatus,
         DecodeOutcomes, Complete, Expansion, BytesFrom, Bounded, DecodeStatus
<1>2. R!DecodeOutcomes(d, n, cap) = DecodeOutcomes(d, n, cap)
  BY DEF R!DecodeOutcomes, R!Complete, R!Expansion, R!BytesFrom, R!Bounded, R!DecodeStatus,
         DecodeOutcomes, Complete, Expansion, BytesFrom, Bounded, DecodeStatus
<1>3. V!DecodeOutcomes(d, n, cap) = DecodeOutcomes(d, n, cap)
  BY DEF V!DecodeOutcomes, V!Complete, V!Expansion, V!BytesFrom, V!Bounded, V!DecodeStatus,
         DecodeOutcomes, Complete, Expansion, BytesFrom, Bounded, DecodeStatus
<1> QED BY <1>1, <1>2, <1>3

LEMMA SameFinish ==
    ASSUME NEW d, NEW cap
    PROVE  /\ W!FinishOutcomes(d, cap) = FinishOutcomes(d, cap)
           /\ A!FinishOutcomes(d, cap) = FinishOutcomes(d, cap)
           /\ R!FinishOutcomes(d, cap) = FinishOutcomes(d, cap)
           /\ V!FinishOutcomes(d, cap) = FinishOutcomes(d, cap)
BY DEF W!FinishOutcomes, W!Complete, W!Expansion, W!BytesFrom, W!Headway,
       A!FinishOutcomes, A!Complete, A!Expansion, A!BytesFrom, A!Headway,
       R!FinishOutcomes, R!Complete, R!Expansion, R!BytesFrom, R!Headway,
       V!FinishOutcomes, V!Complete, V!Expansion, V!BytesFrom, V!Headway,
       FinishOutcomes, Complete, Expansion, BytesFrom, Headway

LEMMA SameStart ==
    /\ W!NewDecoders = NewDecoders /\ A!NewDecoders = NewDecoders
    /\ R!NewDecoders = NewDecoders /\ V!NewDecoders = NewDecoders
BY DEF W!NewDecoders, A!NewDecoders, R!NewDecoders, V!NewDecoders, NewDecoders

(* Those given to the blocking writer owe no more than WriterHold.         *)
LEMMA WriterDecoder ==
    ASSUME NEW d, Sound(d), NEW n \in Nat, NEW cap \in Nat, NEW r \in W!DecodeOutcomes(d, n, cap)
    PROVE  /\ r \in CallOutcomes(d, n, cap)
           /\ ~d.ended /\ d.strict => Expansion(r.dec.taken) - r.dec.emitted <= WriterHold
<1>1. r \in CallOutcomes(d, n, cap)
  BY DEF W!DecodeOutcomes, W!Complete, W!Expansion, W!BytesFrom, W!DecodeStatus,
         CallOutcomes, Complete, Expansion, BytesFrom, DecodeStatus
<1>2. ASSUME ~d.ended PROVE d.strict => Expansion(r.dec.taken) - r.dec.emitted <= WriterHold
  <2>1. PICK k \in 0..n, w \in 0..cap :
          /\ r = [dec |-> [d EXCEPT !.taken = @ + k, !.emitted = @ + w,
                                    !.ended = W!Complete(d.taken + k, d.emitted + w)],
                  consumed |-> k, out |-> W!BytesFrom(d.emitted, w),
                  status |-> W!DecodeStatus(W!Complete(d.taken + k, d.emitted + w), k, n, w, cap)]
          /\ W!Bounded(d, W!Expansion(d.taken + k) - (d.emitted + w))
    BY <1>2 DEF W!DecodeOutcomes
  <2>2. d.strict => W!Expansion(d.taken + k) - (d.emitted + w) <= WriterHold
    BY <2>1 DEF W!Bounded
  <2>3. r.dec.taken = d.taken + k /\ r.dec.emitted = d.emitted + w
    BY <2>1, Zenon DEF Sound, DecState
  <2>4. W!Expansion(d.taken + k) = Expansion(d.taken + k)
    BY DEF W!Expansion, Expansion
  <2> QED BY <2>2, <2>3, <2>4, Zenon
<1> QED BY <1>1, <1>2

-----------------------------------------------------------------------------
(* The steps of the pipe.                                                  *)

LEMMA SoundTypes ==
    ASSUME NEW d, Sound(d)
    PROVE  /\ d \in DecState /\ d.taken \in Nat /\ d.emitted \in Nat /\ d.ended \in BOOLEAN
           /\ Expansion(d.taken) \in Nat /\ d.emitted <= Expansion(d.taken)
           /\ d.taken <= StreamLen
           /\ d.ended => d.taken = StreamLen /\ d.emitted = Expansion(d.taken)
<1>1. d \in DecState /\ d.taken \in Nat /\ d.emitted \in Nat /\ d.ended \in BOOLEAN
  BY DEF Sound, DecState
<1>2. Expansion(d.taken) \in Nat
  BY <1>1, ExpansionType
<1>3. d.emitted <= Expansion(d.taken) /\ d.taken <= StreamLen
  BY DEF Sound
<1>4. d.ended => d.taken = StreamLen /\ d.emitted = Expansion(d.taken)
  BY DEF Sound, Complete
<1> QED BY <1>1, <1>2, <1>3, <1>4

(* The inner writer takes some of what is staged.                          *)
LEMMA AcceptedStep ==
    ASSUME NEW d, Sound(d), NEW given, NEW held, Relayed(given, held, d.emitted),
           NEW n \in 1..Len(held)
    PROVE  /\ Relayed(given \o SubSeq(held, 1, n), SubSeq(held, n + 1, Len(held)), d.emitted)
           /\ PipeStep(Expansion(d.taken), Expansion(d.taken), given, given \o SubSeq(held, 1, n),
                       d.ended /\ held = << >>,
                       d.ended /\ SubSeq(held, n + 1, Len(held)) = << >>)
<1>1. /\ d.emitted \in Nat /\ Expansion(d.taken) \in Nat /\ d.emitted <= Expansion(d.taken)
      /\ d.ended => d.emitted = Expansion(d.taken)
  BY SoundTypes
<1>2. /\ Relayed(given \o SubSeq(held, 1, n), SubSeq(held, n + 1, Len(held)), d.emitted)
      /\ given \o SubSeq(held, 1, n) = given \o [i \in 1..n |-> Len(given) + i]
      /\ Len(given \o SubSeq(held, 1, n)) = Len(given) + n
      /\ SubSeq(held, n + 1, Len(held)) = << >> <=> Len(given) + n = d.emitted
  <2>1. Relayed(given, held, d.emitted) /\ n \in 1..Len(held)
    OBVIOUS
  <2> QED BY ONLY <1>1, <2>1, RelayedOn
<1>3. Len(given) + Len(held) = d.emitted /\ Len(given) \in Nat /\ Len(held) \in Nat
  BY DEF Relayed
<1>4. n \in 0..(Expansion(d.taken) - Len(given)) /\ held # << >>
  BY <1>1, <1>3
<1>5. d.ended /\ SubSeq(held, n + 1, Len(held)) = << >>
          => Len(given \o SubSeq(held, 1, n)) = Expansion(d.taken)
  BY <1>1, <1>2
<1>6. \E i \in 0..(Expansion(d.taken) - Len(given)) :
        given \o SubSeq(held, 1, n) = given \o [j \in 1..i |-> Len(given) + j]
  BY <1>2, <1>4, Zenon
<1>7. ~(d.ended /\ held = << >>) /\ Expansion(d.taken) >= Expansion(d.taken)
  BY <1>1, <1>4
<1>8. PipeStep(Expansion(d.taken), Expansion(d.taken), given, given \o SubSeq(held, 1, n),
               d.ended /\ held = << >>, d.ended /\ SubSeq(held, n + 1, Len(held)) = << >>)
  BY <1>1, <1>5, <1>6, <1>7, Zenon DEF PipeStep
<1> QED BY <1>2, <1>8

(* Output is staged: nothing reaches the inner writer yet.                 *)
LEMMA StagedStep ==
    ASSUME NEW d, Sound(d), NEW e, Sound(e), d.taken <= e.taken,
           NEW given, Relayed(given, << >>, d.emitted),
           NEW new, Relayed(given, new, e.emitted),
           d.ended => e = d /\ new = << >>
    PROVE  PipeStep(Expansion(d.taken), Expansion(e.taken), given, given,
                    d.ended /\ << >> = << >>, e.ended /\ new = << >>)
<1>1. CASE d.ended
  BY <1>1 DEF PipeStep
<1>2. CASE ~d.ended
  <2>1. Expansion(e.taken) \in Nat /\ e.emitted <= Expansion(e.taken) /\ e.emitted \in Nat
        /\ d.taken \in Nat /\ e.taken \in Nat /\ d.emitted \in Nat
    BY SoundTypes
  <2>2. Expansion(e.taken) >= Expansion(d.taken) /\ Expansion(d.taken) \in Nat
    BY <2>1, ExpansionGrows, ExpansionType
  <2>3. Len(given) \in Nat /\ Len(new) \in Nat /\ Len(given) + Len(new) = e.emitted
        /\ given \in Seq(Nat)
    BY DEF Relayed, Prefix, BytesFrom
  <2>4. given = given \o [i \in 1..0 |-> Len(given) + i]
    BY <2>3
  <2>5. 0 \in 0..(Expansion(e.taken) - Len(given))
    BY <2>1, <2>3
  <2>6. e.ended /\ new = << >> => Len(given) = Expansion(e.taken)
    <3>1. SUFFICES ASSUME e.ended, new = << >> PROVE Len(given) = Expansion(e.taken)
      OBVIOUS
    <3>2. e.emitted = Expansion(e.taken) /\ Len(new) = 0
      BY <3>1, SoundTypes
    <3> QED BY <3>2, <2>1, <2>3
  <2> QED BY <1>2, <2>1, <2>2, <2>4, <2>5, <2>6 DEF PipeStep
<1> QED BY <1>1, <1>2

(* Output is handed over at once.                                          *)
LEMMA HandedStep ==
    ASSUME NEW d, Sound(d), NEW e, Sound(e), d.taken <= e.taken,
           NEW given, Relayed(given, << >>, d.emitted),
           NEW new, new = BytesFrom(d.emitted, Len(new)), Len(new) \in Nat,
           e.emitted = d.emitted + Len(new), ~d.ended
    PROVE  PipeStep(Expansion(d.taken), Expansion(e.taken), given, given \o new,
                    d.ended, e.ended)
<1>1. Expansion(e.taken) \in Nat /\ e.emitted <= Expansion(e.taken) /\ e.emitted \in Nat
      /\ d.taken \in Nat /\ e.taken \in Nat /\ d.emitted \in Nat
  BY SoundTypes
<1>2. Expansion(e.taken) >= Expansion(d.taken) /\ Expansion(d.taken) \in Nat
  BY <1>1, ExpansionGrows, ExpansionType
<1>3. /\ given \o new = given \o [i \in 1..Len(new) |-> Len(given) + i]
      /\ Len(given) = d.emitted /\ Len(given \o new) = d.emitted + Len(new)
  <2>1. PICK w \in Nat : w = Len(new)
    OBVIOUS
  <2>2. /\ d.emitted \in Nat /\ w \in Nat /\ Relayed(given, << >>, d.emitted)
        /\ new = BytesFrom(d.emitted, w)
    BY <1>1, <2>1
  <2>3. Len(given) = d.emitted
    BY <2>2 DEF Relayed
  <2>4. Relayed(given \o new, << >>, d.emitted + w)
    BY ONLY <2>2, RelayedMore
  <2>5. Len(given \o new) = d.emitted + w
    BY <2>4 DEF Relayed
  <2>6. new = [i \in 1..Len(new) |-> Len(given) + i]
    BY <2>1, <2>2, <2>3, Zenon DEF BytesFrom
  <2> QED BY <2>1, <2>3, <2>5, <2>6
<1>4. Len(new) \in 0..(Expansion(e.taken) - Len(given))
  BY <1>1, <1>2, <1>3
<1>5. e.ended => Len(given \o new) = Expansion(e.taken)
  <2>1. e.ended => e.emitted = Expansion(e.taken)
    BY SoundTypes
  <2> QED BY <2>1, <1>3
<1> QED BY <1>1, <1>2, <1>3, <1>4, <1>5 DEF PipeStep

-----------------------------------------------------------------------------
(* The blocking writer.                                                    *)

WriterClosed == dec.ended /\ staged = << >>

WriterPipe ==
    PipeStep(Expansion(dec.taken), Expansion(dec.taken)', wire, wire', WriterClosed, WriterClosed')

LEMMA WriterTypes ==
    ASSUME WriterInv
    PROVE  /\ dec \in DecState /\ dec.taken \in Nat /\ dec.emitted \in Nat
           /\ Expansion(dec.taken) \in Nat /\ dec.emitted <= Expansion(dec.taken)
           /\ call.consumed \in Nat /\ call.len \in Nat /\ SCRATCH \in Nat /\ SCRATCH > 0
           /\ call.op \in W!Ops /\ WriterHold <= SCRATCH
<1>1. dec \in DecState /\ dec.taken \in Nat /\ dec.emitted \in Nat
      /\ dec.emitted <= Expansion(dec.taken)
  BY DEF WriterInv, Sound, DecState
<1>2. Expansion(dec.taken) \in Nat
  BY <1>1, ExpansionType
<1>3. call.consumed \in Nat /\ call.len \in Nat /\ call.op \in W!Ops
  BY DEF WriterInv, W!CallState
<1> QED BY <1>1, <1>2, <1>3, AdaptersAssumption

LEMMA WriterInit ==
    ASSUME W!Init
    PROVE  WriterInv /\ wire = << >> /\ dec.taken = 0 /\ ~dec.ended
<1>1. Sound(dec) /\ dec.taken = 0 /\ dec.emitted = 0 /\ ~dec.ended
  BY SameStart, NewDecoderSound DEF W!Init
<1>2. Expansion(0) = 0
  <2>1. \A i \in Nat : i * 0 = 0
    OBVIOUS
  <2> QED BY <2>1, StreamAssumption DEF Expansion
<1>3. call = W!Idle /\ reported = 0 /\ last.op = "none"
  BY DEF W!Init
<1>4. call \in W!CallState /\ call.consumed = 0 /\ call.len = 0 /\ call.op = "none"
      /\ call.status = "none"
  BY <1>3 DEF W!Idle, W!CallState, W!Ops
<1>5. WriterHold >= 0
  BY AdaptersAssumption
<1>6. Relayed(wire, staged, dec.emitted)
  BY <1>1, RelayedStart, Zenon DEF W!Init
<1>7. dec.strict => Expansion(dec.taken) <= dec.emitted + WriterHold
  BY <1>1, <1>2, <1>5, AdaptersAssumption
<1>8. WriterInv
  BY <1>1, <1>3, <1>4, <1>6, <1>7 DEF WriterInv
<1> QED BY <1>1, <1>8 DEF W!Init

LEMMA WriterBegins ==
    ASSUME WriterInv, NEW op \in W!Ops, NEW len \in Nat, W!Begin(op, len),
           owned' = owned \/ owned' = FALSE,
           op \in {"finish", "drop"} => ~owned'
    PROVE  WriterInv' /\ WriterPipe
<1>1. call' \in W!CallState /\ call'.op = op /\ call'.len = len /\ call'.consumed = 0
      /\ call'.status = "none"
  BY DEF W!Begin, W!Idle, W!CallState, W!Ops
<1>2. /\ call.op = "none" /\ last'.op = "none"
      /\ dec' = dec /\ staged' = staged /\ wire' = wire /\ reported' = reported
      /\ broken' = broken
  BY DEF W!Begin
<1>3. call.consumed = 0 /\ reported \in Nat
  BY <1>2 DEF WriterInv
<1>4. WriterInv'
  BY <1>1, <1>2, <1>3 DEF WriterInv
<1>5. WriterPipe
  BY <1>2 DEF WriterPipe, WriterClosed, PipeStep
<1> QED BY <1>4, <1>5

LEMMA WriterReturns ==
    ASSUME WriterInv, NEW ok \in BOOLEAN, W!Return(ok), UNCHANGED <<dec, staged, owned, wire>>,
           broken' = broken \/ broken' = TRUE,
           ~ok => call.consumed = 0 \/ broken',
           ok /\ call.op = "finish" => staged = << >> /\ dec.ended /\ ~broken'
    PROVE  WriterInv' /\ WriterPipe
<1>1. call' \in W!CallState /\ call'.len = 0 /\ call'.consumed = 0 /\ call'.status = "none"
      /\ call'.op = IF call.op = "finish" /\ ~ok THEN "drop" ELSE "none"
  BY DEF W!Return, W!Idle, W!CallState, W!Ops
<1>2. /\ last'.op = call.op /\ (last'.ok <=> ok)
      /\ reported' = IF call.op = "write" /\ ok THEN reported + call.consumed ELSE reported
  BY DEF W!Return
<1>3. reported \in Nat /\ call.consumed \in Nat /\ call.op \in W!Ops
  BY WriterTypes DEF WriterInv
<1>4. reported' \in Nat /\ (~broken' => reported' + call'.consumed = dec'.taken)
  BY <1>1, <1>2, <1>3 DEF WriterInv
<1>5. call'.op \in {"finish", "drop"} => ~owned'
  BY <1>1 DEF WriterInv
<1>6. last'.op = "finish" /\ last'.ok =>
         call'.op = "none" /\ ~owned' /\ staged' = << >> /\ dec'.ended /\ ~broken'
  BY <1>1, <1>2 DEF WriterInv
<1>7. WriterInv'
  BY <1>1, <1>4, <1>5, <1>6 DEF WriterInv
<1>8. WriterPipe
  BY DEF WriterPipe, WriterClosed, PipeStep
<1> QED BY <1>7, <1>8

LEMMA WriterAccepts ==
    ASSUME WriterInv, NEW n \in 1..Len(staged), W!InnerAccepts(n)
    PROVE  WriterInv' /\ WriterPipe
<1>1. /\ wire' = wire \o SubSeq(staged, 1, n) /\ staged' = SubSeq(staged, n + 1, Len(staged))
      /\ dec' = dec /\ owned' = owned /\ call' = call /\ reported' = reported
      /\ broken' = broken /\ last' = last /\ call.op # "none"
  BY DEF W!InnerAccepts, W!Draining, W!Unsent
<1>2. Sound(dec) /\ Relayed(wire, staged, dec.emitted) /\ n \in 1..Len(staged)
  BY DEF WriterInv
<1>3. /\ Relayed(wire \o SubSeq(staged, 1, n), SubSeq(staged, n + 1, Len(staged)), dec.emitted)
      /\ PipeStep(Expansion(dec.taken), Expansion(dec.taken), wire, wire \o SubSeq(staged, 1, n),
                  dec.ended /\ staged = << >>,
                  dec.ended /\ SubSeq(staged, n + 1, Len(staged)) = << >>)
  BY ONLY <1>2, AcceptedStep
<1>4. Relayed(wire', staged', dec'.emitted) /\ WriterPipe
  BY ONLY <1>1, <1>3, Zenon DEF WriterPipe, WriterClosed
<1>5. WriterInv'
  BY <1>1, <1>4 DEF WriterInv
<1> QED BY <1>4, <1>5

LEMMA WriterDecodes ==
    ASSUME WriterInv, W!Decode
    PROVE  WriterInv' /\ WriterPipe
<1> DEFINE n == call.len - call.consumed
<1>1. PICK r \in W!DecodeOutcomes(dec, n, SCRATCH) :
        /\ dec' = r.dec /\ staged' = r.out
        /\ call' = [call EXCEPT !.consumed = @ + r.consumed, !.status = r.status]
  BY DEF W!Decode, W!Remaining
<1>2. /\ call.op = "write" /\ staged = << >> /\ ~broken /\ call.consumed < call.len
      /\ owned' = owned /\ wire' = wire /\ reported' = reported /\ broken' = broken
      /\ last' = last
  BY DEF W!Decode, W!Drained, W!WriteMore
<1>3. n \in Nat /\ SCRATCH \in Nat /\ SCRATCH > 0 /\ Sound(dec)
  BY <1>2, WriterTypes DEF WriterInv
<1> HIDE DEF n
<1>4. r \in CallOutcomes(dec, n, SCRATCH)
      /\ (~dec.ended /\ dec.strict => Expansion(r.dec.taken) - r.dec.emitted <= WriterHold)
  BY <1>3, WriterDecoder
<1>5. /\ Sound(r.dec) /\ r.dec.strict = dec.strict
      /\ r.consumed \in 0..n /\ r.out = BytesFrom(dec.emitted, Len(r.out)) /\ Len(r.out) \in Nat
      /\ r.dec.taken = dec.taken + r.consumed
      /\ r.dec.emitted = dec.emitted + Len(r.out)
      /\ r.status = "StreamEnd" <=> r.dec.ended
      /\ r.status \in Status
      /\ dec.ended => r.dec = dec /\ r.out = << >> /\ r.consumed = 0
  BY ONLY <1>3, <1>4, CallOutcome
<1>6. /\ dec.taken \in Nat /\ dec.emitted \in Nat /\ dec'.taken \in Nat /\ dec'.emitted \in Nat
      /\ Expansion(dec.taken) \in Nat /\ Expansion(dec'.taken) \in Nat
      /\ dec'.emitted <= Expansion(dec'.taken)
  BY <1>1, <1>5, WriterTypes, ExpansionType DEF Sound, DecState
<1>7. dec'.strict => Expansion(dec'.taken) <= dec'.emitted + WriterHold
  <2>1. CASE dec.ended
    BY <2>1, <1>1, <1>5 DEF WriterInv
  <2>2. CASE ~dec.ended
    <3>1. dec'.strict => Expansion(dec'.taken) - dec'.emitted <= WriterHold
      BY <2>2, <1>1, <1>4, <1>5
    <3> QED BY <3>1, <1>6, AdaptersAssumption
  <2> QED BY <2>1, <2>2
<1>8. /\ Relayed(wire, r.out, dec.emitted + Len(r.out))
      /\ Len(wire) = dec.emitted
  <2>1. Relayed(wire, << >>, dec.emitted)
    BY <1>2 DEF WriterInv
  <2> QED BY ONLY <2>1, <1>5, <1>6, RelayedMore
<1>9. /\ call' \in W!CallState /\ call'.op = "write" /\ call'.len = call.len
      /\ call'.consumed = call.consumed + r.consumed /\ call'.status = r.status
  <2>1. call.consumed + r.consumed \in Nat /\ r.status \in W!Status \cup {"none"}
    BY <1>5, WriterTypes DEF Status, W!Status
  <2>2. call' \in W!CallState
    BY <1>1, <2>1, Zenon DEF WriterInv, W!CallState
  <2> QED BY <1>1, <1>2, <2>2 DEF WriterInv, W!CallState
<1>10. call'.consumed <= call'.len
  BY <1>3, <1>5, <1>9, WriterTypes DEF n
<1>11. reported' + call'.consumed = dec'.taken
  BY <1>1, <1>2, <1>5, <1>6, <1>9, WriterTypes DEF WriterInv
<1>12. Relayed(wire', staged', dec'.emitted)
  BY <1>1, <1>2, <1>5, <1>8
<1>13. WriterInv'
  <2>1. call'.status = "StreamEnd" => dec'.ended /\ ~broken'
    BY <1>1, <1>2, <1>5, <1>9
  <2>2. ~(last'.op = "finish" /\ last'.ok)
    BY <1>2 DEF WriterInv
  <2>3. Sound(dec') /\ reported' \in Nat
    BY <1>1, <1>2, <1>5 DEF WriterInv
  <2> QED BY <1>7, <1>9, <1>10, <1>11, <1>12, <2>1, <2>2, <2>3 DEF WriterInv
<1>14. WriterPipe
  <2>1. Relayed(wire, << >>, dec.emitted) /\ Relayed(wire, r.out, r.dec.emitted)
    BY <1>2, <1>5, <1>8 DEF WriterInv
  <2>2. dec.taken <= r.dec.taken
    BY <1>5, <1>6
  <2>3. PipeStep(Expansion(dec.taken), Expansion(r.dec.taken), wire, wire,
                 dec.ended /\ << >> = << >>, r.dec.ended /\ r.out = << >>)
    BY ONLY <2>1, <2>2, <1>3, <1>5, StagedStep
  <2> QED BY <2>3, <1>1, <1>2 DEF WriterPipe, WriterClosed
<1> QED BY <1>13, <1>14

(* A whole stream's decoder can hand over all it owes, or go on to; one    *)
(* that is refused has not been given the whole stream.                    *)
LEMMA WriterFinishes ==
    ASSUME WriterInv, W!Finish
    PROVE  WriterInv' /\ WriterPipe /\ (dec.taken = StreamLen => ~broken')
<1>1. PICK r \in W!FinishOutcomes(dec, SCRATCH) :
         IF r.ok
         THEN /\ dec' = r.dec
              /\ staged' = r.out
              /\ call' = [call EXCEPT !.status = r.status]
              /\ UNCHANGED <<reported, broken, last>>
         ELSE /\ broken' = TRUE
              /\ W!Return(FALSE)
              /\ UNCHANGED <<dec, staged>>
  BY DEF W!Finish
<1>2. /\ call.op \in {"finish", "drop"} /\ staged = << >> /\ ~broken
      /\ owned' = owned /\ wire' = wire
  BY DEF W!Finish, W!Finishing, W!Drained
<1>3. SCRATCH \in Nat /\ SCRATCH > 0 /\ Sound(dec) /\ r \in FinishOutcomes(dec, SCRATCH)
  BY WriterTypes, SameFinish DEF WriterInv
<1>4. /\ Sound(r.dec)
      /\ r.dec.taken = dec.taken /\ r.dec.strict = dec.strict
      /\ r.out = BytesFrom(dec.emitted, Len(r.out)) /\ Len(r.out) \in 0..SCRATCH
      /\ r.dec.emitted = dec.emitted + Len(r.out)
      /\ r.status = "StreamEnd" <=> r.dec.ended
      /\ r.status \in Status
      /\ r.ok <=> (r.dec.ended \/ (r.out # << >> /\ ~dec.strict))
      /\ dec.ended => r.dec = dec /\ r.out = << >>
      /\ Len(r.out) = SCRATCH \/ r.dec.emitted = Expansion(dec.taken)
  BY ONLY <1>3, FinishOutcome
<1>5. /\ dec.taken \in Nat /\ dec.emitted \in Nat /\ Expansion(dec.taken) \in Nat
      /\ r.dec.emitted \in Nat /\ Len(r.out) \in Nat
      /\ r.dec.emitted <= Expansion(dec.taken)
  BY <1>4, WriterTypes DEF Sound, DecState
<1>6. dec.taken = StreamLen => r.ok
  <2> SUFFICES ASSUME dec.taken = StreamLen, ~r.ok PROVE FALSE
    OBVIOUS
  <2>1. ~r.dec.ended
    BY <1>4
  <2>2. r.dec.emitted # Expansion(dec.taken)
    BY <2>1, <1>4 DEF Sound, Complete
  <2>3. Len(r.out) = SCRATCH /\ dec.emitted + SCRATCH < Expansion(dec.taken)
    BY <2>2, <1>3, <1>4, <1>5
  <2>4. r.out # << >>
    BY <2>3, <1>3
  <2>5. dec.strict
    BY <2>1, <2>4, <1>4
  <2>6. Expansion(dec.taken) <= dec.emitted + WriterHold
    BY <2>5 DEF WriterInv
  <2> QED BY <2>3, <2>6, <1>3, <1>5, AdaptersAssumption
<1>7. CASE r.ok
  <2>1. /\ dec' = r.dec /\ staged' = r.out /\ call' = [call EXCEPT !.status = r.status]
        /\ reported' = reported /\ broken' = broken /\ last' = last
    BY <1>1, <1>7
  <2>2. /\ call' \in W!CallState /\ call'.op = call.op /\ call'.len = call.len
        /\ call'.consumed = call.consumed /\ call'.status = r.status
    <3>1. r.status \in W!Status \cup {"none"}
      BY <1>4 DEF Status, W!Status
    <3>2. call' \in W!CallState
      BY <2>1, <3>1, Zenon DEF WriterInv, W!CallState
    <3> QED BY <2>1, <3>2 DEF WriterInv, W!CallState
  <2>3. Relayed(wire, r.out, dec.emitted + Len(r.out)) /\ Len(wire) = dec.emitted
    <3>1. Relayed(wire, << >>, dec.emitted)
      BY <1>2 DEF WriterInv
    <3> QED BY ONLY <3>1, <1>4, <1>5, RelayedMore
  <2>4. dec'.strict => Expansion(dec'.taken) <= dec'.emitted + WriterHold
    <3>1. dec.strict => Expansion(dec.taken) <= dec.emitted + WriterHold
      BY DEF WriterInv
    <3>2. (dec'.strict <=> dec.strict) /\ dec'.taken = dec.taken
          /\ dec'.emitted = dec.emitted + Len(r.out)
      BY <2>1, <1>4
    <3>3. dec.emitted + WriterHold <= (dec.emitted + Len(r.out)) + WriterHold
      BY <1>5, AdaptersAssumption
    <3> QED BY <3>1, <3>2, <3>3, <1>5, AdaptersAssumption
  <2>5. Relayed(wire', staged', dec'.emitted)
    BY <1>2, <1>4, <2>1, <2>3
  <2>6. WriterInv'
    <3>1. call'.status = "StreamEnd" => dec'.ended /\ ~broken'
      BY <1>2, <1>4, <2>1, <2>2
    <3>2. ~(last'.op = "finish" /\ last'.ok)
      BY <1>2, <2>1 DEF WriterInv
    <3>3. ~broken' => reported' + call'.consumed = dec'.taken
      BY <1>4, <2>1, <2>2 DEF WriterInv
    <3>4. Sound(dec') /\ reported' \in Nat /\ call'.consumed <= call'.len
          /\ (call'.op # "write" => call'.consumed = 0)
          /\ (call'.op \in {"finish", "drop"} => ~owned')
      BY <1>2, <1>4, <2>1, <2>2 DEF WriterInv
    <3> QED BY <2>2, <2>4, <2>5, <3>1, <3>2, <3>3, <3>4 DEF WriterInv
  <2>7. WriterPipe
    <3>1. Relayed(wire, << >>, dec.emitted) /\ Relayed(wire, r.out, r.dec.emitted)
      BY <1>2, <1>4, <2>3 DEF WriterInv
    <3>2. dec.taken <= r.dec.taken
      BY <1>4, <1>5
    <3>3. PipeStep(Expansion(dec.taken), Expansion(r.dec.taken), wire, wire,
                   dec.ended /\ << >> = << >>, r.dec.ended /\ r.out = << >>)
      BY ONLY <3>1, <3>2, <1>3, <1>4, StagedStep
    <3> QED BY <3>3, <1>2, <2>1 DEF WriterPipe, WriterClosed
  <2> QED BY <1>2, <2>1, <2>6, <2>7
<1>8. CASE ~r.ok
  <2>1. broken' = TRUE /\ W!Return(FALSE) /\ UNCHANGED <<dec, staged, owned, wire>>
    BY <1>1, <1>2, <1>8
  <2>2. WriterInv' /\ WriterPipe
    BY <2>1, WriterReturns
  <2> QED BY <2>2, <1>6, <1>8
<1> QED BY <1>7, <1>8

LEMMA WriterStep ==
    ASSUME WriterInv, W!Next
    PROVE  WriterInv' /\ WriterPipe
<1>1. CASE W!Caller
  <2>1. ASSUME NEW n \in 0..supply, W!CallWrite(n) PROVE WriterInv' /\ WriterPipe
    <3>1. W!Begin("write", n) /\ owned' = owned /\ n \in Nat /\ "write" \in W!Ops
      BY <2>1 DEF W!CallWrite, W!Ops
    <3> QED BY <3>1, WriterBegins
  <2>2. ASSUME W!CallFlush PROVE WriterInv' /\ WriterPipe
    <3>1. W!Begin("flush", 0) /\ owned' = owned /\ "flush" \in W!Ops
      BY <2>2 DEF W!CallFlush, W!Ops
    <3> QED BY <3>1, WriterBegins
  <2>3. ASSUME W!CallFinish PROVE WriterInv' /\ WriterPipe
    <3>1. W!Begin("finish", 0) /\ owned' = FALSE /\ "finish" \in W!Ops
      BY <2>3 DEF W!CallFinish, W!Ops
    <3> QED BY <3>1, WriterBegins
  <2>4. ASSUME W!CallDrop PROVE WriterInv' /\ WriterPipe
    <3>1. W!Begin("drop", 0) /\ owned' = FALSE /\ "drop" \in W!Ops
      BY <2>4 DEF W!CallDrop, W!Ops
    <3> QED BY <3>1, WriterBegins
  <2> QED BY <1>1, <2>1, <2>2, <2>3, <2>4 DEF W!Caller
<1>2. ASSUME W!InnerFails PROVE WriterInv' /\ WriterPipe
  <2> DEFINE ok == W!TakenToReport
  <2>1. ok \in BOOLEAN /\ W!Return(ok) /\ UNCHANGED <<dec, staged, owned, wire>>
        /\ broken' = broken /\ staged # << >>
    BY <1>2 DEF W!InnerFails, W!Draining, W!TakenToReport
  <2>2. ~ok => call.consumed = 0
    BY WriterTypes DEF W!TakenToReport, WriterInv
  <2>3. ok => call.op = "write"
    BY DEF W!TakenToReport
  <2> HIDE DEF ok
  <2> QED BY <2>1, <2>2, <2>3, WriterReturns
<1>3. ASSUME W!WriteReturns PROVE WriterInv' /\ WriterPipe
  BY <1>3, WriterReturns DEF W!WriteReturns, W!Drained
<1>4. ASSUME W!FlushReturns PROVE WriterInv' /\ WriterPipe
  <2>1. PICK ok \in BOOLEAN : W!Return(ok)
    BY <1>4 DEF W!FlushReturns
  <2>2. call.op = "flush" /\ UNCHANGED <<dec, staged, owned, wire>> /\ broken' = broken
        /\ call.consumed = 0
    BY <1>4 DEF W!FlushReturns, W!Drained, WriterInv
  <2> QED BY <2>1, <2>2, WriterReturns
<1>5. ASSUME W!FinishReturns PROVE WriterInv' /\ WriterPipe
  <2>1. W!Return(TRUE) /\ UNCHANGED <<dec, staged, owned, wire>> /\ broken' = broken
        /\ staged = << >> /\ dec.ended /\ ~broken
    BY <1>5 DEF W!FinishReturns, W!Finishing, W!Drained, WriterInv
  <2> QED BY <2>1, WriterReturns
<1>6. ASSUME W!CodecFails PROVE WriterInv' /\ WriterPipe
  <2>1. W!Return(FALSE) /\ UNCHANGED <<dec, staged, owned, wire>> /\ broken' = TRUE
    BY <1>6 DEF W!CodecFails
  <2> QED BY <2>1, WriterReturns
<1> QED BY <1>1, <1>2, <1>3, <1>4, <1>5, <1>6, WriterAccepts, WriterDecodes, WriterFinishes
        DEF W!Next, W!Adapter

-----------------------------------------------------------------------------
(* The tokio writer.                                                       *)

AsyncClosed == dec.ended /\ out = << >>

AsyncPipe ==
    PipeStep(Expansion(dec.taken), Expansion(dec.taken)', wire, wire', AsyncClosed, AsyncClosed')

LEMMA AsyncInit ==
    ASSUME A!Init
    PROVE  AsyncInv /\ wire = << >> /\ dec.taken = 0 /\ ~dec.ended
<1>1. Sound(dec) /\ dec.taken = 0 /\ dec.emitted = 0 /\ ~dec.ended
  BY SameStart, NewDecoderSound DEF A!Init
<1>2. Relayed(wire, out, dec.emitted)
  BY <1>1, RelayedStart, Zenon DEF A!Init
<1>3. call \in AsyncCall /\ call.op = "none"
  BY DEF A!Init, A!Idle, A!Ops, AsyncCall
<1>4. last.op = "none" /\ ~finished
  BY DEF A!Init
<1>5. reported = dec.taken
  BY <1>1 DEF A!Init
<1>6. AsyncInv
  BY <1>1, <1>2, <1>3, <1>4, <1>5 DEF AsyncInv
<1> QED BY <1>1, <1>6 DEF A!Init

LEMMA AsyncBegins ==
    ASSUME AsyncInv, NEW op \in A!Ops, NEW len \in Nat, A!Begin(op, len), op = "write" => ~closing
    PROVE  AsyncInv' /\ AsyncPipe
<1>1. call' \in AsyncCall /\ call'.op = op /\ call'.at = "decode"
  BY DEF A!Begin, A!Idle, AsyncCall, A!Ops
<1>2. /\ last'.op = "none" /\ (closing' <=> (closing \/ op = "shutdown"))
      /\ UNCHANGED <<supply, dec, out, finished, wire, reported, broken>>
  BY DEF A!Begin
<1>3. AsyncInv'
  BY <1>1, <1>2 DEF AsyncInv
<1>4. AsyncPipe
  BY <1>2 DEF AsyncPipe, AsyncClosed, PipeStep
<1> QED BY <1>3, <1>4

(* A poll returns, having changed nothing but the caller's count.          *)
LEMMA AsyncReturns ==
    ASSUME AsyncInv, NEW how, A!Return(how), UNCHANGED <<dec, out, finished, closing, wire, reported>>,
           call.op = "shutdown" /\ how = "ready" => finished
    PROVE  AsyncInv' /\ AsyncPipe
<1>1. call' \in AsyncCall /\ call'.op = "none" /\ last'.op = call.op /\ last'.how = how
  BY DEF A!Return, A!Idle, AsyncCall, A!Ops
<1>2. AsyncInv'
  BY <1>1 DEF AsyncInv
<1>3. AsyncPipe
  BY DEF AsyncPipe, AsyncClosed, PipeStep
<1> QED BY <1>2, <1>3

LEMMA AsyncAccepts ==
    ASSUME AsyncInv, NEW n \in 1..Len(out), A!InnerAccepts(n)
    PROVE  AsyncInv' /\ AsyncPipe
<1>1. /\ wire' = wire \o SubSeq(out, 1, n) /\ out' = SubSeq(out, n + 1, Len(out))
      /\ dec' = dec /\ call' = call /\ reported' = reported /\ finished' = finished
      /\ closing' = closing /\ last' = last /\ out # << >>
  BY DEF A!InnerAccepts, A!Draining, A!Unsent
<1>2. Sound(dec) /\ Relayed(wire, out, dec.emitted) /\ n \in 1..Len(out)
  BY DEF AsyncInv
<1>3. /\ Relayed(wire \o SubSeq(out, 1, n), SubSeq(out, n + 1, Len(out)), dec.emitted)
      /\ PipeStep(Expansion(dec.taken), Expansion(dec.taken), wire, wire \o SubSeq(out, 1, n),
                  dec.ended /\ out = << >>,
                  dec.ended /\ SubSeq(out, n + 1, Len(out)) = << >>)
  BY ONLY <1>2, AcceptedStep
<1>4. Relayed(wire', out', dec'.emitted) /\ AsyncPipe
  BY ONLY <1>1, <1>3, Zenon DEF AsyncPipe, AsyncClosed
<1>5. AsyncInv'
  BY <1>1, <1>4 DEF AsyncInv
<1> QED BY <1>4, <1>5

(* A call of decode, in a write or to drain the decoder.                   *)
LEMMA AsyncCalls ==
    ASSUME AsyncInv, out = << >>, NEW n \in Nat, NEW r \in A!DecodeOutcomes(dec, n, SCRATCH),
           dec' = r.dec, out' = r.out, wire' = wire
    PROVE  /\ AsyncPipe /\ Sound(dec') /\ Relayed(wire', out', dec'.emitted)
           /\ r.consumed \in 0..n /\ dec'.taken = dec.taken + r.consumed
           /\ dec.ended => dec'.ended /\ out' = << >>
           /\ r.out = << >> /\ dec'.taken = StreamLen => dec'.ended
<1>1. SCRATCH \in Nat /\ SCRATCH > 0 /\ Sound(dec) /\ n \in Nat
      /\ r \in DecodeOutcomes(dec, n, SCRATCH)
  BY AdaptersAssumption, SameDecoder DEF AsyncInv
<1>2. /\ Sound(r.dec)
      /\ r.consumed \in 0..n
      /\ r.out = BytesFrom(dec.emitted, Len(r.out)) /\ Len(r.out) \in Nat
      /\ r.dec.taken = dec.taken + r.consumed
      /\ r.dec.emitted = dec.emitted + Len(r.out)
      /\ dec.ended => r.dec = dec /\ r.out = << >> /\ r.consumed = 0
      /\ ~dec.ended => \/ Expansion(r.dec.taken) = r.dec.emitted \/ Len(r.out) = SCRATCH
                       \/ ~dec.eager /\ r.dec.taken < StreamLen
  BY ONLY <1>1, DecodeOutcome
<1>3. dec.taken \in Nat /\ r.dec.taken \in Nat /\ dec.emitted \in Nat /\ dec.taken <= r.dec.taken
  BY <1>1, <1>2, SoundTypes
<1>4. Relayed(wire, << >>, dec.emitted)
  BY DEF AsyncInv
<1>5. Relayed(wire, r.out, r.dec.emitted)
  <2>1. Relayed(wire, r.out, dec.emitted + Len(r.out))
    BY ONLY <1>2, <1>3, <1>4, RelayedMore
  <2> QED BY <2>1, <1>2
<1>6. PipeStep(Expansion(dec.taken), Expansion(r.dec.taken), wire, wire,
               dec.ended /\ << >> = << >>, r.dec.ended /\ r.out = << >>)
  BY ONLY <1>1, <1>2, <1>3, <1>4, <1>5, StagedStep
<1>7. AsyncPipe
  BY <1>6 DEF AsyncPipe, AsyncClosed
<1>8. r.out = << >> /\ r.dec.taken = StreamLen => r.dec.ended
  <2> SUFFICES ASSUME r.out = << >>, r.dec.taken = StreamLen, ~r.dec.ended PROVE FALSE
    OBVIOUS
  <2>1. ~dec.ended /\ Len(r.out) = 0
    BY <1>2
  <2>2. Expansion(r.dec.taken) = r.dec.emitted
    BY <2>1, <1>1, <1>2, StreamAssumption
  <2> QED BY <2>2, <1>2 DEF Sound, Complete
<1> QED BY <1>2, <1>5, <1>7, <1>8

LEMMA AsyncDecodes ==
    ASSUME AsyncInv, A!Decode
    PROVE  AsyncInv' /\ AsyncPipe
<1>1. PICK r \in A!DecodeOutcomes(dec, call.len, SCRATCH) :
        /\ dec' = r.dec /\ out' = r.out
        /\ IF A!EndsWrite(r)
           THEN A!Return("ready") /\ reported' = reported + r.consumed
           ELSE UNCHANGED <<call, last, reported>>
  BY DEF A!Decode
<1>2. /\ call.op = "write" /\ out = << >>
      /\ wire' = wire /\ finished' = finished /\ closing' = closing /\ ~closing
  BY DEF A!Decode, A!Drained, AsyncInv
<1>3. call.len \in Nat
  BY DEF AsyncInv, AsyncCall
<1>4. /\ AsyncPipe /\ Sound(dec') /\ Relayed(wire', out', dec'.emitted)
      /\ r.consumed \in 0..call.len /\ dec'.taken = dec.taken + r.consumed
      /\ dec.ended => dec'.ended /\ out' = << >>
  BY <1>1, <1>2, <1>3, AsyncCalls
<1>5. call' \in AsyncCall /\ call'.op \in {"write", "none"} /\ reported' = dec'.taken
      /\ ~(last'.op = "shutdown" /\ last'.how = "ready")
  <2>1. CASE A!EndsWrite(r)
    BY <2>1, <1>1, <1>2, <1>4 DEF A!Return, A!Idle, AsyncCall, A!Ops, AsyncInv
  <2>2. CASE ~A!EndsWrite(r)
    <3>1. call' = call /\ last' = last /\ reported' = reported
      BY <2>2, <1>1
    <3>2. r.consumed = 0
      BY <2>2, <1>3, <1>4 DEF A!EndsWrite
    <3>3. ~(last.op = "shutdown" /\ last.how = "ready")
      BY <1>2 DEF AsyncInv
    <3>4. dec.taken \in Nat
      BY SoundTypes DEF AsyncInv
    <3> QED BY <3>1, <3>2, <3>3, <3>4, <1>2, <1>4 DEF AsyncInv
  <2> QED BY <2>1, <2>2
<1>6. ~finished'
  BY <1>2 DEF AsyncInv
<1>7. AsyncInv'
  BY <1>2, <1>4, <1>5, <1>6 DEF AsyncInv
<1> QED BY <1>4, <1>7

LEMMA AsyncDrains ==
    ASSUME AsyncInv, A!DrainDecoder
    PROVE  AsyncInv' /\ AsyncPipe
<1>1. PICK r \in A!DecodeOutcomes(dec, 0, SCRATCH) :
        /\ dec' = r.dec /\ out' = r.out
        /\ call' = [call EXCEPT !.at = A!AfterDrain(r)]
  BY DEF A!DrainDecoder
<1>2. /\ call.op = "shutdown" /\ out = << >> /\ ~finished
      /\ wire' = wire /\ finished' = finished /\ closing' = closing
      /\ reported' = reported /\ last' = last
  BY DEF A!DrainDecoder, A!ClosingAt, A!Drained
<1>3. /\ AsyncPipe /\ Sound(dec') /\ Relayed(wire', out', dec'.emitted)
      /\ r.consumed \in 0..0 /\ dec'.taken = dec.taken + r.consumed
      /\ r.out = << >> /\ dec'.taken = StreamLen => dec'.ended
  BY <1>1, <1>2, AsyncCalls
<1>4. dec'.taken = dec.taken
  <2>1. dec.taken \in Nat
    BY SoundTypes DEF AsyncInv
  <2> QED BY <2>1, <1>3
<1>5. /\ call' \in AsyncCall /\ call'.op = "shutdown" /\ call'.at \in {"decode", "finish"}
      /\ call'.at = "finish" => r.out = << >>
  BY <1>1, <1>2 DEF AsyncInv, AsyncCall, A!AfterDrain
<1>6. closing'
  BY <1>2 DEF AsyncInv
<1>7. AsyncInv'
  BY <1>2, <1>3, <1>4, <1>5, <1>6 DEF AsyncInv
<1> QED BY <1>3, <1>7

(* finish comes after a drain: it never refuses a whole stream.            *)
LEMMA AsyncFinishes ==
    ASSUME AsyncInv, A!Finish
    PROVE  AsyncInv' /\ AsyncPipe /\ (dec.taken = StreamLen => ~broken')
<1>1. PICK r \in A!FinishOutcomes(dec, SCRATCH) :
         IF r.ok
         THEN /\ dec' = r.dec
              /\ out' = r.out
              /\ call' = [call EXCEPT !.at = IF A!StreamEnded(r) THEN "end" ELSE "decode"]
              /\ UNCHANGED <<broken, last>>
         ELSE /\ broken' = dec.strict
              /\ A!Return("error")
              /\ UNCHANGED <<dec, out>>
  BY DEF A!Finish
<1>2. /\ call.op = "shutdown" /\ call.at = "finish" /\ out = << >> /\ ~finished /\ ~broken
      /\ wire' = wire /\ finished' = finished /\ closing' = closing /\ reported' = reported
  BY DEF A!Finish, A!ClosingAt, A!Drained
<1>3. SCRATCH \in Nat /\ Sound(dec) /\ r \in FinishOutcomes(dec, SCRATCH)
  BY AdaptersAssumption, SameFinish DEF AsyncInv
<1>4. /\ Sound(r.dec)
      /\ r.dec.taken = dec.taken
      /\ r.out = BytesFrom(dec.emitted, Len(r.out)) /\ Len(r.out) \in 0..SCRATCH
      /\ r.dec.emitted = dec.emitted + Len(r.out)
      /\ r.status = "StreamEnd" <=> r.dec.ended
      /\ r.ok <=> (r.dec.ended \/ (r.out # << >> /\ ~dec.strict))
      /\ dec.ended => r.dec = dec /\ r.out = << >>
  BY ONLY <1>3, FinishOutcome
<1>5. dec.taken = StreamLen => r.ok
  <2>1. dec.taken = StreamLen => dec.ended
    BY <1>2 DEF AsyncInv
  <2>2. dec.ended => r.dec.ended
    BY <1>4
  <2> QED BY <2>1, <2>2, <1>4
<1>6. CASE r.ok
  <2>1. /\ dec' = r.dec /\ out' = r.out /\ broken' = broken /\ last' = last
        /\ call' = [call EXCEPT !.at = IF A!StreamEnded(r) THEN "end" ELSE "decode"]
    BY <1>1, <1>6
  <2>2. /\ call' \in AsyncCall /\ call'.op = "shutdown" /\ call'.at \in {"decode", "end"}
        /\ call'.at = "end" => r.dec.ended
    BY <2>1, <1>2, <1>4 DEF AsyncInv, AsyncCall, A!StreamEnded
  <2>3. dec.taken \in Nat /\ dec.emitted \in Nat /\ Len(r.out) \in Nat /\ dec.taken <= r.dec.taken
    BY <1>3, <1>4, SoundTypes
  <2>4. Relayed(wire, << >>, dec.emitted)
    BY <1>2 DEF AsyncInv
  <2>5. Relayed(wire, r.out, r.dec.emitted)
    <3>1. Relayed(wire, r.out, dec.emitted + Len(r.out))
      BY ONLY <1>4, <2>3, <2>4, RelayedMore
    <3> QED BY <3>1, <1>4
  <2>6. PipeStep(Expansion(dec.taken), Expansion(r.dec.taken), wire, wire,
                 dec.ended /\ << >> = << >>, r.dec.ended /\ r.out = << >>)
    BY ONLY <1>3, <1>4, <2>3, <2>4, <2>5, StagedStep
  <2>7. AsyncPipe
    BY <2>6, <1>2, <2>1 DEF AsyncPipe, AsyncClosed
  <2>8. closing' /\ reported' = dec'.taken
    BY <1>2, <1>4, <2>1 DEF AsyncInv
  <2>9. ~(last'.op = "shutdown" /\ last'.how = "ready")
    BY <1>2, <2>1 DEF AsyncInv
  <2>10. Sound(dec') /\ Relayed(wire', out', dec'.emitted)
    BY <1>2, <1>4, <2>1, <2>5
  <2>11. AsyncInv'
    BY <1>2, <2>1, <2>2, <2>8, <2>9, <2>10 DEF AsyncInv
  <2> QED BY <1>2, <2>1, <2>7, <2>11
<1>7. CASE ~r.ok
  <2>1. A!Return("error") /\ UNCHANGED <<dec, out, finished, closing, wire, reported>>
    BY <1>1, <1>2, <1>7
  <2>2. AsyncInv' /\ AsyncPipe
    BY <2>1, AsyncReturns
  <2> QED BY <2>2, <1>5, <1>7
<1> QED BY <1>6, <1>7

LEMMA AsyncFinishDone ==
    ASSUME AsyncInv, A!FinishDone
    PROVE  AsyncInv' /\ AsyncPipe
<1>1. /\ call.op = "shutdown" /\ call.at = "end" /\ out = << >>
      /\ dec' = dec /\ out' = out /\ closing' = closing /\ call' = call /\ wire' = wire
      /\ reported' = reported /\ last' = last
  BY DEF A!FinishDone, A!ClosingAt, A!Drained
<1>2. dec.ended /\ closing
  BY <1>1 DEF AsyncInv
<1>3. AsyncInv'
  <2>1. dec'.ended /\ closing' /\ out' = << >>
    BY <1>1, <1>2
  <2>2. /\ Sound(dec') /\ Relayed(wire', out', dec'.emitted) /\ call' \in AsyncCall
        /\ reported' = dec'.taken
    BY <1>1 DEF AsyncInv
  <2>3. call'.op = "shutdown" /\ (last'.op = "shutdown" /\ last'.how = "ready" => finished')
    BY <1>1, <1>2 DEF AsyncInv, A!FinishDone
  <2> QED BY <2>1, <2>2, <2>3 DEF AsyncInv
<1>4. AsyncPipe
  BY <1>1 DEF AsyncPipe, AsyncClosed, PipeStep
<1> QED BY <1>3, <1>4

LEMMA AsyncStep ==
    ASSUME AsyncInv, A!Next
    PROVE  AsyncInv' /\ AsyncPipe
<1>1. ASSUME NEW n \in 0..supply, A!PollWrite(n) PROVE AsyncInv' /\ AsyncPipe
  <2>1. A!Begin("write", n) /\ ~closing /\ n \in Nat /\ "write" \in A!Ops
    BY <1>1 DEF A!PollWrite, A!Ops
  <2> QED BY <2>1, AsyncBegins
<1>2. ASSUME A!PollFlush PROVE AsyncInv' /\ AsyncPipe
  <2>1. A!Begin("flush", 0) /\ "flush" \in A!Ops
    BY <1>2 DEF A!PollFlush, A!Ops
  <2> QED BY <2>1, AsyncBegins
<1>3. ASSUME A!PollShutdown PROVE AsyncInv' /\ AsyncPipe
  <2>1. A!Begin("shutdown", 0) /\ "shutdown" \in A!Ops
    BY <1>3 DEF A!PollShutdown, A!Ops
  <2> QED BY <2>1, AsyncBegins
<1>4. ASSUME A!InnerRefuses PROVE AsyncInv' /\ AsyncPipe
  <2>1. PICK how \in {"pending", "error"} : A!Return(how)
    BY <1>4 DEF A!InnerRefuses
  <2>2. UNCHANGED <<dec, out, finished, closing, wire, reported>> /\ how # "ready"
    BY <1>4 DEF A!InnerRefuses
  <2> QED BY <2>1, <2>2, AsyncReturns
<1>5. ASSUME A!FlushReturns PROVE AsyncInv' /\ AsyncPipe
  <2>1. PICK how \in {"ready", "pending", "error"} : A!Return(how)
    BY <1>5 DEF A!FlushReturns
  <2>2. UNCHANGED <<dec, out, finished, closing, wire, reported>> /\ call.op = "flush"
    BY <1>5 DEF A!FlushReturns, A!Drained
  <2> QED BY <2>1, <2>2, AsyncReturns
<1>6. ASSUME NEW how, A!ShutdownReturns(how) PROVE AsyncInv' /\ AsyncPipe
  <2>1. A!Return(how) /\ UNCHANGED <<dec, out, finished, closing, wire, reported>> /\ finished
    BY <1>6 DEF A!ShutdownReturns
  <2> QED BY <2>1, AsyncReturns
<1>7. ASSUME A!CodecFails PROVE AsyncInv' /\ AsyncPipe
  <2>1. A!Return("error") /\ UNCHANGED <<dec, out, finished, closing, wire, reported>>
    BY <1>7 DEF A!CodecFails
  <2> QED BY <2>1, AsyncReturns
<1> QED BY <1>1, <1>2, <1>3, <1>4, <1>5, <1>6, <1>7, AsyncAccepts, AsyncDecodes, AsyncDrains,
           AsyncFinishes, AsyncFinishDone
        DEF A!Next, A!Caller, A!Progress

-----------------------------------------------------------------------------
(* The reader.                                                             *)

ReaderPipe ==
    PipeStep(Expansion(dec.taken), Expansion(dec.taken)', got, got', finished, finished')

LEMMA ReaderInit ==
    ASSUME R!Init
    PROVE  ReaderInv /\ got = << >> /\ dec.taken = 0 /\ finished = FALSE
<1>1. Sound(dec) /\ dec.taken = 0 /\ dec.emitted = 0 /\ ~dec.ended
  BY SameStart, NewDecoderSound DEF R!Init
<1>2. Relayed(got, << >>, dec.emitted)
  BY <1>1, RelayedStart, Zenon DEF R!Init
<1>3. size \in Nat
  BY StreamAssumption, AdaptersAssumption DEF R!Init
<1>4. /\ room = 0 /\ pulled = 0 /\ in_filled = 0 /\ in_consumed = 0 /\ ~inner_eof
      /\ finished = FALSE /\ drained = FALSE /\ last = "none"
  BY DEF R!Init
<1>5. pulled \in 0..size /\ in_consumed \in 0..in_filled
      /\ dec.taken + (in_filled - in_consumed) = pulled
  BY <1>1, <1>3, <1>4
<1>6. ReaderInv
  BY <1>1, <1>2, <1>3, <1>4, <1>5 DEF ReaderInv
<1> QED BY <1>1, <1>6 DEF R!Init

(* A step that leaves the decoder and what was handed over alone.          *)
LEMMA ReaderStill ==
    ASSUME UNCHANGED <<dec, got, finished>>
    PROVE  ReaderPipe
BY DEF ReaderPipe, PipeStep

(* A read begins, fails, or is one more at the end.                        *)
LEMMA ReaderReturns ==
    ASSUME ReaderInv, UNCHANGED <<dec, size, pulled, in_filled, in_consumed, inner_eof, finished, got>>,
           room' \in Nat, drained' = FALSE \/ drained' = drained,
           last' = "eof" => finished, last' = "truncated" => size < StreamLen
    PROVE  ReaderInv' /\ ReaderPipe
<1>1. ReaderInv'
  BY DEF ReaderInv
<1> QED BY <1>1, ReaderStill

LEMMA ReaderDecodes ==
    ASSUME ReaderInv, R!Decode
    PROVE  ReaderInv' /\ ReaderPipe
<1> DEFINE n == in_filled - in_consumed
<1>1. PICK r \in R!DecodeOutcomes(dec, n, room) :
         LET pending == in_consumed + r.consumed < in_filled IN
         /\ dec' = r.dec
         /\ in_consumed' = in_consumed + r.consumed
         /\ got' = got \o r.out
         /\ finished' = (r.status = "StreamEnd")
         /\ IF r.out # << >> THEN R!Return("data")
            ELSE IF r.status = "StreamEnd" THEN R!Return("eof")
            ELSE IF ~pending THEN drained' = TRUE /\ UNCHANGED <<room, last>>
            ELSE IF r.consumed > 0 THEN UNCHANGED <<room, last, drained>>
            ELSE R!Return("error")
  BY DEF R!Decode, R!Buffered
<1>2. /\ room > 0 /\ ~finished /\ ~drained
      /\ size' = size /\ pulled' = pulled /\ in_filled' = in_filled /\ inner_eof' = inner_eof
  BY DEF R!Decode, R!MayDecode, R!Reading
<1>3. /\ n \in Nat /\ room \in Nat /\ Sound(dec) /\ ~dec.ended /\ in_filled \in Nat
      /\ in_consumed \in Nat /\ pulled \in Nat /\ size \in Nat /\ dec.taken + n = pulled
      /\ Relayed(got, << >>, dec.emitted) /\ r \in DecodeOutcomes(dec, n, room)
      /\ in_consumed + n = in_filled
  BY <1>2, SameDecoder DEF ReaderInv
<1> HIDE DEF n
<1>4. /\ Sound(r.dec) /\ r.dec.eager = dec.eager
      /\ r.consumed \in 0..n
      /\ r.out = BytesFrom(dec.emitted, Len(r.out)) /\ Len(r.out) \in Nat
      /\ r.dec.taken = dec.taken + r.consumed
      /\ r.dec.emitted = dec.emitted + Len(r.out)
      /\ r.status = "StreamEnd" <=> r.dec.ended
      /\ \/ Expansion(r.dec.taken) = r.dec.emitted \/ Len(r.out) = room
         \/ ~dec.eager /\ r.dec.taken < StreamLen
  BY ONLY <1>3, DecodeOutcome
<1>5. /\ dec.taken \in Nat /\ dec.emitted \in Nat /\ r.dec.taken \in Nat
      /\ r.dec.taken <= StreamLen /\ dec.taken <= r.dec.taken
  BY <1>3, <1>4, SoundTypes
<1>6. Relayed(got', << >>, dec'.emitted)
  <2>1. Relayed(got \o r.out, << >>, dec.emitted + Len(r.out))
    BY ONLY <1>3, <1>4, <1>5, RelayedMore
  <2> QED BY <2>1, <1>1, <1>4
<1>7. ReaderPipe
  <2>1. PipeStep(Expansion(dec.taken), Expansion(r.dec.taken), got, got \o r.out,
                 dec.ended, r.dec.ended)
    BY ONLY <1>3, <1>4, <1>5, HandedStep
  <2>2. ~finished /\ (finished' <=> r.dec.ended)
    BY <1>1, <1>2, <1>4
  <2>3. finished = dec.ended /\ finished' = r.dec.ended
    <3>1. finished \in BOOLEAN /\ finished' \in BOOLEAN /\ dec.ended \in BOOLEAN
          /\ r.dec.ended \in BOOLEAN
      BY <1>1, <1>3, <1>4, SoundTypes DEF ReaderInv
    <3>2. finished <=> dec.ended
      BY DEF ReaderInv
    <3> QED BY <3>1, <3>2, <2>2, Zenon
  <2>4. PipeStep(Expansion(dec.taken), Expansion(r.dec.taken), got, got \o r.out,
                 finished, finished')
    BY <2>1, <2>3, Zenon
  <2> QED BY <2>4, <1>1 DEF ReaderPipe
<1>8. /\ in_consumed' \in 0..in_filled' /\ dec'.taken + (in_filled' - in_consumed') = pulled'
      /\ room' \in Nat /\ finished' \in BOOLEAN /\ (finished' <=> dec'.ended)
  <2>1. in_consumed' \in 0..in_filled' /\ dec'.taken + (in_filled' - in_consumed') = pulled'
    <3>1. /\ n \in Nat /\ r.consumed \in 0..n /\ in_consumed \in Nat /\ in_filled \in Nat
          /\ in_consumed + n = in_filled /\ dec.taken \in Nat /\ dec.taken + n = pulled
      BY <1>3, <1>4, <1>5
    <3>2. /\ in_consumed' = in_consumed + r.consumed /\ in_filled' = in_filled
          /\ dec'.taken = dec.taken + r.consumed /\ pulled' = pulled
      BY <1>1, <1>2, <1>4
    <3>3. PICK k \in 0..n : k = r.consumed
      BY <3>1
    <3>4. in_consumed + k \in 0..in_filled
      BY ONLY <3>1, k \in 0..n
    <3>5. (dec.taken + k) + (in_filled - (in_consumed + k)) = pulled
      BY ONLY <3>1, k \in 0..n
    <3> QED BY <3>2, <3>3, <3>4, <3>5
  <2>2. finished' \in BOOLEAN /\ (finished' <=> dec'.ended)
    BY <1>1, <1>4
  <2>3. room' \in Nat
    BY <1>1, <1>3 DEF R!Return
  <2> QED BY <2>1, <2>2, <2>3
<1>9. drained' => /\ in_consumed' = in_filled' /\ dec'.taken < StreamLen
                  /\ dec'.eager => dec'.emitted = Expansion(dec'.taken)
  <2> SUFFICES ASSUME drained'
               PROVE  /\ in_consumed' = in_filled' /\ dec'.taken < StreamLen
                      /\ dec'.eager => dec'.emitted = Expansion(dec'.taken)
    OBVIOUS
  <2>1. r.out = << >> /\ r.status # "StreamEnd" /\ ~(in_consumed + r.consumed < in_filled)
    BY <1>1, <1>2 DEF R!Return
  <2>2. in_consumed' = in_filled'
    BY <2>1, <1>1, <1>2, <1>3, <1>4
  <2>3. Len(r.out) # room
    BY <2>1, <1>2, <1>3
  <2>4. r.dec.taken < StreamLen
    <3> SUFFICES ASSUME r.dec.taken = StreamLen PROVE FALSE
      BY <1>5, StreamAssumption
    <3>1. Expansion(r.dec.taken) = r.dec.emitted
      BY <2>3, <1>4, StreamAssumption
    <3> QED BY <3>1, <2>1, <1>4 DEF Sound, Complete
  <2>5. r.dec.eager => r.dec.emitted = Expansion(r.dec.taken)
    BY <2>3, <1>4
  <2> QED BY <2>2, <2>4, <2>5, <1>1
<1>10. (last' = "eof" => finished') /\ (last' = "truncated" => size < StreamLen)
  <2>1. last' \in {"data", "error", last} \/ (last' = "eof" /\ finished')
    BY <1>1 DEF R!Return
  <2>2. last # "eof"
    BY <1>2 DEF ReaderInv
  <2> QED BY <2>1, <2>2 DEF ReaderInv
<1>11. ReaderInv'
  <2>1. Sound(dec') /\ size' \in Nat /\ pulled' \in 0..size' /\ in_filled' \in Nat
        /\ (inner_eof' => pulled' = size')
    BY <1>1, <1>2, <1>4 DEF ReaderInv
  <2> QED BY <2>1, <1>2, <1>6, <1>8, <1>9, <1>10 DEF ReaderInv
<1> QED BY <1>7, <1>11

(* finish is only called at the end of what there is, on a decoder that    *)
(* has not come to the end of the stream.                                  *)
LEMMA ReaderFinishes ==
    ASSUME ReaderInv, R!Finish
    PROVE  ReaderInv' /\ ReaderPipe
<1>1. PICK r \in R!FinishOutcomes(dec, room) :
         IF r.ok
         THEN /\ dec' = r.dec
              /\ got' = got \o r.out
              /\ finished' = (r.status = "StreamEnd")
              /\ R!Return(IF r.out # << >> THEN "data" ELSE "eof")
              /\ UNCHANGED broken
         ELSE /\ R!Return("truncated")
              /\ broken' = dec.strict
              /\ UNCHANGED <<dec, got, finished>>
  BY DEF R!Finish, R!Truncated
<1>2. /\ room > 0 /\ ~finished /\ drained /\ inner_eof
      /\ UNCHANGED <<size, pulled, in_filled, in_consumed, inner_eof>>
  BY DEF R!Finish, R!Wanting, R!Reading, R!MayDecode
<1>3. /\ room \in Nat /\ Sound(dec) /\ ~dec.ended /\ Relayed(got, << >>, dec.emitted)
      /\ r \in FinishOutcomes(dec, room)
  BY <1>2, SameFinish DEF ReaderInv
<1>4. size < StreamLen
  <2>1. dec.taken \in Nat
    BY <1>3, SoundTypes
  <2> QED BY <2>1, <1>2 DEF ReaderInv
<1>5. /\ Sound(r.dec) /\ r.dec.taken = dec.taken
      /\ r.out = BytesFrom(dec.emitted, Len(r.out)) /\ Len(r.out) \in 0..room
      /\ r.dec.emitted = dec.emitted + Len(r.out)
      /\ r.status = "StreamEnd" <=> r.dec.ended
      /\ r.ok <=> (r.dec.ended \/ (r.out # << >> /\ ~dec.strict))
  BY ONLY <1>3, FinishOutcome
<1>6. CASE r.ok
  <2>1. /\ dec' = r.dec /\ got' = got \o r.out /\ finished' = (r.status = "StreamEnd")
        /\ room' = 0 /\ drained' = FALSE
        /\ last' = IF r.out # << >> THEN "data" ELSE "eof"
    BY <1>1, <1>6 DEF R!Return
  <2>2. dec.taken \in Nat /\ dec.emitted \in Nat /\ Len(r.out) \in Nat /\ dec.taken <= r.dec.taken
    BY <1>3, <1>5, SoundTypes
  <2>3. Relayed(got', << >>, dec'.emitted)
    <3>1. Relayed(got \o r.out, << >>, dec.emitted + Len(r.out))
      BY ONLY <1>3, <1>5, <2>2, RelayedMore
    <3> QED BY <3>1, <1>5, <2>1
  <2>4. ReaderPipe
    <3>1. PipeStep(Expansion(dec.taken), Expansion(r.dec.taken), got, got \o r.out,
                   dec.ended, r.dec.ended)
      BY ONLY <1>3, <1>5, <2>2, HandedStep
    <3>2. ~finished /\ (finished' <=> r.dec.ended)
      BY <1>2, <1>5, <2>1
    <3>3. finished = dec.ended /\ finished' = r.dec.ended
      <4>1. finished \in BOOLEAN /\ finished' \in BOOLEAN /\ dec.ended \in BOOLEAN
            /\ r.dec.ended \in BOOLEAN
        BY <1>1, <1>3, <1>5, <2>1, SoundTypes DEF ReaderInv
      <4>2. finished <=> dec.ended
        BY DEF ReaderInv
      <4> QED BY <4>1, <4>2, <3>2, Zenon
    <3>4. PipeStep(Expansion(dec.taken), Expansion(r.dec.taken), got, got \o r.out,
                   finished, finished')
      BY <3>1, <3>3, Zenon
    <3> QED BY <3>4, <2>1 DEF ReaderPipe
  <2>5. finished' \in BOOLEAN /\ (finished' <=> dec'.ended) /\ (last' = "eof" => finished')
        /\ last' # "truncated"
    BY <1>5, <1>6, <2>1
  <2>6. dec'.taken = dec.taken /\ Sound(dec')
    BY <1>5, <2>1
  <2>7. ReaderInv'
    BY <1>2, <2>1, <2>3, <2>5, <2>6 DEF ReaderInv
  <2> QED BY <2>4, <2>7
<1>7. CASE ~r.ok
  <2>1. /\ UNCHANGED <<dec, size, pulled, in_filled, in_consumed, inner_eof, finished, got>>
        /\ room' = 0 /\ last' = "truncated" /\ drained' = FALSE
    BY <1>1, <1>2, <1>7 DEF R!Return
  <2> QED BY <2>1, <1>4, ReaderReturns
<1> QED BY <1>6, <1>7

LEMMA ReaderRefills ==
    ASSUME ReaderInv, NEW n \in 0..IN_BUF, R!Refill(n)
    PROVE  ReaderInv' /\ ReaderPipe
<1>1. /\ drained /\ n \in 0..(size - pulled) /\ (n = 0 <=> pulled = size)
      /\ pulled' = pulled + n /\ in_filled' = n /\ in_consumed' = 0 /\ inner_eof' = (n = 0)
      /\ drained' = FALSE /\ UNCHANGED <<dec, size, finished, room, got, last>>
  BY DEF R!Refill, R!Wanting, R!MayDecode
<1>2. /\ dec.taken \in Nat /\ dec.taken = pulled /\ pulled \in Nat /\ size \in Nat /\ n \in Nat
  BY <1>1, SoundTypes DEF ReaderInv
<1>3. /\ pulled' \in 0..size' /\ in_consumed' \in 0..in_filled' /\ in_filled' \in Nat
      /\ dec'.taken + (in_filled' - in_consumed') = pulled'
      /\ inner_eof' => pulled' = size'
  <2>1. size' = size /\ dec'.taken = dec.taken /\ (inner_eof' => n = 0)
    BY <1>1
  <2> QED BY ONLY <1>1, <1>2, <2>1
<1>4. ReaderInv'
  BY <1>1, <1>3 DEF ReaderInv
<1> QED BY <1>1, <1>4, ReaderStill

LEMMA ReaderStep ==
    ASSUME ReaderInv, R!Next
    PROVE  ReaderInv' /\ ReaderPipe
<1>1. ASSUME NEW n \in 1..MaxRoom, R!CallRead(n) PROVE ReaderInv' /\ ReaderPipe
  <2>1. /\ room' = n /\ last' = "none"
        /\ UNCHANGED <<dec, size, pulled, in_filled, in_consumed, inner_eof, finished, got, drained>>
    BY <1>1 DEF R!CallRead
  <2> QED BY <2>1, ReaderReturns
<1>2. ASSUME R!FinishedRead \/ R!CodecFails \/ R!RefillFails PROVE ReaderInv' /\ ReaderPipe
  <2>1. /\ UNCHANGED <<dec, size, pulled, in_filled, in_consumed, inner_eof, finished, got>>
        /\ room' = 0 /\ drained' = FALSE /\ last' \in {"eof", "error"}
        /\ last' = "eof" => finished
    BY <1>2 DEF R!FinishedRead, R!CodecFails, R!RefillFails, R!Return
  <2> QED BY <2>1, ReaderReturns
<1> QED BY <1>1, <1>2, ReaderDecodes, ReaderFinishes, ReaderRefills DEF R!Next, R!Adapter

-----------------------------------------------------------------------------
(* The one-shot call.                                                      *)

VecPipe ==
    PipeStep(Expansion(lim.dec.taken), Expansion(lim.dec.taken)', out, out',
             phase = "ok", (phase = "ok")')

LEMMA VecInit ==
    ASSUME V!Init
    PROVE  VecInv /\ out = << >> /\ lim.dec.taken = 0 /\ phase # "ok"
<1>1. PICK d \in V!NewDecoders, l \in Limits : lim = [dec |-> d, limit |-> l, written |-> 0]
  BY DEF V!Init, V!NewLimiteds
<1>2. Sound(d) /\ d.taken = 0 /\ d.emitted = 0 /\ ~d.ended
  BY <1>1, SameStart, NewDecoderSound
<1>3. d \in DecState /\ l \in Nat
  BY <1>2, AdaptersAssumption DEF Sound
<1>4. lim.dec = d /\ lim.written = 0 /\ lim \in [dec : DecState, limit : Nat, written : Nat]
  BY <1>1, <1>3
<1>5. /\ size \in Nat /\ consumed = 0 /\ consumed \in 0..size /\ out = << >>
      /\ phase = "decode" /\ error = "none"
  BY StreamAssumption, AdaptersAssumption DEF V!Init
<1>6. Relayed(out, << >>, lim.dec.emitted)
  BY <1>2, <1>4, <1>5, RelayedStart
<1> QED BY <1>2, <1>4, <1>5, <1>6 DEF VecInv

(* What a call on the limited decoder makes of an outcome q of the inner   *)
(* one: it passes it on, or fails because a byte came beyond the budget,   *)
(* or because a strict decoder did.                                        *)
Limited(q, r) ==
    /\ r.lim.dec = q.dec /\ r.lim.limit = lim.limit
    /\ r.lim \in [dec : DecState, limit : Nat, written : Nat]
    /\ r.status = q.status
    /\ \/ /\ r.error = "none" /\ r.out = q.out
          /\ r.lim.written = lim.written + Len(q.out)
       \/ /\ r.error = "limit" /\ r.out = << >> /\ q.out # << >>
          /\ lim.limit <= lim.written
       \/ r.error = "end" /\ r.out = << >>

LEMMA LimitedCap ==
    ASSUME VecInv
    PROVE  /\ V!Remaining(lim) \in Nat
           /\ V!Remaining(lim) = 0 <=> lim.limit <= lim.written
           /\ V!Remaining(lim) # 0 => V!Cap(lim, SCRATCH) \in Nat \ {0}
<1>1. lim.limit \in Nat /\ lim.written \in Nat /\ SCRATCH \in Nat \ {0}
  BY AdaptersAssumption DEF VecInv
<1>2. /\ V!Remaining(lim) \in Nat
      /\ V!Remaining(lim) = 0 <=> lim.limit <= lim.written
  BY <1>1 DEF V!Remaining
<1>3. V!Remaining(lim) # 0 => V!Cap(lim, SCRATCH) \in Nat \ {0}
  BY <1>1, <1>2 DEF V!Cap
<1> QED BY <1>2, <1>3

LEMMA ProbedIsLimited ==
    ASSUME VecInv, NEW q, q.dec \in DecState, q.out \in Seq(Nat), lim.limit <= lim.written
    PROVE  Limited(q, V!Probed(lim, q)) /\ V!Probed(lim, q).error # "end"
<1> DEFINE r == V!Probed(lim, q)
<1>1. /\ lim \in [dec : DecState, limit : Nat, written : Nat]
      /\ lim.written \in Nat
  BY DEF VecInv
<1>2. /\ r.lim = [lim EXCEPT !.dec = q.dec] /\ r.out = << >> /\ r.status = q.status
      /\ r.error = IF q.out # << >> THEN "limit" ELSE "none"
  BY DEF V!Probed
<1>3. /\ r.lim.dec = q.dec /\ r.lim.limit = lim.limit /\ r.lim.written = lim.written
      /\ r.lim \in [dec : DecState, limit : Nat, written : Nat]
  BY <1>1, <1>2
<1>4. q.out = << >> => lim.written = lim.written + Len(q.out)
  BY <1>1
<1> HIDE DEF r
<1>5. Limited(q, r) /\ r.error # "end"
  BY <1>2, <1>3, <1>4 DEF Limited
<1> QED BY <1>5 DEF r

LEMMA PassedIsLimited ==
    ASSUME VecInv, NEW q, q.dec \in DecState, q.out \in Seq(Nat)
    PROVE  Limited(q, V!Passed(lim, q)) /\ V!Passed(lim, q).error # "end"
<1> DEFINE r == V!Passed(lim, q)
<1>1. /\ lim \in [dec : DecState, limit : Nat, written : Nat]
      /\ lim.written + Len(q.out) \in Nat
  BY DEF VecInv
<1>2. /\ r.lim = [lim EXCEPT !.dec = q.dec, !.written = @ + Len(q.out)]
      /\ r.out = q.out /\ r.status = q.status /\ r.error = "none"
  BY DEF V!Passed
<1>3. /\ r.lim.dec = q.dec /\ r.lim.limit = lim.limit
      /\ r.lim.written = lim.written + Len(q.out)
      /\ r.lim \in [dec : DecState, limit : Nat, written : Nat]
  BY <1>1, <1>2
<1> HIDE DEF r
<1>5. Limited(q, r) /\ r.error # "end"
  BY <1>2, <1>3 DEF Limited
<1> QED BY <1>5 DEF r

LEMMA LimitedDecodes ==
    ASSUME VecInv, NEW r \in V!LimitedDecode(lim, size - consumed, SCRATCH)
    PROVE  \E cap \in Nat \ {0} : \E q \in DecodeOutcomes(lim.dec, size - consumed, cap) :
             Limited(q, r) /\ r.error # "end" /\ r.consumed = q.consumed
<1>0. Sound(lim.dec) /\ size - consumed \in Nat
  BY DEF VecInv
<1>1. CASE V!Remaining(lim) = 0
  <2>1. PICK q \in DecodeOutcomes(lim.dec, size - consumed, 1) :
          r = V!Consumed(V!Spent(lim, q), q.consumed)
    BY <1>1, SameDecoder DEF V!LimitedDecode
  <2>2. q.dec \in DecState /\ q.out \in Seq(Nat)
    BY <1>0, <2>1, DecodeOutcome DEF Sound
  <2>3. Limited(q, V!Probed(lim, q)) /\ V!Probed(lim, q).error # "end"
    BY <1>1, <2>2, LimitedCap, ProbedIsLimited
  <2>4. Limited(q, r) /\ r.error # "end" /\ r.consumed = q.consumed
    BY <2>1, <2>3 DEF V!Consumed, V!Spent, Limited
  <2> QED BY <2>4
<1>2. CASE V!Remaining(lim) # 0
  <2> DEFINE cap == V!Cap(lim, SCRATCH)
  <2>0. cap \in Nat \ {0}
    BY <1>2, LimitedCap
  <2>1. PICK q \in DecodeOutcomes(lim.dec, size - consumed, cap) :
          r = V!Consumed(V!Passed(lim, q), q.consumed)
    BY <1>2, SameDecoder DEF V!LimitedDecode
  <2> HIDE DEF cap
  <2>2. q.dec \in DecState /\ q.out \in Seq(Nat)
    BY <1>0, <2>0, <2>1, DecodeOutcome DEF Sound
  <2>3. Limited(q, V!Passed(lim, q)) /\ V!Passed(lim, q).error # "end"
    BY <2>2, PassedIsLimited
  <2>4. Limited(q, r) /\ r.error # "end" /\ r.consumed = q.consumed
    BY <2>1, <2>3 DEF V!Consumed, Limited
  <2> QED BY <2>0, <2>4
<1> QED BY <1>1, <1>2

LEMMA LimitedFinishes ==
    ASSUME VecInv, NEW r \in V!LimitedFinish(lim, SCRATCH)
    PROVE  \E cap \in Nat \ {0} : \E q \in FinishOutcomes(lim.dec, cap) : Limited(q, r)
<1>0. Sound(lim.dec)
  BY DEF VecInv
<1>1. ASSUME NEW q, NEW o, Limited(q, o), r = V!Refused(q, o),
             o = V!Probed(lim, q) \/ o = V!Passed(lim, q)
      PROVE  Limited(q, r)
  <2>1. CASE r = o
    BY <1>1, <2>1
  <2>2. CASE r # o
    <3>1. r = [o EXCEPT !.error = "end", !.out = << >>]
      BY <1>1, <2>2 DEF V!Refused
    <3>2. /\ r.error = "end" /\ r.out = << >> /\ r.lim = o.lim /\ r.status = o.status
      BY <1>1, <3>1 DEF V!Probed, V!Passed
    <3> QED BY <1>1, <3>2 DEF Limited
  <2> QED BY <2>1, <2>2
<1>2. CASE V!Remaining(lim) = 0
  <2>1. PICK q \in FinishOutcomes(lim.dec, 1) : r = V!Refused(q, V!Spent(lim, q))
    BY <1>2, SameFinish DEF V!LimitedFinish
  <2>2. q.dec \in DecState /\ q.out \in Seq(Nat)
    BY <1>0, <2>1, FinishOutcome DEF Sound
  <2>3. Limited(q, V!Probed(lim, q))
    BY <1>2, <2>2, LimitedCap, ProbedIsLimited
  <2> QED BY <1>1, <2>1, <2>3 DEF V!Spent
<1>3. CASE V!Remaining(lim) # 0
  <2> DEFINE cap == V!Cap(lim, SCRATCH)
  <2>0. cap \in Nat \ {0}
    BY <1>3, LimitedCap
  <2>1. PICK q \in FinishOutcomes(lim.dec, cap) : r = V!Refused(q, V!Passed(lim, q))
    BY <1>3, SameFinish DEF V!LimitedFinish
  <2> HIDE DEF cap
  <2>2. q.dec \in DecState /\ q.out \in Seq(Nat)
    BY <1>0, <2>0, <2>1, FinishOutcome DEF Sound
  <2>3. Limited(q, V!Passed(lim, q))
    BY <2>2, PassedIsLimited
  <2> QED BY <1>1, <2>0, <2>1, <2>3
<1> QED BY <1>2, <1>3

(* What moved in the decoder while the Vec stayed as it was.               *)
LEMMA KeptStep ==
    ASSUME NEW s \in Nat, NEW t \in Nat, s <= t, NEW m \in Nat, m <= t,
           NEW given, Relayed(given, << >>, m)
    PROVE  PipeStep(s, t, given, given, FALSE, FALSE)
<1>1. Len(given) = m /\ given \in Seq(Nat)
  BY DEF Relayed, Prefix, BytesFrom
<1>2. given = given \o [i \in 1..0 |-> Len(given) + i] /\ 0 \in 0..(t - Len(given))
  BY <1>1
<1> QED BY <1>2 DEF PipeStep

(* The inner decoder's call q, passed on as r, in either loop.             *)
LEMMA VecMoves ==
    ASSUME VecInv, phase \in {"decode", "finish"}, NEW q, NEW r, Limited(q, r),
           Sound(q.dec), lim.dec.taken <= q.dec.taken,
           q.out = BytesFrom(lim.dec.emitted, Len(q.out)), Len(q.out) \in Nat,
           q.out = << >> <=> Len(q.out) = 0,
           q.dec.emitted = lim.dec.emitted + Len(q.out),
           lim' = r.lim, out' = out \o r.out
    PROVE  /\ Sound(lim'.dec) /\ lim' \in [dec : DecState, limit : Nat, written : Nat]
           /\ lim'.dec = q.dec /\ lim'.limit = lim.limit
           /\ r.error = "none" =>
                 /\ lim'.written = q.dec.emitted
                 /\ Relayed(out', << >>, q.dec.emitted)
                 /\ PipeStep(Expansion(lim.dec.taken), Expansion(q.dec.taken), out, out',
                             FALSE, q.dec.ended)
           /\ r.error # "none" =>
                 PipeStep(Expansion(lim.dec.taken), Expansion(q.dec.taken), out, out',
                          FALSE, FALSE)
           /\ r.error = "limit" => Expansion(StreamLen) > lim'.limit
           /\ r.error \in {"none", "limit", "end"}
<1>1. /\ Sound(lim.dec) /\ Relayed(out, << >>, lim.dec.emitted) /\ ~lim.dec.ended
      /\ lim.written = lim.dec.emitted /\ lim.limit \in Nat
  BY DEF VecInv
<1>2. /\ lim.dec.emitted \in Nat /\ lim.dec.taken \in Nat /\ q.dec.taken \in Nat
      /\ q.dec.emitted \in Nat /\ q.dec.taken <= StreamLen /\ q.dec.emitted <= Expansion(q.dec.taken)
      /\ lim.dec.ended \in BOOLEAN
  BY <1>1, SoundTypes
<1>3. /\ Expansion(lim.dec.taken) \in Nat /\ Expansion(q.dec.taken) \in Nat
      /\ Expansion(lim.dec.taken) <= Expansion(q.dec.taken)
      /\ Expansion(q.dec.taken) <= Expansion(StreamLen) /\ Expansion(StreamLen) \in Nat
  BY <1>2, ExpansionType, ExpansionGrows, StreamAssumption
<1>4. /\ Sound(lim'.dec) /\ lim' \in [dec : DecState, limit : Nat, written : Nat]
      /\ lim'.dec = q.dec /\ lim'.limit = lim.limit /\ r.error \in {"none", "limit", "end"}
  BY DEF Limited
<1>5. out \in Seq(Nat) /\ out \o << >> = out
  BY <1>1 DEF Relayed, Prefix, BytesFrom
<1>6. ASSUME r.out = << >>
      PROVE  PipeStep(Expansion(lim.dec.taken), Expansion(q.dec.taken), out, out', FALSE, FALSE)
  <2>1. out' = out
    BY <1>5, <1>6
  <2>2. lim.dec.emitted <= Expansion(q.dec.taken)
    BY <1>1, <1>3, SoundTypes
  <2>3. PipeStep(Expansion(lim.dec.taken), Expansion(q.dec.taken), out, out, FALSE, FALSE)
    BY ONLY <1>1, <1>2, <1>3, <2>2, KeptStep
  <2> QED BY <2>1, <2>3
<1>7. ASSUME r.error = "none"
      PROVE  /\ lim'.written = q.dec.emitted
             /\ Relayed(out', << >>, q.dec.emitted)
             /\ PipeStep(Expansion(lim.dec.taken), Expansion(q.dec.taken), out, out',
                         FALSE, q.dec.ended)
  <2>1. r.out = q.out /\ r.lim.written = lim.written + Len(q.out)
    BY <1>7 DEF Limited
  <2>2. lim'.written = q.dec.emitted
    BY <2>1, <1>1
  <2>3. /\ q.out = BytesFrom(lim.dec.emitted, Len(q.out)) /\ Len(q.out) \in Nat
        /\ q.dec.emitted = lim.dec.emitted + Len(q.out)
        /\ Sound(q.dec) /\ lim.dec.taken <= q.dec.taken
    OBVIOUS
  <2>4. Relayed(out \o q.out, << >>, lim.dec.emitted + Len(q.out))
    BY ONLY <1>1, <1>2, <2>3, RelayedMore
  <2>5. PipeStep(Expansion(lim.dec.taken), Expansion(q.dec.taken), out, out \o q.out,
                 lim.dec.ended, q.dec.ended)
    BY ONLY <1>1, <1>2, <2>3, HandedStep
  <2>6. lim.dec.ended = FALSE
    BY <1>1, <1>2
  <2>7. PipeStep(Expansion(lim.dec.taken), Expansion(q.dec.taken), out, out',
                 FALSE, q.dec.ended)
    BY <2>1, <2>5, <2>6
  <2> QED BY <2>1, <2>2, <2>3, <2>4, <2>7
<1>8. ASSUME r.error # "none"
      PROVE  PipeStep(Expansion(lim.dec.taken), Expansion(q.dec.taken), out, out', FALSE, FALSE)
  <2>1. r.out = << >>
    BY <1>8 DEF Limited
  <2> QED BY <2>1, <1>6
<1>9. ASSUME r.error = "limit"
      PROVE  Expansion(StreamLen) > lim'.limit
  <2>1. q.out # << >> /\ lim.limit <= lim.written
    BY <1>9 DEF Limited
  <2>2. Len(q.out) > 0
    BY <2>1
  <2>3. lim.limit < q.dec.emitted
    BY <2>1, <2>2, <1>1, <1>2
  <2> QED BY <2>3, <1>1, <1>2, <1>3, <1>4
<1> QED BY <1>4, <1>6, <1>7, <1>8, <1>9

LEMMA VecDecodes ==
    ASSUME VecInv, V!Decode
    PROVE  VecInv' /\ VecPipe
<1> DEFINE n == size - consumed
<1>1. PICK r \in V!LimitedDecode(lim, n, SCRATCH) :
         /\ lim' = r.lim /\ consumed' = consumed + r.consumed /\ out' = out \o r.out
         /\ IF r.error # "none" THEN V!Fail(r.error)
            ELSE phase' = V!NextPhase(r) /\ UNCHANGED error
  BY DEF V!Decode
<1>2. phase = "decode" /\ size' = size
  BY DEF V!Decode
<1>0. PICK cap \in Nat \ {0} : \E q \in DecodeOutcomes(lim.dec, n, cap) :
        Limited(q, r) /\ r.error # "end" /\ r.consumed = q.consumed
  BY <1>1, LimitedDecodes
<1>3. PICK q \in DecodeOutcomes(lim.dec, n, cap) :
        Limited(q, r) /\ r.error # "end" /\ r.consumed = q.consumed
  BY <1>0
<1>4. /\ Sound(lim.dec) /\ n \in Nat /\ size \in Nat /\ consumed \in Nat /\ consumed + n = size
      /\ lim.dec.taken = consumed /\ ~lim.dec.ended /\ cap \in Nat /\ cap > 0
      /\ q \in DecodeOutcomes(lim.dec, n, cap) /\ error = "none"
  BY <1>2, <1>3 DEF VecInv
<1> HIDE DEF n
<1>5. /\ Sound(q.dec) /\ q.consumed \in 0..n
      /\ q.out = BytesFrom(lim.dec.emitted, Len(q.out)) /\ Len(q.out) \in Nat
      /\ q.out \in Seq(Nat) /\ Len(q.out) \in 0..cap
      /\ q.dec.taken = lim.dec.taken + q.consumed
      /\ q.dec.emitted = lim.dec.emitted + Len(q.out)
      /\ q.status = "StreamEnd" <=> q.dec.ended
      /\ q.status = "InputEmpty" => q.consumed = n /\ (cap = 0 \/ Len(q.out) # cap)
      /\ q.status \in Status
      /\ q.consumed = n \/ q.dec.taken = StreamLen \/ Len(q.out) = cap
      /\ \/ Expansion(q.dec.taken) = q.dec.emitted \/ Len(q.out) = cap
         \/ ~lim.dec.eager /\ q.dec.taken < StreamLen
  BY ONLY <1>4, DecodeOutcome
<1>6. /\ lim.dec.taken \in Nat /\ q.dec.taken \in Nat /\ q.dec.taken <= StreamLen
      /\ lim.dec.taken <= q.dec.taken /\ q.dec.ended \in BOOLEAN
      /\ q.out = << >> <=> Len(q.out) = 0
  BY <1>4, <1>5, SoundTypes
<1>7. /\ Sound(lim'.dec) /\ lim' \in [dec : DecState, limit : Nat, written : Nat]
      /\ lim'.dec = q.dec /\ lim'.limit = lim.limit
      /\ r.error = "none" =>
            /\ lim'.written = q.dec.emitted
            /\ Relayed(out', << >>, q.dec.emitted)
            /\ PipeStep(Expansion(lim.dec.taken), Expansion(q.dec.taken), out, out',
                        FALSE, q.dec.ended)
      /\ r.error # "none" =>
            PipeStep(Expansion(lim.dec.taken), Expansion(q.dec.taken), out, out',
                     FALSE, FALSE)
      /\ r.error = "limit" => Expansion(StreamLen) > lim'.limit
      /\ r.error \in {"none", "limit", "end"}
  <2>1. /\ VecInv /\ phase \in {"decode", "finish"} /\ Limited(q, r)
        /\ lim' = r.lim /\ out' = out \o r.out
    BY <1>1, <1>2, <1>3
  <2> QED BY ONLY <1>5, <1>6, <2>1, VecMoves
<1>8. consumed' \in 0..size' /\ lim'.dec.taken = consumed'
  <2>1. PICK k \in 0..n : k = q.consumed
    BY <1>5
  <2>2. consumed' = consumed + k /\ lim'.dec.taken = consumed + k
    BY <1>1, <1>3, <1>4, <1>5, <1>7, <2>1
  <2>3. consumed + k \in 0..size
    BY ONLY <1>4, k \in 0..n
  <2> QED BY <2>2, <2>3, <1>2
<1>9. CASE r.error # "none"
  <2>1. phase' = "err" /\ error' = r.error /\ r.error = "limit"
    BY <1>1, <1>3, <1>7, <1>9 DEF V!Fail
  <2>2. VecInv'
    BY <2>1, <1>2, <1>4, <1>7, <1>8 DEF VecInv
  <2>3. PipeStep(Expansion(lim.dec.taken), Expansion(lim.dec.taken)', out, out', FALSE, FALSE)
    BY <1>7, <1>9
  <2>4. (phase = "ok") = FALSE /\ (phase = "ok")' = FALSE
    BY <2>1, <1>2
  <2> QED BY <2>2, <2>3, <2>4 DEF VecPipe
<1>10. CASE r.error = "none"
  <2>1. phase' = V!NextPhase(r) /\ error' = "none" /\ r.status = q.status /\ r.out = q.out
    BY <1>1, <1>4, <1>10, <1>3 DEF Limited
  <2>2. /\ phase' \in {"decode", "finish", "ok"}
        /\ phase' = "ok" <=> q.status = "StreamEnd"
        /\ phase' = "finish" =>
              q.status # "StreamEnd" /\ (q.status = "InputEmpty" \/ q.out = << >>)
    BY <2>1, <1>5 DEF V!NextPhase, Status
  <2>3. phase' = "finish" => size < StreamLen
    <3> SUFFICES ASSUME phase' = "finish", ~(size < StreamLen) PROVE FALSE
      OBVIOUS
    <3>1. Len(q.out) # cap /\ ~q.dec.ended
      BY <2>2, <1>4, <1>5, <1>6
    <3>2. q.dec.taken = StreamLen
      BY <3>1, <1>4, <1>5, <1>6, StreamAssumption
    <3>3. Expansion(q.dec.taken) = q.dec.emitted
      BY <3>1, <3>2, <1>5, StreamAssumption
    <3> QED BY <3>1, <3>2, <3>3, <1>5 DEF Sound, Complete
  <2>4. phase' = "ok" <=> lim'.dec.ended
    BY <2>2, <1>5, <1>7
  <2>5. VecInv'
    BY <2>1, <2>2, <2>3, <2>4, <1>2, <1>4, <1>7, <1>8, <1>10 DEF VecInv
  <2>6. PipeStep(Expansion(lim.dec.taken), Expansion(lim.dec.taken)', out, out',
                 FALSE, q.dec.ended)
    BY <1>7, <1>10
  <2>7. (phase = "ok") = FALSE /\ (phase = "ok")' = q.dec.ended
    BY <2>2, <1>2, <1>5, <1>6
  <2> QED BY <2>5, <2>6, <2>7 DEF VecPipe
<1> QED BY <1>9, <1>10

LEMMA VecFinishes ==
    ASSUME VecInv, V!Finish
    PROVE  VecInv' /\ VecPipe
<1>1. PICK r \in V!LimitedFinish(lim, SCRATCH) :
         /\ lim' = r.lim /\ out' = out \o r.out
         /\ IF r.error # "none" THEN V!Fail(r.error)
            ELSE IF V!Stalled(r) THEN V!Fail("corrupt")
            ELSE /\ phase' = IF r.status = "StreamEnd" THEN "ok" ELSE "finish"
                 /\ UNCHANGED error
  BY DEF V!Finish
<1>2. phase = "finish" /\ size' = size /\ consumed' = consumed
  BY DEF V!Finish
<1>0. PICK cap \in Nat \ {0} : \E q \in FinishOutcomes(lim.dec, cap) : Limited(q, r)
  BY <1>1, LimitedFinishes
<1>3. PICK q \in FinishOutcomes(lim.dec, cap) : Limited(q, r)
  BY <1>0
<1>4. /\ Sound(lim.dec) /\ size \in Nat /\ consumed \in 0..size /\ size < StreamLen
      /\ lim.dec.taken = consumed /\ cap \in Nat
      /\ q \in FinishOutcomes(lim.dec, cap) /\ error = "none"
  BY <1>2, <1>3 DEF VecInv
<1>5. /\ Sound(q.dec) /\ q.dec.taken = lim.dec.taken
      /\ q.out \in Seq(Nat) /\ Len(q.out) \in 0..cap
      /\ q.out = BytesFrom(lim.dec.emitted, Len(q.out))
      /\ q.dec.emitted = lim.dec.emitted + Len(q.out)
      /\ q.status = "StreamEnd" <=> q.dec.ended
  BY ONLY <1>4, FinishOutcome
<1>6. /\ lim.dec.taken <= q.dec.taken /\ Len(q.out) \in Nat /\ q.dec.ended \in BOOLEAN
      /\ q.out = << >> <=> Len(q.out) = 0
  BY <1>4, <1>5, SoundTypes
<1>7. ~q.dec.ended
  BY <1>4, <1>5, StreamAssumption DEF Sound, Complete
<1>8. /\ Sound(lim'.dec) /\ lim' \in [dec : DecState, limit : Nat, written : Nat]
      /\ lim'.dec = q.dec /\ lim'.limit = lim.limit
      /\ r.error = "none" =>
            /\ lim'.written = q.dec.emitted
            /\ Relayed(out', << >>, q.dec.emitted)
            /\ PipeStep(Expansion(lim.dec.taken), Expansion(q.dec.taken), out, out',
                        FALSE, q.dec.ended)
      /\ r.error # "none" =>
            PipeStep(Expansion(lim.dec.taken), Expansion(q.dec.taken), out, out',
                     FALSE, FALSE)
      /\ r.error = "limit" => Expansion(StreamLen) > lim'.limit
      /\ r.error \in {"none", "limit", "end"}
  <2>1. /\ VecInv /\ phase \in {"decode", "finish"} /\ Limited(q, r)
        /\ lim' = r.lim /\ out' = out \o r.out
    BY <1>1, <1>2, <1>3
  <2> QED BY ONLY <1>5, <1>6, <2>1, VecMoves
<1>9. /\ phase' \in {"finish", "err"}
      /\ phase' = "finish" => r.error = "none" /\ error' = "none"
      /\ error' = "limit" => r.error = "limit"
  <2>1. r.status # "StreamEnd"
    BY <1>3, <1>5, <1>7 DEF Limited
  <2> QED BY <2>1, <1>1, <1>4 DEF V!Fail, V!Stalled
<1>10. lim'.dec.taken = consumed' /\ consumed' \in 0..size' /\ size' < StreamLen /\ size' \in Nat
  BY <1>2, <1>4, <1>5, <1>8
<1>11. VecInv'
  BY <1>7, <1>8, <1>9, <1>10 DEF VecInv
<1>12. PipeStep(Expansion(lim.dec.taken), Expansion(q.dec.taken), out, out', FALSE, FALSE)
  <2>1. q.dec.ended = FALSE
    BY <1>6, <1>7
  <2> QED BY <2>1, <1>8
<1>13. (phase = "ok") = FALSE /\ (phase = "ok")' = FALSE
  BY <1>2, <1>9
<1> QED BY <1>8, <1>11, <1>12, <1>13 DEF VecPipe

LEMMA VecStep ==
    ASSUME VecInv, V!Next
    PROVE  VecInv' /\ VecPipe
BY VecDecodes, VecFinishes DEF V!Next

-----------------------------------------------------------------------------
(* All four.                                                               *)

InitPipe ==
    CASE adapter = "reader" -> got = << >> /\ dec.taken = 0 /\ finished = FALSE
      [] adapter = "vec" -> out = << >> /\ lim.dec.taken = 0 /\ phase # "ok"
      [] OTHER -> wire = << >> /\ dec.taken = 0 /\ ~dec.ended

LEMMA InitIInv ==
    ASSUME Init
    PROVE  IInv /\ InitPipe
<1>1. CASE adapter = "writer" /\ W!Init
  BY <1>1, WriterInit DEF IInv, InitPipe
<1>2. CASE adapter = "async_writer" /\ A!Init
  BY <1>2, AsyncInit DEF IInv, InitPipe
<1>3. CASE adapter = "reader" /\ R!Init
  BY <1>3, ReaderInit DEF IInv, InitPipe
<1>4. CASE adapter = "vec" /\ V!Init
  BY <1>4, VecInit DEF IInv, InitPipe
<1> QED BY <1>1, <1>2, <1>3, <1>4 DEF Init

AnyPipe ==
    CASE adapter = "writer" -> WriterPipe
      [] adapter = "async_writer" -> AsyncPipe
      [] adapter = "reader" -> ReaderPipe
      [] adapter = "vec" -> VecPipe

LEMMA NextKeepsIInv ==
    ASSUME IInv, [Next]_vars
    PROVE  IInv' /\ adapter' = adapter /\ AnyPipe
<1>1. CASE UNCHANGED vars
  <2>1. adapter' = adapter /\ (WriterInv => WriterInv') /\ (AsyncInv => AsyncInv')
        /\ (ReaderInv => ReaderInv') /\ (VecInv => VecInv')
    BY <1>1 DEF vars, WriterInv, AsyncInv, ReaderInv, VecInv
  <2>2. AnyPipe
    BY <1>1 DEF vars, AnyPipe, WriterPipe, AsyncPipe, ReaderPipe, VecPipe, WriterClosed,
                AsyncClosed, PipeStep, IInv
  <2> QED BY <2>1, <2>2 DEF IInv
<1>2. CASE OfW(W!Next)
  <2>1. adapter = "writer" /\ adapter' = adapter /\ WriterInv' /\ WriterPipe
    BY <1>2, WriterStep DEF IInv, OfW, NotOfW
  <2> QED BY <2>1 DEF IInv, AnyPipe
<1>3. CASE OfA(A!Next)
  <2>1. adapter = "async_writer" /\ adapter' = adapter /\ AsyncInv' /\ AsyncPipe
    BY <1>3, AsyncStep DEF IInv, OfA, NotOfA
  <2> QED BY <2>1 DEF IInv, AnyPipe
<1>4. CASE OfR(R!Next)
  <2>1. adapter = "reader" /\ adapter' = adapter /\ ReaderInv' /\ ReaderPipe
    BY <1>4, ReaderStep DEF IInv, OfR, NotOfR
  <2> QED BY <2>1 DEF IInv, AnyPipe
<1>5. CASE OfV(V!Next)
  <2>1. adapter = "vec" /\ adapter' = adapter /\ VecInv' /\ VecPipe
    BY <1>5, VecStep DEF IInv, OfV, NotOfV
  <2> QED BY <2>1 DEF IInv, AnyPipe
<1>6. CASE Over
  BY <1>6, <1>1 DEF Over
<1> QED BY <1>1, <1>2, <1>3, <1>4, <1>5, <1>6 DEF Next

(* The inductive invariant holds in every state.                           *)
THEOREM Invariance == Spec => []IInv
<1>1. Init => IInv
  BY InitIInv
<1>2. IInv /\ [Next]_vars => IInv'
  BY NextKeepsIInv
<1> QED BY <1>1, <1>2, PTL DEF Spec

(* The writer's caller is told of every unit the decoder took, however     *)
(* often the inner writer fails or takes only a part.                      *)
THEOREM WriterFeedsOnce == Spec => []NothingFedTwice
<1>1. IInv => NothingFedTwice
  <2> SUFFICES ASSUME WriterInv, call.op = "none", ~broken PROVE reported = dec.taken
    BY DEF IInv, NothingFedTwice, W!NothingFedTwice
  <2>1. call.consumed = 0 /\ reported + call.consumed = dec.taken /\ reported \in Nat
    BY DEF WriterInv
  <2> QED BY <2>1
<1> QED BY <1>1, Invariance, PTL

(* A decoder that has ended has the whole stream, and has handed over all  *)
(* its plaintext.                                                          *)
LEMMA EndedIsWhole ==
    ASSUME NEW d, Sound(d), d.ended
    PROVE  d.taken = StreamLen /\ d.emitted = Expansion(StreamLen) /\ d.emitted \in Nat
BY SoundTypes

(* No adapter reports the end of a stream that was cut short, or with some *)
(* of its plaintext still to hand over.                                    *)
THEOREM EndIsTrue == Spec => []EndIsComplete
<1>1. IInv => EndIsComplete
  <2> SUFFICES ASSUME IInv PROVE EndIsComplete
    OBVIOUS
  <2>1. ASSUME adapter = "writer" PROVE W!FinishIsComplete
    <3> SUFFICES ASSUME last = [op |-> "finish", ok |-> TRUE]
                 PROVE  reported = StreamLen /\ wire = BytesFrom(0, Expansion(StreamLen))
      BY DEF W!FinishIsComplete, W!BytesFrom, W!Expansion, BytesFrom, Expansion
    <3>1. WriterInv /\ last.op = "finish" /\ last.ok
      BY <2>1 DEF IInv
    <3>2. /\ Sound(dec) /\ dec.ended /\ ~broken /\ Relayed(wire, << >>, dec.emitted)
          /\ call.op = "none"
      BY <3>1 DEF WriterInv
    <3>3. /\ dec.taken = StreamLen
          /\ dec.emitted = Expansion(StreamLen) /\ dec.emitted \in Nat
      BY <3>2, EndedIsWhole
    <3>4. wire = BytesFrom(0, dec.emitted)
      BY ONLY <3>2, <3>3, RelayedAll
    <3>5. reported + call.consumed = dec.taken /\ call.consumed = 0 /\ reported \in Nat
      BY <3>1, <3>2 DEF WriterInv
    <3> QED BY <3>3, <3>4, <3>5
  <2>2. ASSUME adapter = "async_writer" PROVE A!ShutdownIsComplete
    <3> SUFFICES ASSUME last = [op |-> "shutdown", how |-> "ready"]
                 PROVE  reported = StreamLen /\ wire = BytesFrom(0, Expansion(StreamLen))
      BY DEF A!ShutdownIsComplete, A!BytesFrom, A!Expansion, BytesFrom, Expansion
    <3>1. AsyncInv /\ last.op = "shutdown" /\ last.how = "ready"
      BY <2>2 DEF IInv
    <3>2. /\ Sound(dec) /\ dec.ended /\ Relayed(wire, << >>, dec.emitted)
          /\ reported = dec.taken
      BY <3>1 DEF AsyncInv
    <3>3. /\ dec.taken = StreamLen
          /\ dec.emitted = Expansion(StreamLen) /\ dec.emitted \in Nat
      BY <3>2, EndedIsWhole
    <3>4. wire = BytesFrom(0, dec.emitted)
      BY ONLY <3>2, <3>3, RelayedAll
    <3> QED BY <3>2, <3>3, <3>4
  <2>3. ASSUME adapter = "reader" PROVE R!EofIsComplete
    <3> SUFFICES ASSUME last = "eof"
                 PROVE  dec.taken = StreamLen /\ got = BytesFrom(0, Expansion(StreamLen))
      BY DEF R!EofIsComplete, R!BytesFrom, R!Expansion, BytesFrom, Expansion
    <3>1. Sound(dec) /\ dec.ended /\ Relayed(got, << >>, dec.emitted)
      BY <2>3 DEF IInv, ReaderInv
    <3>2. /\ dec.taken = StreamLen
          /\ dec.emitted = Expansion(StreamLen) /\ dec.emitted \in Nat
      BY <3>1, EndedIsWhole
    <3>3. got = BytesFrom(0, dec.emitted)
      BY ONLY <3>1, <3>2, RelayedAll
    <3> QED BY <3>2, <3>3
  <2>4. ASSUME adapter = "vec" PROVE V!OkIsComplete
    <3> SUFFICES ASSUME phase = "ok"
                 PROVE  size >= StreamLen /\ out = BytesFrom(0, Expansion(StreamLen))
      BY DEF V!OkIsComplete, V!Plaintext, V!BytesFrom, V!Expansion, BytesFrom, Expansion
    <3>1. /\ Sound(lim.dec) /\ lim.dec.ended /\ Relayed(out, << >>, lim.dec.emitted)
          /\ lim.dec.taken = consumed /\ consumed \in 0..size /\ size \in Nat
      BY <2>4 DEF IInv, VecInv
    <3>2. /\ lim.dec.taken = StreamLen
          /\ lim.dec.emitted = Expansion(StreamLen) /\ lim.dec.emitted \in Nat
      BY <3>1, EndedIsWhole
    <3>3. out = BytesFrom(0, lim.dec.emitted)
      BY ONLY <3>1, <3>2, RelayedAll
    <3> QED BY <3>1, <3>2, <3>3
  <2> QED BY <2>1, <2>2, <2>3, <2>4 DEF EndIsComplete, IInv
<1> QED BY <1>1, Invariance, PTL

(* OutputLimitExceeded is reported only of a stream whose plaintext is     *)
(* beyond the budget, whatever the decoder holds back and for how long.    *)
THEOREM LimitErrorIsDeserved == Spec => []LimitErrorIsTrue
<1>1. IInv => LimitErrorIsTrue
  BY DEF IInv, VecInv, LimitErrorIsTrue, V!LimitErrorIsTrue, V!Plaintext, V!Expansion, Expansion
<1> QED BY <1>1, Invariance, PTL

(* No adapter refuses a whole stream, although a strict decoder's finish   *)
(* fails while it owes output: none calls it that early.                   *)
THEOREM WholeStreamIsTaken == Spec => WholeStreamNotRefused
<1>1. IInv /\ [Next]_vars =>
        [ /\ adapter = "writer" /\ W!Finish /\ dec.taken = StreamLen => ~broken'
          /\ adapter = "async_writer" /\ A!Finish /\ dec.taken = StreamLen => ~broken'
          /\ adapter = "reader" => R!WholeStreamNotRefused'
          /\ adapter = "vec" => V!WholeStreamDecodes' ]_vars
  <2> SUFFICES ASSUME IInv, [Next]_vars
      PROVE /\ adapter = "writer" /\ W!Finish /\ dec.taken = StreamLen => ~broken'
            /\ adapter = "async_writer" /\ A!Finish /\ dec.taken = StreamLen => ~broken'
            /\ adapter = "reader" => R!WholeStreamNotRefused'
            /\ adapter = "vec" => V!WholeStreamDecodes'
    OBVIOUS
  <2>0. IInv' /\ adapter' = adapter
    BY NextKeepsIInv
  <2>1. ASSUME adapter = "writer", W!Finish, dec.taken = StreamLen PROVE ~broken'
    BY <2>1, WriterFinishes DEF IInv
  <2>2. ASSUME adapter = "async_writer", A!Finish, dec.taken = StreamLen PROVE ~broken'
    BY <2>2, AsyncFinishes DEF IInv
  <2>3. ASSUME adapter = "reader" PROVE R!WholeStreamNotRefused'
    <3>1. size' \in Nat /\ (last' = "truncated" => size' < StreamLen)
      BY <2>0, <2>3 DEF IInv, ReaderInv
    <3> QED BY <3>1, StreamAssumption DEF R!WholeStreamNotRefused
  <2>4. ASSUME adapter = "vec" PROVE V!WholeStreamDecodes'
    BY <2>0, <2>4 DEF IInv, VecInv, V!WholeStreamDecodes
  <2> QED BY <2>1, <2>2, <2>3, <2>4
<1> QED BY <1>1, Invariance, PTL DEF Spec, WholeStreamNotRefused

(* The reader asks for more input only with all the decoder can give       *)
(* handed over.                                                            *)
THEOREM ReaderHoldsNothing == Spec => NothingHeldBack
<1>1. IInv /\ [Next]_vars =>
        [ adapter = "reader" /\ (pulled' # pulled \/ R!RefillFails) /\ dec.eager =>
            dec.emitted = Expansion(dec.taken) ]_vars
  <2> SUFFICES ASSUME IInv, Next, adapter = "reader", pulled' # pulled \/ R!RefillFails, dec.eager
               PROVE  dec.emitted = Expansion(dec.taken)
    BY DEF vars
  <2>1. ReaderInv
    BY DEF IInv
  <2>2. R!Next
    BY <2>1 DEF Next, Over, OfW, OfA, OfR, OfV, vars, R!RefillFails, R!Wanting
  <2>3. R!RefillFails \/ \E n \in 0..IN_BUF : R!Refill(n)
    BY <2>2 DEF R!Next, R!Adapter, R!CallRead, R!FinishedRead, R!Decode, R!Finish, R!CodecFails
  <2>4. drained
    BY <2>3, <2>1 DEF R!RefillFails, R!Refill, R!Wanting, R!MayDecode
  <2> QED BY <2>1, <2>4 DEF ReaderInv
<1> QED BY <1>1, Invariance, PTL DEF Spec, NothingHeldBack

PipeTaken == Expansion(IF adapter = "vec" THEN lim.dec.taken ELSE dec.taken)
PipeDelivered == CASE adapter = "reader" -> got [] adapter = "vec" -> out [] OTHER -> wire
PipeClosed ==
    CASE adapter = "writer" -> dec.ended /\ staged = << >>
      [] adapter = "async_writer" -> dec.ended /\ out = << >>
      [] adapter = "reader" -> finished
      [] adapter = "vec" -> phase = "ok"

(* Each adapter is a pipe of the plaintext that closes only with all the   *)
(* plaintext of a whole stream.                                            *)
THEOREM AdaptersArePipes == Spec => ImplementsPipe
<1>1. Init => Pipeline!Init
  <2> SUFFICES ASSUME Init PROVE PipeTaken = 0 /\ PipeDelivered = << >> /\ PipeClosed = FALSE
    BY DEF Pipeline!Init, PipeTaken, PipeDelivered, PipeClosed
  <2>1. IInv /\ InitPipe
    BY InitIInv
  <2>2. Expansion(0) = 0
    BY StreamAssumption DEF Expansion
  <2> QED BY <2>1, <2>2 DEF InitPipe, IInv, PipeTaken, PipeDelivered, PipeClosed
<1>2. IInv /\ IInv' /\ [Next]_vars =>
        [Pipeline!Move]_<<PipeTaken, PipeDelivered, PipeClosed>>
  <2> SUFFICES ASSUME IInv, IInv', [Next]_vars
               PROVE  [Pipeline!Move]_<<PipeTaken, PipeDelivered, PipeClosed>>
    OBVIOUS
  <2>1. adapter' = adapter /\ AnyPipe
    BY NextKeepsIInv
  <2>2. PipeStep(PipeTaken, PipeTaken', PipeDelivered, PipeDelivered', PipeClosed, PipeClosed')
    <3>1. CASE adapter = "writer"
      BY <2>1, <3>1 DEF AnyPipe, WriterPipe, WriterClosed, PipeTaken, PipeDelivered, PipeClosed
    <3>2. CASE adapter = "async_writer"
      BY <2>1, <3>2 DEF AnyPipe, AsyncPipe, AsyncClosed, PipeTaken, PipeDelivered, PipeClosed
    <3>3. CASE adapter = "reader"
      BY <2>1, <3>3 DEF AnyPipe, ReaderPipe, PipeTaken, PipeDelivered, PipeClosed
    <3>4. CASE adapter = "vec"
      BY <2>1, <3>4 DEF AnyPipe, VecPipe, PipeTaken, PipeDelivered, PipeClosed
    <3> QED BY <3>1, <3>2, <3>3, <3>4 DEF IInv
  <2>3. PipeClosed' \in BOOLEAN
    BY DEF IInv, PipeClosed, ReaderInv
  <2> QED BY <2>2, <2>3 DEF PipeStep, Pipeline!Move, Pipeline!Following, PipeTaken,
                            PipeDelivered, PipeClosed
<1> QED BY <1>1, <1>2, Invariance, PTL
        DEF Spec, ImplementsPipe, Pipeline!Spec, PipeTaken, PipeDelivered, PipeClosed
=============================================================================
