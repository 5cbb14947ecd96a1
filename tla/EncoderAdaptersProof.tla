------------------------ MODULE EncoderAdaptersProof ------------------------
(***************************************************************************)
(* Proofs about EncoderAdapters, for every buffer and input size: a poll   *)
(* that does not complete takes nothing, a flush leaves one marker, the    *)
(* reader feeds each byte once, and an end that is reported is one.        *)
(***************************************************************************)
EXTENDS EncoderAdapters, EncoderCodecProof, FiniteSetTheorems

EndsIn(s, mark) == s # << >> /\ s[Len(s)] = mark

(* s holds the bytes 1..m.                                                 *)
Holding(s, m) == \A k \in 1..m : \E i \in DOMAIN s : s[i] = Byte(k)

(* No two sync marks are neighbours.                                       *)
MarksApart(s) == \A i \in DOMAIN s : i + 1 \in DOMAIN s => s[i] # SyncMark \/ s[i + 1] # SyncMark

AsyncCall == [op : A!Ops, len : Nat, status : Status \cup {"none"}]

(* What the adapter has sent, and what it has still to send, as one.       *)
Sent == wire \o out

(* The tokio writer: a poll reports what it took at once; a stream that    *)
(* ends with a sync mark is not flushed again until the codec has a byte   *)
(* to put before the next one; and nothing follows the trailer.            *)
AsyncInv ==
    /\ enc \in EncState /\ enc.emitted <= enc.taken
    /\ out \in Seq(Token) /\ wire \in Seq(Token) /\ call \in AsyncCall
    /\ reported = enc.taken
    /\ Holding(Sent, enc.emitted)
    /\ MarksApart(Sent)
    /\ EndsIn(Sent, SyncMark) => sync_flushed \/ enc.emitted < enc.taken
    /\ enc.ended => closing /\ enc.emitted = enc.taken /\ EndsIn(Sent, EndMark)
    /\ call.op \in {"write", "flush"} => ~closing
    /\ call.op = "shutdown" => closing
    /\ call.op = "shutdown" /\ call.status = "StreamEnd" => enc.ended
    /\ finished => enc.ended /\ out = << >>
    /\ last = [op |-> "shutdown", how |-> "ready"] => finished

(* The reader: the bytes pulled are those the codec was fed, then those of *)
(* the buffer; what was handed over is what the codec has given.           *)
ReaderInv ==
    /\ enc \in EncState /\ enc.emitted <= enc.taken
    /\ got = BytesFrom(0, enc.emitted) \o (IF enc.ended THEN <<EndMark>> ELSE << >>)
    /\ enc.ended => enc.emitted = enc.taken /\ inner_eof /\ in_consumed = Len(in_buf)
    /\ size \in Nat /\ pulled \in 0..size /\ room \in Nat
    /\ in_buf \in Seq(Nat) /\ in_consumed \in 0..Len(in_buf)
    /\ pulled = enc.taken + (Len(in_buf) - in_consumed)
    /\ \A i \in 1..(Len(in_buf) - in_consumed) : in_buf[in_consumed + i] = enc.taken + i
    /\ fed \in Seq(Nat) /\ Len(fed) = enc.taken /\ \A i \in 1..enc.taken : fed[i] = i
    /\ inner_eof => pulled = size
    /\ finished <=> enc.ended
    /\ last = "eof" => finished

IInv ==
    /\ adapter \in {"async_writer", "reader"}
    /\ adapter = "async_writer" => AsyncInv
    /\ adapter = "reader" => ReaderInv

-----------------------------------------------------------------------------
(* Streams of tokens.                                                      *)

LEMMA Tokens ==
    /\ SyncMark \in Token /\ EndMark \in Token /\ SyncMark # EndMark
    /\ \A k \in Nat : Byte(k) \in Token /\ Byte(k) # SyncMark /\ Byte(k) # EndMark
BY DEF SyncMark, EndMark, Byte, Token

(* More bytes at the end.                                                  *)
LEMMA AppendBytes ==
    ASSUME NEW s \in Seq(Token), NEW m \in Nat, NEW w \in Nat, Holding(s, m), MarksApart(s)
    PROVE  /\ s \o BytesFrom(m, w) \in Seq(Token)
           /\ Holding(s \o BytesFrom(m, w), m + w)
           /\ MarksApart(s \o BytesFrom(m, w))
           /\ w = 0 => s \o BytesFrom(m, w) = s
           /\ w # 0 => ~EndsIn(s \o BytesFrom(m, w), SyncMark)
<1> DEFINE b == BytesFrom(m, w)
           t == s \o b
           n == Len(s)
<1>1. b \in Seq(Token) /\ Len(b) = w /\ \A i \in 1..w : b[i] = Byte(m + i)
  BY BytesFromType
<1> HIDE DEF b
<1>2. /\ t \in Seq(Token) /\ Len(t) = n + w /\ DOMAIN t = 1..(n + w) /\ n \in Nat
      /\ DOMAIN s = 1..n
      /\ \A i \in 1..n : t[i] = s[i]
      /\ \A i \in 1..w : t[n + i] = b[i]
  BY <1>1
<1> HIDE DEF t, n
<1>3. ASSUME NEW i \in 1..w
      PROVE  t[n + i] = Byte(m + i) /\ t[n + i] # SyncMark
  <2>1. m + i \in Nat
    OBVIOUS
  <2>2. t[n + i] = Byte(m + i)
    BY <1>1, <1>2
  <2> QED BY <2>1, <2>2, Tokens
<1>4. Holding(t, m + w)
  <2> SUFFICES ASSUME NEW k \in 1..(m + w)
               PROVE  \E i \in DOMAIN t : t[i] = Byte(k)
    BY DEF Holding
  <2>1. CASE k <= m
    <3>1. PICK i \in DOMAIN s : s[i] = Byte(k)
      BY <2>1 DEF Holding
    <3> QED BY <3>1, <1>2
  <2>2. CASE k > m
    <3>1. k - m \in 1..w /\ m + (k - m) = k
      BY <2>2
    <3>2. n + (k - m) \in DOMAIN t
      BY <1>2, <3>1
    <3> QED BY <1>3, <3>1, <3>2
  <2> QED BY <2>1, <2>2
<1>5. MarksApart(t)
  <2> SUFFICES ASSUME NEW i \in 1..(n + w), i + 1 \in 1..(n + w),
                      t[i] = SyncMark, t[i + 1] = SyncMark
               PROVE  FALSE
    BY <1>2 DEF MarksApart
  <2>1. CASE i + 1 \in 1..n
    <3>1. i \in 1..n /\ t[i] = s[i] /\ t[i + 1] = s[i + 1]
      BY <1>2, <2>1
    <3> QED BY <1>2, <2>1, <3>1 DEF MarksApart
  <2>2. CASE i + 1 \notin 1..n
    <3>1. i + 1 - n \in 1..w /\ n + (i + 1 - n) = i + 1
      BY <1>2, <2>2
    <3> QED BY <1>3, <3>1
  <2> QED BY <2>1, <2>2
<1>6. w = 0 => t = s
  <2>1. w = 0 => b = << >>
    BY <1>1
  <2> QED BY <2>1 DEF t
<1>7. w # 0 => ~EndsIn(t, SyncMark)
  <2>1. w # 0 => w \in 1..w /\ Len(t) = n + w
    BY <1>2
  <2> QED BY <1>3, <2>1 DEF EndsIn
<1> QED BY <1>2, <1>4, <1>5, <1>6, <1>7 DEF t, b

(* A mark at the end; a sync mark, not after another.                      *)
LEMMA AppendMark ==
    ASSUME NEW s \in Seq(Token), NEW m \in Nat, Holding(s, m), MarksApart(s),
           NEW mark \in {SyncMark, EndMark},
           mark = SyncMark => ~EndsIn(s, SyncMark)
    PROVE  /\ s \o <<mark>> \in Seq(Token)
           /\ Holding(s \o <<mark>>, m)
           /\ MarksApart(s \o <<mark>>)
           /\ EndsIn(s \o <<mark>>, mark)
           /\ mark = EndMark => ~EndsIn(s \o <<mark>>, SyncMark)
<1> DEFINE t == s \o <<mark>>
           n == Len(s)
<1>1. mark \in Token
  BY Tokens
<1>2. /\ t \in Seq(Token) /\ Len(t) = n + 1 /\ DOMAIN t = 1..(n + 1) /\ n \in Nat
      /\ DOMAIN s = 1..n
      /\ \A i \in 1..n : t[i] = s[i]
      /\ t[n + 1] = mark
  BY <1>1
<1>3. s # << >> <=> n # 0
  OBVIOUS
<1> HIDE DEF t, n
<1>4. Holding(t, m)
  <2> SUFFICES ASSUME NEW k \in 1..m
               PROVE  \E i \in DOMAIN t : t[i] = Byte(k)
    BY DEF Holding
  <2>1. PICK i \in DOMAIN s : s[i] = Byte(k)
    BY DEF Holding
  <2> QED BY <2>1, <1>2
<1>5. MarksApart(t)
  <2> SUFFICES ASSUME NEW i \in 1..(n + 1), i + 1 \in 1..(n + 1),
                      t[i] = SyncMark, t[i + 1] = SyncMark
               PROVE  FALSE
    BY <1>2 DEF MarksApart
  <2>1. CASE i + 1 \in 1..n
    <3>1. i \in 1..n /\ t[i] = s[i] /\ t[i + 1] = s[i + 1]
      BY <1>2, <2>1
    <3> QED BY <1>2, <2>1, <3>1 DEF MarksApart
  <2>2. CASE i + 1 \notin 1..n
    <3>1. i = n /\ n # 0 /\ i \in 1..n
      BY <1>2, <2>2
    <3>2. s[n] = SyncMark /\ mark = SyncMark
      BY <1>2, <3>1
    <3>3. EndsIn(s, SyncMark)
      BY <1>3, <3>1, <3>2 DEF EndsIn, n
    <3> QED BY <3>2, <3>3
  <2> QED BY <2>1, <2>2
<1>6. EndsIn(t, mark) /\ (mark = EndMark => ~EndsIn(t, SyncMark))
  <2>1. t # << >>
    BY <1>2
  <2> QED BY <1>2, <2>1, Tokens DEF EndsIn
<1> QED BY <1>2, <1>4, <1>5, <1>6 DEF t

-----------------------------------------------------------------------------
(* The codec each adapter drives is the one of EncoderCodec.               *)

LEMMA SameCodec ==
    ASSUME NEW e, NEW n, NEW cap
    PROVE  /\ A!EncodeOutcomes(e, n, cap) = EncodeOutcomes(e, n, cap)
           /\ R!EncodeOutcomes(e, n, cap) = EncodeOutcomes(e, n, cap)
           /\ A!FlushOutcomes(e, cap) = FlushOutcomes(e, cap)
           /\ A!FinishOutcomes(e, cap) = FinishOutcomes(e, cap)
           /\ R!FinishOutcomes(e, cap) = FinishOutcomes(e, cap)
<1>1. A!EncodeOutcomes(e, n, cap) = EncodeOutcomes(e, n, cap)
  BY DEF A!EncodeOutcomes, A!BytesFrom, A!Byte, A!OutOfRoom,
         EncodeOutcomes, BytesFrom, Byte, OutOfRoom
<1>2. R!EncodeOutcomes(e, n, cap) = EncodeOutcomes(e, n, cap)
  BY DEF R!EncodeOutcomes, R!BytesFrom, R!Byte, R!OutOfRoom,
         EncodeOutcomes, BytesFrom, Byte, OutOfRoom
<1>3. A!FlushOutcomes(e, cap) = FlushOutcomes(e, cap)
  BY DEF A!FlushOutcomes, A!Drain, A!BytesFrom, A!Byte, A!OutOfRoom, A!SyncMark,
         FlushOutcomes, Drain, BytesFrom, Byte, OutOfRoom, SyncMark
<1>4. A!FinishOutcomes(e, cap) = FinishOutcomes(e, cap)
  BY DEF A!FinishOutcomes, A!Drain, A!BytesFrom, A!Byte, A!OutOfRoom, A!EndMark,
         FinishOutcomes, Drain, BytesFrom, Byte, OutOfRoom, EndMark
<1>5. R!FinishOutcomes(e, cap) = FinishOutcomes(e, cap)
  BY DEF R!FinishOutcomes, R!Drain, R!BytesFrom, R!Byte, R!OutOfRoom, R!EndMark,
         FinishOutcomes, Drain, BytesFrom, Byte, OutOfRoom, EndMark
<1> QED BY <1>1, <1>2, <1>3, <1>4, <1>5

LEMMA FreshEncoder ==
    /\ A!NewEncoder = NewEncoder /\ R!NewEncoder = NewEncoder
    /\ NewEncoder \in EncState
    /\ NewEncoder.taken = 0 /\ NewEncoder.emitted = 0 /\ NewEncoder.ended = FALSE
BY DEF A!NewEncoder, R!NewEncoder, NewEncoder, EncState

-----------------------------------------------------------------------------
(* The tokio writer.                                                       *)

LEMMA SentGrows ==
    ASSUME out \in Seq(Token), wire \in Seq(Token), NEW x \in Seq(Token),
           wire' = wire, out' = out \o x
    PROVE  Sent \in Seq(Token) /\ Sent' = Sent \o x /\ out' \in Seq(Token)
<1>1. wire \o (out \o x) = (wire \o out) \o x
  BY TokensAssociative
<1>2. Sent \in Seq(Token) /\ out \o x \in Seq(Token)
  BY DEF Sent
<1> QED BY <1>1, <1>2 DEF Sent

LEMMA AsyncStarts == A!Init => AsyncInv
<1> SUFFICES ASSUME A!Init
             PROVE  AsyncInv
  OBVIOUS
<1>1. /\ enc = NewEncoder /\ out = << >> /\ wire = << >> /\ reported = 0
      /\ finished = FALSE /\ closing = FALSE
      /\ call = [op |-> "none", len |-> 0, status |-> "none"]
      /\ last = [op |-> "none", how |-> "ready"]
  BY FreshEncoder DEF A!Init, A!Idle
<1>2. call \in AsyncCall /\ call.op = "none"
  BY <1>1 DEF AsyncCall, A!Ops
<1>3. Sent = << >>
  BY <1>1 DEF Sent
<1>4. Holding(Sent, 0) /\ MarksApart(Sent) /\ ~EndsIn(Sent, SyncMark)
  BY <1>3 DEF Holding, MarksApart, EndsIn
<1>5. last # [op |-> "shutdown", how |-> "ready"]
  <2>1. last.op = "none"
    BY <1>1
  <2> QED BY <2>1
<1>6. out \in Seq(Token) /\ wire \in Seq(Token)
  BY <1>1
<1> QED BY <1>1, <1>2, <1>4, <1>5, <1>6, FreshEncoder DEF AsyncInv

(* The caller makes a call.                                                *)
LEMMA AsyncBegins ==
    ASSUME AsyncInv, NEW op \in {"write", "flush", "shutdown"}, NEW len \in Nat,
           A!Begin(op, len), op # "shutdown" => ~closing
    PROVE  AsyncInv'
<1>1. /\ call' = [op |-> op, len |-> len, status |-> "none"]
      /\ last' = [op |-> "none", how |-> "ready"]
      /\ closing' <=> closing \/ op = "shutdown"
      /\ UNCHANGED <<enc, out, finished, sync_flushed, wire, reported>>
  BY DEF A!Begin, A!Idle
<1>2. call' \in AsyncCall /\ call'.op = op /\ call'.status = "none"
  BY <1>1 DEF AsyncCall, A!Ops
<1>3. last' # [op |-> "shutdown", how |-> "ready"]
  <2>1. last'.op = "none"
    BY <1>1
  <2> QED BY <2>1
<1>4. Sent' = Sent
  BY <1>1 DEF Sent
<1> QED BY <1>1, <1>2, <1>3, <1>4 DEF AsyncInv

(* A poll returns.                                                         *)
LEMMA AsyncReturns ==
    ASSUME AsyncInv, NEW how, A!Return(how),
           UNCHANGED <<enc, out, finished, sync_flushed, closing, wire, reported>>,
           call.op = "shutdown" /\ how = "ready" => finished
    PROVE  AsyncInv'
<1>1. /\ call' = [op |-> "none", len |-> 0, status |-> "none"]
      /\ last' = [op |-> call.op, how |-> how]
  BY DEF A!Return, A!Idle
<1>2. call' \in AsyncCall /\ call'.op = "none"
  BY <1>1 DEF AsyncCall, A!Ops
<1>3. last' = [op |-> "shutdown", how |-> "ready"] => call.op = "shutdown" /\ how = "ready"
  <2>1. last'.op = call.op /\ last'.how = how
    BY <1>1
  <2> QED BY <2>1
<1>4. Sent' = Sent
  BY DEF Sent
<1> QED BY <1>2, <1>3, <1>4 DEF AsyncInv

(* The inner writer takes part of the output: the stream is the same.      *)
LEMMA AsyncAccepts ==
    ASSUME AsyncInv, NEW n \in 1..Len(out), A!InnerAccepts(n)
    PROVE  AsyncInv'
<1>1. wire \in Seq(Token) /\ out \in Seq(Token) /\ Len(out) \in Nat /\ out # << >>
  BY DEF AsyncInv, A!InnerAccepts, A!Draining
<1> DEFINE a == SubSeq(out, 1, n)
           b == SubSeq(out, n + 1, Len(out))
<1>2. a \in Seq(Token) /\ b \in Seq(Token)
  BY <1>1
<1>3. a \o b = out
  BY <1>1, ConcatAdjacentSubSeq, SubSeqFull
<1>4. /\ wire' = wire \o a /\ out' = b
      /\ UNCHANGED <<enc, finished, sync_flushed, closing, call, reported, last>>
  BY DEF A!InnerAccepts, A!Unsent
<1> HIDE DEF a, b
<1>5. (wire \o a) \o b = wire \o (a \o b)
  BY <1>1, <1>2, TokensAssociative
<1>6. Sent' = Sent /\ wire' \in Seq(Token) /\ out' \in Seq(Token)
  BY <1>1, <1>2, <1>3, <1>4, <1>5 DEF Sent
<1>7. ~finished
  BY <1>1 DEF AsyncInv
<1> QED BY <1>4, <1>6, <1>7 DEF AsyncInv

LEMMA AsyncEncodes ==
    ASSUME AsyncInv, A!Encode
    PROVE  AsyncInv'
<1>1. PICK r \in EncodeOutcomes(enc, call.len, SCRATCH) :
        /\ enc' = r.enc
        /\ out' = r.out
        /\ sync_flushed' = (sync_flushed /\ r.consumed = 0)
        /\ IF A!EndsWrite(r)
           THEN A!Return("ready") /\ reported' = reported + r.consumed
           ELSE UNCHANGED <<call, last, reported>>
  BY SameCodec DEF A!Encode
<1>2. /\ call.op = "write" /\ out = << >> /\ UNCHANGED <<finished, closing, wire>>
      /\ ~closing /\ ~enc.ended /\ ~finished
  BY DEF A!Encode, A!Drained, AsyncInv
<1>3. /\ enc \in EncState /\ enc.emitted <= enc.taken /\ call.len \in Nat /\ SCRATCH \in Nat
      /\ enc.emitted \in Nat /\ enc.taken \in Nat /\ call \in AsyncCall
      /\ wire \in Seq(Token) /\ out \in Seq(Token)
  BY AdaptersAssumption DEF AsyncInv, AsyncCall, EncState
<1>4. /\ r.enc \in EncState
      /\ r.consumed \in 0..call.len
      /\ r.enc.taken = enc.taken + r.consumed
      /\ r.enc.emitted <= r.enc.taken
      /\ r.enc.ended = enc.ended
      /\ \E w \in Nat : /\ r.enc.emitted = enc.emitted + w
                       /\ r.out = BytesFrom(enc.emitted, w)
  BY <1>3, EncodeContract
<1>5. PICK w \in Nat : enc'.emitted = enc.emitted + w /\ out' = BytesFrom(enc.emitted, w)
  BY <1>1, <1>4
<1>6. BytesFrom(enc.emitted, w) \in Seq(Token)
  BY <1>3, BytesFromType
<1>7. out' = out \o BytesFrom(enc.emitted, w)
  BY <1>2, <1>5, <1>6
<1>8. /\ Sent \in Seq(Token) /\ Sent' = Sent \o BytesFrom(enc.emitted, w)
      /\ out' \in Seq(Token)
  BY <1>2, <1>3, <1>6, <1>7, SentGrows
<1>9. /\ Holding(Sent', enc'.emitted) /\ MarksApart(Sent')
      /\ w = 0 => Sent' = Sent
      /\ w # 0 => ~EndsIn(Sent', SyncMark)
  BY <1>3, <1>5, <1>8, AppendBytes DEF AsyncInv
<1>10. reported' = enc'.taken
  <2>1. CASE A!EndsWrite(r)
    BY <1>1, <1>4, <2>1 DEF AsyncInv
  <2>2. CASE ~A!EndsWrite(r)
    <3>1. r.consumed = 0
      BY <1>3, <1>4, <2>2 DEF A!EndsWrite
    <3> QED BY <1>1, <1>3, <1>4, <2>2, <3>1 DEF AsyncInv
  <2> QED BY <2>1, <2>2
<1>11. ASSUME EndsIn(Sent', SyncMark)
       PROVE  sync_flushed' \/ enc'.emitted < enc'.taken
  <2>1. w = 0 /\ Sent' = Sent /\ enc'.emitted = enc.emitted
    BY <1>3, <1>5, <1>9, <1>11
  <2>2. CASE r.consumed = 0
    <3>2. enc'.taken = enc.taken
      BY <1>1, <1>3, <1>4, <2>2
    <3>3. sync_flushed \/ enc.emitted < enc.taken
      BY <1>11, <2>1 DEF AsyncInv
    <3>4. sync_flushed => sync_flushed'
      BY <1>1, <2>2
    <3> QED BY <2>1, <3>2, <3>3, <3>4
  <2>3. CASE r.consumed # 0
    BY <1>1, <1>3, <1>4, <2>1, <2>3
  <2> QED BY <2>2, <2>3
<1>12. /\ call' \in AsyncCall /\ call'.op \in {"write", "none"}
       /\ last' = [op |-> "shutdown", how |-> "ready"] => FALSE
  <2>1. CASE A!EndsWrite(r)
    <3>1. /\ call' = [op |-> "none", len |-> 0, status |-> "none"]
          /\ last' = [op |-> "write", how |-> "ready"]
      BY <1>1, <1>2, <2>1 DEF A!Return, A!Idle
    <3>2. last'.op = "write"
      BY <3>1
    <3> QED BY <3>1, <3>2 DEF AsyncCall, A!Ops
  <2>2. CASE ~A!EndsWrite(r)
    BY <1>1, <1>2, <1>3, <2>2 DEF AsyncInv
  <2> QED BY <2>1, <2>2
<1>13. enc' \in EncState /\ enc'.emitted <= enc'.taken /\ ~enc'.ended
  BY <1>1, <1>2, <1>4
<1>14. wire' \in Seq(Token)
  BY <1>2, <1>3
<1> QED BY <1>2, <1>8, <1>9, <1>10, <1>11, <1>12, <1>13, <1>14 DEF AsyncInv

(* A poll goes on with a status of the codec, or stalls.                   *)
LEMMA AsyncGoesOn ==
    ASSUME AsyncInv, NEW status \in Status,
           \/ A!Return("error")
           \/ call' = [call EXCEPT !.status = status] /\ UNCHANGED last
    PROVE  /\ call' \in AsyncCall
           /\ (call'.op = call.op /\ call'.status = status) \/ call'.op = "none"
           /\ last' = [op |-> "shutdown", how |-> "ready"] => last' = last
<1>1. CASE A!Return("error")
  <2>1. /\ call' = [op |-> "none", len |-> 0, status |-> "none"]
        /\ last' = [op |-> call.op, how |-> "error"]
    BY <1>1 DEF A!Return, A!Idle
  <2>2. last'.how = "error"
    BY <2>1
  <2> QED BY <2>1, <2>2 DEF AsyncCall, A!Ops
<1>2. CASE call' = [call EXCEPT !.status = status] /\ UNCHANGED last
  BY <1>2 DEF AsyncInv, AsyncCall
<1> QED BY <1>1, <1>2

LEMMA AsyncFlushes ==
    ASSUME AsyncInv, A!Flush
    PROVE  AsyncInv'
<1>1. PICK r \in FlushOutcomes(enc, SCRATCH) :
        /\ enc' = r.enc
        /\ out' = out \o r.out
        /\ sync_flushed' = (r.status # "OutputFull")
        /\ \/ A!Return("error")
           \/ call' = [call EXCEPT !.status = r.status] /\ UNCHANGED last
  BY SameCodec DEF A!Flush
<1>2. /\ call.op = "flush" /\ ~sync_flushed /\ UNCHANGED <<finished, closing, wire, reported>>
      /\ ~closing /\ ~enc.ended /\ ~finished
  BY DEF A!Flush, A!MustFlush, AsyncInv
<1>3. /\ enc \in EncState /\ enc.emitted <= enc.taken /\ SCRATCH \in Nat
      /\ enc.emitted \in Nat /\ enc.taken \in Nat
      /\ wire \in Seq(Token) /\ out \in Seq(Token)
  BY AdaptersAssumption DEF AsyncInv, EncState
<1>4. /\ r.enc \in EncState /\ r.enc.taken = enc.taken /\ r.enc.ended = enc.ended
      /\ r.enc.emitted <= r.enc.taken /\ r.status \in {"InputEmpty", "OutputFull"}
      /\ \E w \in Nat :
           /\ r.enc.emitted = enc.emitted + w
           /\ \/ r.out = BytesFrom(enc.emitted, w)
              \/ /\ r.out = BytesFrom(enc.emitted, w) \o <<SyncMark>>
                 /\ r.enc.emitted = enc.taken /\ r.status = "InputEmpty"
  BY <1>3, FlushContract
<1>5. PICK w \in Nat :
        /\ enc'.emitted = enc.emitted + w
        /\ \/ r.out = BytesFrom(enc.emitted, w)
           \/ /\ r.out = BytesFrom(enc.emitted, w) \o <<SyncMark>>
              /\ enc'.emitted = enc.taken /\ r.status = "InputEmpty"
  BY <1>1, <1>4
<1> DEFINE b == BytesFrom(enc.emitted, w)
<1>6. b \in Seq(Token) /\ <<SyncMark>> \in Seq(Token) /\ b \o <<SyncMark>> \in Seq(Token)
  <2>1. b \in Seq(Token)
    BY ONLY <1>3, w \in Nat, BytesFromType
  <2>2. <<SyncMark>> \in Seq(Token)
    BY Tokens
  <2> HIDE DEF b
  <2>3. b \o <<SyncMark>> \in Seq(Token)
    BY <2>1, <2>2
  <2> QED BY <2>1, <2>2, <2>3
<1>7. Sent \in Seq(Token) /\ EndsIn(Sent, SyncMark) => enc.emitted < enc.taken
  BY <1>2, <1>3 DEF AsyncInv, Sent
<1>8. Sent \in Seq(Token)
  BY <1>3 DEF Sent
<1>9. /\ Sent \o b \in Seq(Token)
      /\ Holding(Sent \o b, enc'.emitted) /\ MarksApart(Sent \o b)
      /\ w = 0 => Sent \o b = Sent
      /\ w # 0 => ~EndsIn(Sent \o b, SyncMark)
  <2>1. Holding(Sent, enc.emitted) /\ MarksApart(Sent)
    BY DEF AsyncInv
  <2>2. enc.emitted \in Nat
    BY <1>3
  <2> QED BY ONLY <1>5, <1>8, <2>1, <2>2, w \in Nat, AppendBytes
<1> HIDE DEF b
<1>10. /\ out' \in Seq(Token) /\ Holding(Sent', enc'.emitted) /\ MarksApart(Sent')
       /\ EndsIn(Sent', SyncMark) => sync_flushed' \/ enc'.emitted < enc'.taken
  <2>1. CASE r.out = b
    <3>1. Sent' = Sent \o b /\ out' \in Seq(Token)
      BY <1>1, <1>2, <1>3, <1>6, <2>1, SentGrows
    <3>2. w = 0 => Sent' = Sent /\ enc'.emitted = enc.emitted
      BY <1>3, <1>5, <1>9, <3>1
    <3>3. enc'.taken = enc.taken
      BY <1>1, <1>4
    <3>4. EndsIn(Sent', SyncMark) => enc'.emitted < enc'.taken
      BY <1>7, <1>8, <1>9, <3>1, <3>2, <3>3
    <3> QED BY <1>9, <3>1, <3>4
  <2>2. CASE r.out = b \o <<SyncMark>> /\ enc'.emitted = enc.taken /\ r.status = "InputEmpty"
    <3>1. Sent' = Sent \o (b \o <<SyncMark>>) /\ out' \in Seq(Token)
      BY <1>1, <1>2, <1>3, <1>6, <2>2, SentGrows
    <3>2. Sent' = (Sent \o b) \o <<SyncMark>>
      BY <1>6, <1>8, <3>1, TokensAssociative
    <3>3. w = 0 => ~EndsIn(Sent \o b, SyncMark)
      <4>1. w = 0 => enc.emitted = enc.taken
        BY <1>3, <1>5, <2>2
      <4>2. w = 0 => ~EndsIn(Sent, SyncMark)
        BY <1>3, <1>7, <1>8, <4>1
      <4> QED BY <1>9, <4>2, Zenon
    <3>4. ~EndsIn(Sent \o b, SyncMark)
      BY <1>9, <3>3
    <3>5. enc'.emitted \in Nat
      BY <1>3, <2>2
    <3>6. Holding(Sent', enc'.emitted) /\ MarksApart(Sent')
      BY <1>9, <3>2, <3>4, <3>5, AppendMark
    <3>7. sync_flushed'
      BY <1>1, <2>2
    <3> QED BY <3>1, <3>6, <3>7
  <2> QED BY <1>5, <2>1, <2>2 DEF b
<1>11. r.status \in Status
  BY <1>4 DEF Status
<1>12. /\ call' \in AsyncCall
       /\ call'.op = "flush" \/ call'.op = "none"
       /\ last' = [op |-> "shutdown", how |-> "ready"] => last' = last
  BY <1>1, <1>2, <1>11, AsyncGoesOn
<1>13. /\ enc' \in EncState /\ enc'.emitted <= enc'.taken /\ ~enc'.ended
       /\ reported' = enc'.taken /\ wire' \in Seq(Token)
  BY <1>1, <1>2, <1>3, <1>4 DEF AsyncInv
<1>14. last' # [op |-> "shutdown", how |-> "ready"]
  BY <1>2, <1>12 DEF AsyncInv
<1> QED BY <1>2, <1>10, <1>12, <1>13, <1>14 DEF AsyncInv

LEMMA AsyncFinishes ==
    ASSUME AsyncInv, A!Finish
    PROVE  AsyncInv'
<1>1. PICK r \in FinishOutcomes(enc, SCRATCH) :
        /\ enc' = r.enc
        /\ out' = r.out
        /\ \/ A!Return("error")
           \/ call' = [call EXCEPT !.status = r.status] /\ UNCHANGED last
  BY SameCodec DEF A!Finish
<1>2. /\ call.op = "shutdown" /\ out = << >> /\ closing /\ ~finished
      /\ UNCHANGED <<finished, sync_flushed, closing, wire, reported>>
  BY DEF A!Finish, A!Drained, AsyncInv
<1>3. /\ enc \in EncState /\ enc.emitted <= enc.taken /\ SCRATCH \in Nat
      /\ enc.emitted \in Nat /\ enc.taken \in Nat
      /\ wire \in Seq(Token) /\ out \in Seq(Token)
  BY AdaptersAssumption DEF AsyncInv, EncState
<1>4. /\ enc.ended => r.enc = enc /\ r.out = << >>
      /\ ~enc.ended =>
           /\ r.enc \in EncState
           /\ r.enc.taken = enc.taken
           /\ r.enc.emitted <= r.enc.taken
           /\ r.out = << >> => SCRATCH < Atom
           /\ \E w \in Nat :
                /\ r.enc.emitted = enc.emitted + w
                /\ ~r.enc.ended => r.out = BytesFrom(enc.emitted, w)
                /\ r.enc.ended => /\ r.out = BytesFrom(enc.emitted, w) \o <<EndMark>>
                                  /\ r.enc.emitted = enc.taken
      /\ r.status = "StreamEnd" <=> r.enc.ended
      /\ r.status \in Status
  <2>1. r \in FinishOutcomes(enc, SCRATCH)
    OBVIOUS
  <2> QED BY ONLY <1>3, <2>1, FinishContract
<1>5. r.status \in Status
  BY <1>4
<1>6. /\ call' \in AsyncCall
      /\ (call'.op = "shutdown" /\ call'.status = r.status) \/ call'.op = "none"
      /\ last' = [op |-> "shutdown", how |-> "ready"] => last' = last
  BY <1>1, <1>2, <1>5, AsyncGoesOn
<1>7. /\ call'.op = "shutdown" /\ call'.status = "StreamEnd" => enc'.ended
      /\ call'.op \notin {"write", "flush"}
      /\ last' # [op |-> "shutdown", how |-> "ready"]
  BY <1>1, <1>2, <1>4, <1>6 DEF AsyncInv
<1>8. CASE enc.ended
  <2>1. UNCHANGED <<enc, out>> /\ Sent' = Sent
    BY <1>1, <1>2, <1>4, <1>8 DEF Sent
  <2> QED BY <1>2, <1>6, <1>7, <2>1 DEF AsyncInv
<1>9. CASE ~enc.ended
  <2>1. PICK w \in Nat :
          /\ enc'.emitted = enc.emitted + w
          /\ ~enc'.ended => out' = BytesFrom(enc.emitted, w)
          /\ enc'.ended => /\ out' = BytesFrom(enc.emitted, w) \o <<EndMark>>
                           /\ enc'.emitted = enc.taken
    BY <1>1, <1>4, <1>9
  <2> DEFINE b == BytesFrom(enc.emitted, w)
  <2>2. b \in Seq(Token) /\ <<EndMark>> \in Seq(Token) /\ b \o <<EndMark>> \in Seq(Token)
    <3>1. b \in Seq(Token)
      BY ONLY <1>3, w \in Nat, BytesFromType
    <3>2. <<EndMark>> \in Seq(Token)
      BY Tokens
    <3> HIDE DEF b
    <3>3. b \o <<EndMark>> \in Seq(Token)
      BY <3>1, <3>2
    <3> QED BY <3>1, <3>2, <3>3
  <2>3. Sent \in Seq(Token)
    BY <1>3 DEF Sent
  <2>4. /\ Sent \o b \in Seq(Token)
        /\ Holding(Sent \o b, enc'.emitted) /\ MarksApart(Sent \o b)
        /\ w = 0 => Sent \o b = Sent
        /\ w # 0 => ~EndsIn(Sent \o b, SyncMark)
    BY <1>3, <2>1, <2>3, AppendBytes DEF AsyncInv
  <2> HIDE DEF b
  <2>5. /\ enc' \in EncState /\ enc'.emitted <= enc'.taken /\ enc'.taken = enc.taken
        /\ reported' = enc'.taken /\ wire' \in Seq(Token)
    BY <1>1, <1>2, <1>3, <1>4, <1>9 DEF AsyncInv
  <2>6. CASE ~enc'.ended
    <3>1. out' = out \o b
      BY <1>2, <2>1, <2>2, <2>6 DEF b
    <3>2. Sent' = Sent \o b /\ out' \in Seq(Token)
      BY <1>2, <1>3, <2>2, <3>1, SentGrows
    <3>3. w = 0 => Sent' = Sent /\ enc'.emitted = enc.emitted
      BY <1>3, <2>1, <2>4, <3>2
    <3>4. ASSUME EndsIn(Sent', SyncMark)
          PROVE  sync_flushed' \/ enc'.emitted < enc'.taken
      <4>1. w = 0
        BY <2>4, <3>2, <3>4
      <4>2. sync_flushed \/ enc.emitted < enc.taken
        BY <3>3, <3>4, <4>1 DEF AsyncInv
      <4> QED BY <1>2, <2>5, <3>3, <4>1, <4>2
    <3> QED BY <1>2, <1>6, <1>7, <2>4, <2>5, <2>6, <3>2, <3>4 DEF AsyncInv
  <2>7. CASE enc'.ended
    <3>1. out' = out \o (b \o <<EndMark>>)
      BY <1>2, <2>1, <2>2, <2>7 DEF b
    <3>2. Sent' = Sent \o (b \o <<EndMark>>) /\ out' \in Seq(Token)
      BY <1>2, <1>3, <2>2, <3>1, SentGrows
    <3>3. Sent' = (Sent \o b) \o <<EndMark>>
      BY <2>2, <2>3, <3>2, TokensAssociative
    <3>4. enc'.emitted \in Nat /\ enc'.emitted = enc'.taken
      BY <1>3, <2>1, <2>5, <2>7
    <3>5. /\ Holding(Sent', enc'.emitted) /\ MarksApart(Sent')
          /\ EndsIn(Sent', EndMark) /\ ~EndsIn(Sent', SyncMark)
      BY <2>4, <3>3, <3>4, AppendMark, Tokens
    <3> QED BY <1>2, <1>6, <1>7, <2>5, <3>2, <3>4, <3>5 DEF AsyncInv
  <2> QED BY <2>6, <2>7
<1> QED BY <1>8, <1>9

LEMMA AsyncKeeps == AsyncInv /\ A!Next => AsyncInv'
<1> SUFFICES ASSUME AsyncInv, A!Next
             PROVE  AsyncInv'
  OBVIOUS
<1>1. CASE \E n \in 0..MaxBytes : A!PollWrite(n)
  <2>1. PICK n \in 0..MaxBytes : A!PollWrite(n)
    BY <1>1
  <2>2. n \in Nat /\ A!Begin("write", n) /\ ~closing
    BY <2>1, AdaptersAssumption DEF A!PollWrite
  <2> QED BY <2>2, AsyncBegins
<1>2. CASE A!PollFlush
  <2>1. A!Begin("flush", 0) /\ ~closing
    BY <1>2 DEF A!PollFlush
  <2> QED BY <2>1, AsyncBegins
<1>3. CASE A!PollShutdown
  <2>1. A!Begin("shutdown", 0)
    BY <1>3 DEF A!PollShutdown
  <2> QED BY <2>1, AsyncBegins
<1>4. CASE \E n \in 1..Len(out) : A!InnerAccepts(n)
  BY <1>4, AsyncAccepts
<1>5. CASE A!InnerRefuses
  <2>1. PICK how \in {"pending", "error"} : A!Return(how)
    BY <1>5 DEF A!InnerRefuses
  <2>2. UNCHANGED <<enc, out, finished, sync_flushed, closing, wire, reported>>
    BY <1>5 DEF A!InnerRefuses
  <2> QED BY <2>1, <2>2, AsyncReturns
<1>6. CASE A!Flush
  BY <1>6, AsyncFlushes
<1>7. CASE A!FlushReturns
  <2>1. PICK how \in {"ready", "pending", "error"} : A!Return(how)
    BY <1>7 DEF A!FlushReturns
  <2>2. /\ UNCHANGED <<enc, out, finished, sync_flushed, closing, wire, reported>>
        /\ call.op = "flush"
    BY <1>7 DEF A!FlushReturns, A!Drained
  <2> QED BY <2>1, <2>2, AsyncReturns
<1>8. CASE A!Encode
  BY <1>8, AsyncEncodes
<1>9. CASE A!Finish
  BY <1>9, AsyncFinishes
<1>10. CASE A!FinishDone
  <2>1. /\ call.op = "shutdown" /\ call.status = "StreamEnd" /\ out = << >>
        /\ UNCHANGED <<enc, out, sync_flushed, closing, call, wire, reported, last>>
    BY <1>10 DEF A!FinishDone, A!Drained
  <2>2. Sent' = Sent /\ enc.ended
    BY <2>1 DEF Sent, AsyncInv
  <2>3. last = [op |-> "shutdown", how |-> "ready"] => finished'
    BY <1>10 DEF A!FinishDone
  <2> QED BY <2>1, <2>2, <2>3 DEF AsyncInv
<1>11. CASE \E how \in {"ready", "pending", "error"} : A!ShutdownReturns(how)
  <2>1. PICK how \in {"ready", "pending", "error"} : A!ShutdownReturns(how)
    BY <1>11
  <2>2. /\ A!Return(how) /\ finished
        /\ UNCHANGED <<enc, out, finished, sync_flushed, closing, wire, reported>>
    BY <2>1 DEF A!ShutdownReturns
  <2> QED BY <2>2, AsyncReturns
<1>12. CASE A!CodecFails
  <2>1. /\ A!Return("error")
        /\ UNCHANGED <<enc, out, finished, sync_flushed, closing, wire, reported>>
    BY <1>12 DEF A!CodecFails
  <2> QED BY <2>1, AsyncReturns
<1> QED BY <1>1, <1>2, <1>3, <1>4, <1>5, <1>6, <1>7, <1>8, <1>9, <1>10, <1>11, <1>12
        DEF A!Next, A!Caller, A!Progress

-----------------------------------------------------------------------------
(* The reader.                                                             *)

LEMMA Join ==
    ASSUME NEW m \in Nat, NEW w \in Nat
    PROVE  BytesFrom(0, m) \o BytesFrom(m, w) = BytesFrom(0, m + w)
<1> DEFINE a == BytesFrom(0, m)
           b == BytesFrom(m, w)
           c == BytesFrom(0, m + w)
<1>1. a \in Seq(Token) /\ Len(a) = m /\ \A i \in 1..m : a[i] = Byte(0 + i)
  BY BytesFromType
<1>2. b \in Seq(Token) /\ Len(b) = w /\ \A i \in 1..w : b[i] = Byte(m + i)
  BY BytesFromType
<1>3. c \in Seq(Token) /\ Len(c) = m + w /\ \A i \in 1..(m + w) : c[i] = Byte(0 + i)
  <2>1. m + w \in Nat
    OBVIOUS
  <2> QED BY <2>1, BytesFromType
<1> HIDE DEF a, b, c
<1>4. a \o b \in Seq(Token) /\ Len(a \o b) = m + w
  BY <1>1, <1>2
<1>5. ASSUME NEW i \in 1..(m + w)
      PROVE  (a \o b)[i] = c[i]
  <2>1. CASE i <= m
    <3>1. i \in 1..m /\ (a \o b)[i] = a[i]
      BY <1>1, <1>2, <2>1
    <3> QED BY <1>1, <1>3, <3>1
  <2>2. CASE i > m
    <3>1. i - m \in 1..w /\ m + (i - m) = 0 + i
      BY <2>2
    <3>2. (a \o b)[i] = b[i - m]
      BY <1>1, <1>2, <2>2
    <3>3. b[i - m] = Byte(m + (i - m))
      BY <1>2, <3>1
    <3>4. c[i] = Byte(0 + i)
      BY <1>3
    <3> QED BY <3>1, <3>2, <3>3, <3>4
  <2>3. i <= m \/ i > m
    OBVIOUS
  <2> QED BY ONLY <2>1, <2>2, <2>3
<1>6. a \o b = c
  BY <1>3, <1>4, <1>5, SeqEqual
<1> QED BY <1>6 DEF a, b, c

(* What the codec has not taken of in_buf.                                 *)
LEMMA BufferedIs ==
    ASSUME ReaderInv
    PROVE  /\ R!Buffered \in Seq(Nat)
           /\ Len(R!Buffered) = Len(in_buf) - in_consumed
           /\ \A i \in 1..(Len(in_buf) - in_consumed) : R!Buffered[i] = enc.taken + i
<1> DEFINE n == Len(in_buf)
<1>1. in_buf \in Seq(Nat) /\ n \in Nat /\ in_consumed \in 0..n
  BY DEF ReaderInv
<1>2. R!Buffered = SubSeq(in_buf, in_consumed + 1, n)
  BY DEF R!Buffered
<1>3. R!Buffered \in Seq(Nat)
  BY <1>1, <1>2
<1>4. Len(R!Buffered) = n - in_consumed
  BY <1>1, <1>2
<1>5. ASSUME NEW i \in 1..(n - in_consumed)
      PROVE  R!Buffered[i] = in_buf[in_consumed + i]
  BY <1>1, <1>2
<1> QED BY <1>3, <1>4, <1>5 DEF ReaderInv

LEMMA FirstOf ==
    ASSUME NEW s \in Seq(Nat), NEW c \in 0..Len(s)
    PROVE  /\ SubSeq(s, 1, c) \in Seq(Nat) /\ Len(SubSeq(s, 1, c)) = c
           /\ \A i \in 1..c : SubSeq(s, 1, c)[i] = s[i]
OBVIOUS

LEMMA FollowedBy ==
    ASSUME NEW s \in Seq(Nat), NEW t \in Seq(Nat)
    PROVE  /\ s \o t \in Seq(Nat) /\ Len(s \o t) = Len(s) + Len(t)
           /\ \A i \in 1..Len(s) : (s \o t)[i] = s[i]
           /\ \A i \in 1..Len(t) : (s \o t)[Len(s) + i] = t[i]
OBVIOUS

LEMMA ReaderStarts == R!Init => ReaderInv
<1> SUFFICES ASSUME R!Init
             PROVE  ReaderInv
  OBVIOUS
<1>1. /\ enc = NewEncoder /\ size \in Nat /\ pulled = 0 /\ in_buf = << >> /\ in_consumed = 0
      /\ inner_eof = FALSE /\ finished = FALSE /\ room = 0 /\ fed = << >> /\ got = << >>
      /\ last = "none"
  BY FreshEncoder, AdaptersAssumption DEF R!Init
<1>2. BytesFrom(0, 0) = << >>
  BY DEF BytesFrom
<1>3. got = BytesFrom(0, enc.emitted) \o (IF enc.ended THEN <<EndMark>> ELSE << >>)
  BY <1>1, <1>2, FreshEncoder
<1> QED BY <1>1, <1>3, FreshEncoder DEF ReaderInv

(* A read starts, or returns what is not the end.                          *)
LEMMA ReaderStays ==
    ASSUME ReaderInv, UNCHANGED <<enc, size, pulled, in_buf, inner_eof, in_consumed, finished,
                                  fed, got>>,
           room' \in Nat, last' = "eof" => finished
    PROVE  ReaderInv'
BY DEF ReaderInv

LEMMA ReaderEncodes ==
    ASSUME ReaderInv, R!Encode
    PROVE  ReaderInv'
<1>1. PICK r \in EncodeOutcomes(enc, Len(R!Buffered), room) :
        /\ enc' = r.enc
        /\ in_consumed' = in_consumed + r.consumed
        /\ fed' = fed \o SubSeq(R!Buffered, 1, r.consumed)
        /\ got' = got \o r.out
        /\ IF r.out # << >> THEN R!Return("data")
           ELSE IF r.status = "OutputFull" THEN R!Return("eof")
           ELSE UNCHANGED <<room, last>>
  BY SameCodec DEF R!Encode
<1>2. /\ room > 0 /\ ~finished /\ ~enc.ended
      /\ UNCHANGED <<size, pulled, in_buf, inner_eof, finished>>
  BY DEF R!Encode, R!Reading, ReaderInv
<1> DEFINE n == Len(in_buf)
           c == r.consumed
<1>3. /\ enc \in EncState /\ enc.emitted <= enc.taken /\ room \in Nat
      /\ enc.emitted \in Nat /\ enc.taken \in Nat
      /\ in_buf \in Seq(Nat) /\ n \in Nat /\ in_consumed \in 0..n
      /\ pulled = enc.taken + (n - in_consumed) /\ pulled \in 0..size /\ size \in Nat
      /\ fed \in Seq(Nat) /\ Len(fed) = enc.taken /\ \A i \in 1..enc.taken : fed[i] = i
  BY DEF ReaderInv, EncState
<1>4. /\ R!Buffered \in Seq(Nat) /\ Len(R!Buffered) = n - in_consumed
      /\ \A i \in 1..(n - in_consumed) : R!Buffered[i] = enc.taken + i
  BY BufferedIs
<1>5. n - in_consumed \in Nat
  BY <1>3
<1>6. /\ r.enc \in EncState
      /\ r.consumed \in 0..(n - in_consumed)
      /\ r.enc.taken = enc.taken + r.consumed
      /\ r.enc.emitted <= r.enc.taken
      /\ r.enc.ended = enc.ended
      /\ \E w \in Nat : /\ r.enc.emitted = enc.emitted + w
                       /\ r.out = BytesFrom(enc.emitted, w)
      /\ r.status = "OutputFull" /\ r.out = << >> => room < Atom
  <2>1. r \in EncodeOutcomes(enc, n - in_consumed, room)
    BY <1>4
  <2> HIDE DEF n
  <2> QED BY <1>3, <1>5, <2>1, EncodeContract
<1>7. c \in 0..(n - in_consumed) /\ enc'.taken = enc.taken + c /\ ~enc'.ended
  BY <1>1, <1>2, <1>6
<1>8. got' = BytesFrom(0, enc'.emitted) \o (IF enc'.ended THEN <<EndMark>> ELSE << >>)
  <2>1. PICK w \in Nat : enc'.emitted = enc.emitted + w /\ r.out = BytesFrom(enc.emitted, w)
    BY <1>1, <1>6
  <2>2. got = BytesFrom(0, enc.emitted)
    <3>1. BytesFrom(0, enc.emitted) \in Seq(Token)
      BY <1>3, BytesFromType
    <3> QED BY <1>2, <3>1 DEF ReaderInv
  <2>3. got' = BytesFrom(0, enc'.emitted)
    BY <1>1, <1>3, <2>1, <2>2, Join
  <2>4. BytesFrom(0, enc'.emitted) \in Seq(Token)
    <3>1. enc'.emitted \in Nat /\ 0 \in Nat
      BY <1>3, <2>1
    <3> QED BY ONLY <3>1, BytesFromType
  <2> QED BY <1>7, <2>3, <2>4
<1> HIDE DEF n, c
<1>9. fed' \in Seq(Nat) /\ Len(fed') = enc'.taken /\ \A i \in 1..enc'.taken : fed'[i] = i
  <2> DEFINE s == SubSeq(R!Buffered, 1, c)
  <2>1. /\ s \in Seq(Nat) /\ Len(s) = c
        /\ \A i \in 1..c : s[i] = enc.taken + i
    <3>1. c \in 0..Len(R!Buffered) /\ R!Buffered \in Seq(Nat)
      BY <1>4, <1>7
    <3>2. /\ s \in Seq(Nat) /\ Len(s) = c
          /\ \A i \in 1..c : s[i] = R!Buffered[i]
      BY ONLY <3>1, FirstOf
    <3>3. \A i \in 1..c : i \in 1..(n - in_consumed)
      BY <1>5, <1>7
    <3> QED BY <1>4, <3>2, <3>3
  <2> HIDE DEF s
  <2>2. fed' = fed \o s
    BY <1>1 DEF s, c
  <2>3. fed' \in Seq(Nat) /\ Len(fed') = enc.taken + c
    BY <1>3, <1>7, <2>1, <2>2
  <2>4. ASSUME NEW i \in 1..(enc.taken + c)
        PROVE  fed'[i] = i
    <3>1. CASE i <= enc.taken
      BY <1>3, <1>7, <2>1, <2>2, <3>1
    <3>2. CASE i > enc.taken
      <4>1. PICK j \in 1..c : i = enc.taken + j
        <5>1. i - enc.taken \in 1..c /\ i = enc.taken + (i - enc.taken)
          BY <1>3, <1>7, <3>2
        <5> QED BY <5>1
      <4>2. (fed \o s)[Len(fed) + j] = s[j]
        BY ONLY <1>3, <2>1, j \in 1..c, FollowedBy
      <4>3. fed'[i] = s[j] /\ s[j] = i
        BY <1>3, <2>1, <2>2, <4>1, <4>2
      <4> QED BY <4>3
    <3> QED BY <1>3, <1>7, <3>1, <3>2
  <2> QED BY <1>7, <2>3, <2>4
<1>10. /\ in_consumed' = in_consumed + c /\ in_consumed' \in 0..Len(in_buf')
       /\ pulled' = enc'.taken + (Len(in_buf') - in_consumed')
  <2>1. in_consumed' = in_consumed + c /\ Len(in_buf') = n
    BY <1>1, <1>2 DEF n, c
  <2>2. in_consumed + c \in 0..n
    BY <1>3, <1>7
  <2>3. pulled = enc.taken + c + (n - (in_consumed + c)) /\ pulled' = pulled
    BY <1>2, <1>3, <1>7
  <2> QED BY <1>7, <2>1, <2>2, <2>3
<1>11. ASSUME NEW i \in 1..(Len(in_buf') - in_consumed')
       PROVE  in_buf'[in_consumed' + i] = enc'.taken + i
  <2>1. c + i \in 1..(n - in_consumed) /\ in_consumed' + i = in_consumed + (c + i)
    BY <1>2, <1>3, <1>7, <1>10 DEF n
  <2>2. in_buf[in_consumed + (c + i)] = enc.taken + (c + i)
    BY <2>1 DEF ReaderInv, n
  <2> QED BY <1>2, <1>3, <1>7, <2>1, <2>2
<1>12. room' \in Nat /\ (last' = "eof" => FALSE)
  <2>1. CASE r.out # << >>
    BY <1>1, <2>1 DEF R!Return
  <2>2. CASE r.out = << >> /\ r.status = "OutputFull"
    BY <1>2, <1>3, <1>6, <2>2, AnyRoomAssumption
  <2>3. CASE r.out = << >> /\ r.status # "OutputFull"
    BY <1>1, <1>2, <1>3, <2>3 DEF ReaderInv
  <2> QED BY <2>1, <2>2, <2>3
<1>13. enc' \in EncState /\ enc'.emitted <= enc'.taken
  BY <1>1, <1>6
<1> QED BY <1>2, <1>3, <1>7, <1>8, <1>9, <1>10, <1>11, <1>12, <1>13 DEF ReaderInv

LEMMA ReaderFinishes ==
    ASSUME ReaderInv, R!Finish
    PROVE  ReaderInv'
<1>1. PICK r \in FinishOutcomes(enc, room) :
        /\ enc' = r.enc
        /\ finished' = (r.status = "StreamEnd")
        /\ got' = got \o r.out
        /\ R!Return(IF r.out # << >> THEN "data" ELSE "eof")
  BY SameCodec DEF R!Finish, R!StreamEnded
<1>2. /\ room > 0 /\ ~finished /\ ~enc.ended /\ inner_eof /\ in_consumed = Len(in_buf)
      /\ UNCHANGED <<size, pulled, in_buf, in_consumed, inner_eof, fed>>
  BY DEF R!Finish, R!Exhausted, R!Reading, ReaderInv
<1>3. /\ enc \in EncState /\ enc.emitted <= enc.taken /\ room \in Nat
      /\ enc.emitted \in Nat /\ enc.taken \in Nat
  BY DEF ReaderInv, EncState
<1>4. /\ r.enc \in EncState
      /\ r.enc.taken = enc.taken
      /\ r.enc.emitted <= r.enc.taken
      /\ r.out = << >> => room < Atom
      /\ \E w \in Nat :
           /\ r.enc.emitted = enc.emitted + w
           /\ ~r.enc.ended => r.out = BytesFrom(enc.emitted, w)
           /\ r.enc.ended => /\ r.out = BytesFrom(enc.emitted, w) \o <<EndMark>>
                             /\ r.enc.emitted = enc.taken
      /\ r.status = "StreamEnd" <=> r.enc.ended
  <2>1. r \in FinishOutcomes(enc, room) /\ ~enc.ended
    BY <1>2
  <2> QED BY ONLY <1>3, <2>1, FinishContract
<1>5. PICK w \in Nat :
        /\ enc'.emitted = enc.emitted + w
        /\ ~enc'.ended => r.out = BytesFrom(enc.emitted, w)
        /\ enc'.ended => /\ r.out = BytesFrom(enc.emitted, w) \o <<EndMark>>
                         /\ enc'.emitted = enc.taken
  BY <1>1, <1>4
<1> DEFINE b == BytesFrom(enc.emitted, w)
<1>6. got \in Seq(Token) /\ got = BytesFrom(0, enc.emitted)
  <2>1. BytesFrom(0, enc.emitted) \in Seq(Token)
    BY <1>3, BytesFromType
  <2> QED BY <1>2, <2>1 DEF ReaderInv
<1>7. got \o b = BytesFrom(0, enc'.emitted)
  BY <1>3, <1>5, <1>6, Join
<1>8. b \in Seq(Token) /\ <<EndMark>> \in Seq(Token)
  <2>1. b \in Seq(Token)
    BY ONLY <1>3, w \in Nat, BytesFromType
  <2> QED BY <2>1, Tokens
<1> HIDE DEF b
<1>9. got' = BytesFrom(0, enc'.emitted) \o (IF enc'.ended THEN <<EndMark>> ELSE << >>)
  <2>1. CASE ~enc'.ended
    <3>1. got' = got \o b /\ got \o b \in Seq(Token)
      <4>1. got' = got \o b
        BY <1>1, <1>5, <2>1 DEF b
      <4> QED BY <1>6, <1>8, <4>1
    <3> QED BY <1>7, <2>1, <3>1
  <2>2. CASE enc'.ended
    <3>1. got' = got \o (b \o <<EndMark>>)
      BY <1>1, <1>5, <2>2 DEF b
    <3>2. got' = (got \o b) \o <<EndMark>>
      BY <1>6, <1>8, <3>1, TokensAssociative
    <3> QED BY <1>7, <2>2, <3>2
  <2> QED BY <2>1, <2>2
<1>10. room' \in Nat /\ last' = "data"
  <2>1. r.out # << >>
    BY <1>2, <1>3, <1>4, AnyRoomAssumption
  <2> QED BY <1>1, <2>1 DEF R!Return
<1>11. finished' <=> enc'.ended
  BY <1>1, <1>4
<1>12. enc'.taken = enc.taken /\ enc' \in EncState /\ enc'.emitted <= enc'.taken
  BY <1>1, <1>4
<1>13. enc'.ended => enc'.emitted = enc'.taken
  BY <1>5, <1>12
<1> QED BY <1>2, <1>9, <1>10, <1>11, <1>12, <1>13 DEF ReaderInv

LEMMA ReaderRefills ==
    ASSUME ReaderInv, NEW n \in 0..IN_BUF, R!Refill(n)
    PROVE  ReaderInv'
<1>1. /\ ~inner_eof /\ ~finished /\ ~enc.ended /\ in_consumed = Len(in_buf)
      /\ n \in 0..(size - pulled) /\ (n = 0 <=> pulled = size)
      /\ pulled' = pulled + n
      /\ in_buf' = [i \in 1..n |-> pulled + i]
      /\ in_consumed' = 0
      /\ inner_eof' = (n = 0)
      /\ UNCHANGED <<enc, size, finished, room, fed, got, last>>
  BY DEF R!Refill, R!Exhausted, ReaderInv
<1>2. size \in Nat /\ pulled \in 0..size /\ n \in Nat /\ pulled = enc.taken /\ in_buf \in Seq(Nat)
      /\ enc.taken \in Nat
  <2>1. Len(in_buf) \in Nat /\ in_buf \in Seq(Nat) /\ size \in Nat /\ pulled \in 0..size
        /\ pulled = enc.taken + (Len(in_buf) - in_consumed) /\ enc.taken \in Nat
    BY DEF ReaderInv, EncState
  <2> QED BY <1>1, <2>1, AdaptersAssumption
<1>3. /\ in_buf' \in Seq(Nat) /\ Len(in_buf') = n
      /\ \A i \in 1..n : in_buf'[i] = enc.taken + i
  BY <1>1, <1>2
<1>4. pulled' \in 0..size' /\ (inner_eof' => pulled' = size')
  <2>1. pulled' \in 0..size'
    BY <1>1, <1>2
  <2>2. n = 0 => pulled' = size'
    BY <1>1, <1>2
  <2> QED BY <1>1, <2>1, <2>2
<1>5. /\ in_consumed' \in 0..Len(in_buf')
      /\ pulled' = enc'.taken + (Len(in_buf') - in_consumed')
  BY <1>1, <1>2, <1>3
<1>6. ASSUME NEW i \in 1..(Len(in_buf') - in_consumed')
      PROVE  in_buf'[in_consumed' + i] = enc'.taken + i
  <2>1. i \in 1..n /\ in_consumed' + i = i
    BY <1>1, <1>2, <1>3
  <2> QED BY <1>1, <1>3, <2>1
<1> QED BY <1>1, <1>3, <1>4, <1>5, <1>6 DEF ReaderInv

LEMMA ReaderKeeps == ReaderInv /\ R!Next => ReaderInv'
<1> SUFFICES ASSUME ReaderInv, R!Next
             PROVE  ReaderInv'
  OBVIOUS
<1>1. CASE \E n \in 1..MaxRoom : R!CallRead(n)
  <2>1. PICK n \in 1..MaxRoom : R!CallRead(n)
    BY <1>1
  <2>2. /\ room' = n /\ n \in Nat /\ last' = "none"
        /\ UNCHANGED <<enc, size, pulled, in_buf, inner_eof, in_consumed, finished, fed, got>>
    BY <2>1, AdaptersAssumption DEF R!CallRead
  <2> QED BY <2>2, ReaderStays
<1>2. CASE R!FinishedRead
  <2>1. /\ room' = 0 /\ finished
        /\ UNCHANGED <<enc, size, pulled, in_buf, inner_eof, in_consumed, finished, fed, got>>
    BY <1>2 DEF R!FinishedRead, R!Return
  <2> QED BY <2>1, ReaderStays
<1>3. CASE R!Encode
  BY <1>3, ReaderEncodes
<1>4. CASE R!Finish
  BY <1>4, ReaderFinishes
<1>5. CASE R!CodecFails
  <2>1. /\ room' = 0 /\ last' = "error"
        /\ UNCHANGED <<enc, size, pulled, in_buf, inner_eof, in_consumed, finished, fed, got>>
    BY <1>5 DEF R!CodecFails, R!Return
  <2> QED BY <2>1, ReaderStays
<1>6. CASE \E n \in 0..IN_BUF : R!Refill(n)
  BY <1>6, ReaderRefills
<1>7. CASE R!RefillFails
  <2>1. /\ room' = 0 /\ last' = "error"
        /\ UNCHANGED <<enc, size, pulled, in_buf, inner_eof, in_consumed, finished, fed, got>>
    BY <1>7 DEF R!RefillFails, R!Return, R!CursorAfterFailure
  <2> QED BY <2>1, ReaderStays
<1> QED BY <1>1, <1>2, <1>3, <1>4, <1>5, <1>6, <1>7 DEF R!Next, R!Adapter

-----------------------------------------------------------------------------
(* Both of them.                                                           *)

LEMMA InitIInv == Init => IInv
<1> SUFFICES ASSUME Init
             PROVE  IInv
  OBVIOUS
<1>1. CASE adapter = "async_writer" /\ A!Init
  BY <1>1, AsyncStarts DEF IInv
<1>2. CASE adapter = "reader" /\ R!Init
  BY <1>2, ReaderStarts DEF IInv
<1> QED BY <1>1, <1>2 DEF Init

LEMMA NextKeepsIInv == IInv /\ [Next]_vars => IInv'
<1> SUFFICES ASSUME IInv, [Next]_vars
             PROVE  IInv'
  OBVIOUS
<1>1. CASE UNCHANGED vars
  <2>1. adapter' = adapter
    BY <1>1 DEF vars
  <2>2. AsyncInv => AsyncInv'
    BY <1>1 DEF vars, AsyncInv, Sent
  <2>3. ReaderInv => ReaderInv'
    BY <1>1 DEF vars, ReaderInv
  <2> QED BY <2>1, <2>2, <2>3 DEF IInv
<1>2. CASE OfA(A!Next)
  <2>1. adapter = "async_writer" /\ adapter' = adapter /\ A!Next
    BY <1>2 DEF OfA, NotOfA
  <2> QED BY <2>1, AsyncKeeps DEF IInv
<1>3. CASE OfR(R!Next)
  <2>1. adapter = "reader" /\ adapter' = adapter /\ R!Next
    BY <1>3 DEF OfR, NotOfR
  <2> QED BY <2>1, ReaderKeeps DEF IInv
<1> QED BY <1>1, <1>2, <1>3 DEF Next, Over

THEOREM Invariance == Spec => []IInv
BY InitIInv, NextKeepsIInv, PTL DEF Spec

-----------------------------------------------------------------------------
(* A poll_write that is Pending or fails has taken nothing of its buffer,  *)
(* for every buffer, scratch size and codec.                               *)
THEOREM PendingIsClean == Spec => []PendingTakesNothing
<1>1. IInv => PendingTakesNothing
  BY DEF IInv, AsyncInv, PendingTakesNothing, A!PendingTakesNothing
<1> QED BY <1>1, Invariance, PTL

(* However often a flush is polled it leaves one sync marker.              *)
THEOREM FlushedOnce == Spec => []OneMarkerPerFlush
<1>1. IInv => OneMarkerPerFlush
  <2> SUFFICES ASSUME AsyncInv
               PROVE  A!OneMarkerPerFlush
    BY DEF IInv, OneMarkerPerFlush
  <2>1. MarksApart(wire \o out) /\ A!SyncMark = SyncMark
    BY DEF AsyncInv, Sent, A!SyncMark, SyncMark
  <2> QED BY <2>1 DEF MarksApart, A!OneMarkerPerFlush
<1> QED BY <1>1, Invariance, PTL

(* The reader's codec is fed what was pulled, each byte once and in order, *)
(* whatever the inner reader's failures.                                   *)
THEOREM ReaderFeedsInOrder == Spec => []FedInOrder
<1>1. IInv => FedInOrder
  <2> SUFFICES ASSUME ReaderInv
               PROVE  R!FedInOrder
    BY DEF IInv, FedInOrder
  <2>1. Len(fed) = enc.taken /\ \A i \in DOMAIN fed : fed[i] = i
    BY DEF ReaderInv
  <2>2. pulled = Len(fed) + Len(R!Buffered)
    BY <2>1, BufferedIs DEF ReaderInv
  <2> QED BY <2>1, <2>2 DEF R!FedInOrder
<1> QED BY <1>1, Invariance, PTL

(* An end that is reported, by a shutdown or by a read of 0 bytes, is the  *)
(* end of a whole stream.                                                  *)
THEOREM EndIsTrue == Spec => []EndIsComplete
<1>1. ASSUME AsyncInv PROVE A!ShutdownIsComplete
  <2> SUFFICES ASSUME last = [op |-> "shutdown", how |-> "ready"]
               PROVE  /\ wire # << >> /\ wire[Len(wire)] = EndMark
                      /\ \A k \in 1..reported : \E i \in DOMAIN wire : wire[i] = Byte(k)
    BY DEF A!ShutdownIsComplete, A!EndMark, EndMark, A!Byte, Byte
  <2>1. out = << >> /\ enc.ended /\ reported = enc.emitted /\ wire \in Seq(Token)
    BY <1>1 DEF AsyncInv
  <2>2. Sent = wire
    BY <2>1 DEF Sent
  <2>3. EndsIn(wire, EndMark) /\ Holding(wire, reported)
    BY <1>1, <2>1, <2>2 DEF AsyncInv
  <2> QED BY <2>3 DEF EndsIn, Holding
<1>2. ASSUME ReaderInv PROVE R!EofIsComplete
  <2> SUFFICES ASSUME last = "eof"
               PROVE  got = BytesFrom(0, size) \o <<EndMark>>
    BY DEF R!EofIsComplete, R!EndMark, EndMark, R!BytesFrom, BytesFrom, R!Byte, Byte
  <2>1. /\ enc.ended /\ enc.emitted = enc.taken /\ inner_eof /\ in_consumed = Len(in_buf)
        /\ pulled = size /\ in_buf \in Seq(Nat)
    BY <1>2 DEF ReaderInv
  <2>2. enc.emitted = size
    BY <1>2, <2>1 DEF ReaderInv, EncState
  <2> QED BY <1>2, <2>1, <2>2 DEF ReaderInv
<1>3. IInv => EndIsComplete
  BY <1>1, <1>2 DEF IInv, EndIsComplete
<1> QED BY <1>3, Invariance, PTL

-----------------------------------------------------------------------------
(* The bytes of a stream by their numbers.                                 *)

(* Each byte of s has the number of its place among them.                  *)
InOrder(s) == \A i \in ByteAt(s, Len(s)) : s[i].n = Number(s, i)

LEMMA NumberType ==
    ASSUME NEW s, NEW m \in Nat
    PROVE  IsFiniteSet(ByteAt(s, m)) /\ Number(s, m) \in Nat
<1>1. ByteAt(s, m) \in SUBSET (1..m)
  BY DEF ByteAt
<1>2. IsFiniteSet(1..m)
  BY FS_Interval
<1>3. IsFiniteSet(ByteAt(s, m))
  BY <1>1, <1>2, FS_Subset
<1> QED BY <1>3, FS_CardinalityType DEF Number

LEMMA NumberStep ==
    ASSUME NEW s, NEW m \in Nat
    PROVE  Number(s, m + 1) = IF s[m + 1].kind = "byte" THEN Number(s, m) + 1 ELSE Number(s, m)
<1>1. CASE s[m + 1].kind = "byte"
  <2>1. ByteAt(s, m + 1) = ByteAt(s, m) \cup {m + 1} /\ m + 1 \notin ByteAt(s, m)
    BY <1>1 DEF ByteAt
  <2> QED BY <1>1, <2>1, NumberType, FS_AddElement DEF Number
<1>2. CASE s[m + 1].kind # "byte"
  <2>1. ByteAt(s, m + 1) = ByteAt(s, m)
    BY <1>2 DEF ByteAt
  <2> QED BY <1>2, <2>1 DEF Number
<1> QED BY <1>1, <1>2

LEMMA NumberGrows ==
    ASSUME NEW s, NEW m \in Nat, NEW n \in Nat, m <= n
    PROVE  Number(s, m) <= Number(s, n)
<1>1. ByteAt(s, m) \in SUBSET ByteAt(s, n)
  BY DEF ByteAt
<1> QED BY <1>1, NumberType, FS_Subset DEF Number

LEMMA NumberOfNothing == \A s : ByteAt(s, 0) = {} /\ Number(s, 0) = 0
<1>1. \A s : ByteAt(s, 0) = {}
  BY DEF ByteAt
<1> QED BY <1>1, FS_EmptySet DEF Number

(* What follows does not count.                                            *)
LEMMA NumberOfPrefix ==
    ASSUME NEW s \in Seq(Token), NEW t \in Seq(Token), NEW m \in 0..Len(s)
    PROVE  ByteAt(s \o t, m) = ByteAt(s, m) /\ Number(s \o t, m) = Number(s, m)
<1>1. \A i \in 1..m : i \in 1..Len(s)
  OBVIOUS
<1>2. \A i \in 1..m : (s \o t)[i] = s[i]
  BY <1>1, TokensConcat
<1>3. ByteAt(s \o t, m) = ByteAt(s, m)
  BY <1>2 DEF ByteAt
<1> QED BY <1>3 DEF Number

(* A stream in order that holds all the bytes it has a number for is them. *)
LEMMA BytesAreNumbers ==
    ASSUME NEW s \in Seq(Token), InOrder(s), Holding(s, Number(s, Len(s)))
    PROVE  /\ BytesOf(s) = [j \in 1..Number(s, Len(s)) |-> j]
           /\ Number(s, Len(s)) \in Nat
<1> DEFINE n == Len(s)
           k == Number(s, n)
<1>1. n \in Nat /\ DOMAIN s = 1..n /\ k \in Nat
  BY NumberType
<1>2. ASSUME NEW j \in 1..k
      PROVE  s[CHOOSE i \in ByteAt(s, n) : Number(s, i) = j].n = j
  <2>1. PICK i \in 1..n : s[i] = Byte(j)
    BY <1>1 DEF Holding
  <2>2. i \in ByteAt(s, n) /\ s[i].n = j
    BY <2>1 DEF ByteAt, Byte
  <2>3. Number(s, i) = j
    BY <2>2 DEF InOrder
  <2> DEFINE c == CHOOSE x \in ByteAt(s, n) : Number(s, x) = j
  <2>4. c \in ByteAt(s, n) /\ Number(s, c) = j
    BY <2>2, <2>3
  <2> HIDE DEF c
  <2>5. s[c].n = j
    BY <2>4 DEF InOrder
  <2> QED BY <2>5 DEF c
<1> QED BY <1>1, <1>2 DEF BytesOf

(* The beginning of a stream in order is in order, and holds its bytes.    *)
LEMMA PrefixInOrder ==
    ASSUME NEW s \in Seq(Token), NEW t \in Seq(Token), InOrder(s \o t),
           Holding(s \o t, Number(s \o t, Len(s \o t)))
    PROVE  /\ InOrder(s) /\ Holding(s, Number(s, Len(s)))
           /\ Number(s, Len(s)) <= Number(s \o t, Len(s \o t))
<1> DEFINE u == s \o t
           n == Len(s)
           m == Len(u)
<1>1. n \in Nat /\ m \in Nat /\ n <= m /\ DOMAIN s = 1..n /\ DOMAIN u = 1..m
  BY TokensConcat
<1>2. \A i \in 1..n : u[i] = s[i]
  BY TokensConcat
<1>3. \A i \in 0..n : ByteAt(u, i) = ByteAt(s, i) /\ Number(u, i) = Number(s, i)
  BY NumberOfPrefix
<1> HIDE DEF u, n, m
<1>4. InOrder(u) /\ Holding(u, Number(u, m))
  BY DEF u, m
<1>5. n \in 0..n /\ Number(s, n) <= Number(u, m)
  BY <1>1, <1>3, NumberGrows
<1>6. InOrder(s)
  <2> SUFFICES ASSUME NEW i \in ByteAt(s, n)
               PROVE  s[i].n = Number(s, i)
    BY DEF InOrder, n
  <2>1. i \in 1..n /\ s[i].kind = "byte" /\ i \in 0..n /\ i \in 1..m
    BY <1>1 DEF ByteAt
  <2>2. i \in ByteAt(u, m) /\ u[i] = s[i]
    BY <1>2, <2>1 DEF ByteAt
  <2>3. u[i].n = Number(u, i)
    BY <1>4, <2>2 DEF InOrder, m
  <2> QED BY <1>3, <2>1, <2>2, <2>3
<1>7. ASSUME NEW j \in 1..Number(s, n)
      PROVE  \E i \in DOMAIN s : s[i] = Byte(j)
  <2>0. Number(s, n) \in Nat /\ Number(u, m) \in Nat
    BY <1>1, NumberType
  <2>1. j \in 1..Number(u, m)
    BY <1>5, <2>0
  <2>2. PICK i \in 1..m : u[i] = Byte(j)
    BY <1>1, <1>4, <2>1 DEF Holding
  <2>3. u[i].kind = "byte" /\ u[i].n = j
    BY <2>2 DEF Byte
  <2>4. i \in ByteAt(u, m)
    BY <2>3 DEF ByteAt
  <2>5. Number(u, i) = j
    BY <1>4, <2>3, <2>4 DEF InOrder, m
  <2>6. CASE i <= n
    BY <1>1, <1>2, <2>2, <2>6
  <2>7. CASE i > n
    <3>1. i - 1 \in Nat /\ n <= i - 1 /\ (i - 1) + 1 = i
      BY <1>1, <2>7
    <3>2. Number(u, n) <= Number(u, i - 1)
      BY <1>1, <3>1, NumberGrows
    <3>3. Number(u, i) = Number(u, i - 1) + 1
      BY <2>3, <3>1, NumberStep
    <3>4. Number(u, n) = Number(s, n) /\ Number(u, i - 1) \in Nat
      BY <1>3, <1>5, <3>1, NumberType
    <3> QED BY <2>0, <2>5, <3>2, <3>3, <3>4
  <2>8. i <= n \/ i > n
    BY <1>1
  <2> QED BY <2>6, <2>7, <2>8
<1> QED BY <1>5, <1>6, <1>7 DEF Holding, u, n, m

(* The next bytes come with the next numbers.                              *)
LEMMA NextInOrder ==
    ASSUME NEW s \in Seq(Token), NEW m \in Nat, NEW w \in Nat,
           InOrder(s), Number(s, Len(s)) = m
    PROVE  /\ InOrder(s \o BytesFrom(m, w))
           /\ Number(s \o BytesFrom(m, w), Len(s \o BytesFrom(m, w))) = m + w
<1> DEFINE b == BytesFrom(m, w)
           t == s \o b
           n == Len(s)
<1>1. b \in Seq(Token) /\ Len(b) = w /\ \A i \in 1..w : b[i] = Byte(m + i)
  BY BytesFromType
<1> HIDE DEF b
<1>2. /\ t \in Seq(Token) /\ Len(t) = n + w /\ n \in Nat
      /\ \A i \in 1..n : t[i] = s[i]
      /\ \A i \in 1..w : t[n + i] = b[i]
  BY <1>1, TokensConcat
<1>3. \A i \in 0..n : ByteAt(t, i) = ByteAt(s, i) /\ Number(t, i) = Number(s, i)
  BY <1>1, NumberOfPrefix
<1> HIDE DEF t, n
<1>4. ASSUME NEW i \in 1..w
      PROVE  t[n + i].kind = "byte" /\ t[n + i].n = m + i
  BY <1>1, <1>2 DEF Byte
<1>5. ASSUME NEW i \in 0..w
      PROVE  Number(t, n + i) = m + i
  <2>1. /\ n \in 0..n /\ n + i \in Nat /\ n + 1 \in Int /\ n + i \in Int
        /\ IF n + 1 > n + i THEN i = 0 ELSE (n + i) - (n + 1) + 1 = i
    BY <1>2
  <2>2. IsFiniteSet((n + 1)..(n + i)) /\ Cardinality((n + 1)..(n + i)) = i
    BY <2>1, FS_Interval
  <2>3. IsFiniteSet(ByteAt(t, n)) /\ Cardinality(ByteAt(t, n)) = m
    BY <1>2, <1>3, <2>1, NumberType DEF Number, n
  <2>4. ByteAt(t, n + i) = ByteAt(t, n) \cup ((n + 1)..(n + i))
    <3>1. ASSUME NEW x \in (n + 1)..(n + i)
          PROVE  t[x].kind = "byte"
      <4>1. x - n \in 1..w /\ n + (x - n) = x
        BY <1>2
      <4>2. t[n + (x - n)].kind = "byte"
        BY <1>4, <4>1
      <4> QED BY <4>1, <4>2
    <3>2. 1..(n + i) = (1..n) \cup ((n + 1)..(n + i))
      BY <1>2
    <3> QED BY <3>1, <3>2 DEF ByteAt
  <2>5. ByteAt(t, n) \cap ((n + 1)..(n + i)) = {}
    BY <1>2 DEF ByteAt
  <2>6. Cardinality(ByteAt(t, n + i)) = m + i - Cardinality({})
    BY <2>2, <2>3, <2>4, <2>5, FS_Union
  <2> QED BY <2>6, FS_EmptySet DEF Number
<1>6. InOrder(t)
  <2> SUFFICES ASSUME NEW i \in ByteAt(t, n + w)
               PROVE  t[i].n = Number(t, i)
    BY <1>2 DEF InOrder
  <2>1. i \in 1..(n + w) /\ t[i].kind = "byte"
    BY DEF ByteAt
  <2>2. CASE i <= n
    <3>1. i \in 1..n /\ i \in 0..n
      BY <1>2, <2>1, <2>2
    <3>2. t[i] = s[i]
      BY <1>2, <3>1
    <3>3. i \in ByteAt(s, Len(s))
      BY <2>1, <3>1, <3>2 DEF ByteAt, n
    <3> QED BY <1>3, <3>1, <3>2, <3>3 DEF InOrder
  <2>3. CASE i > n
    <3>1. i - n \in 1..w /\ i - n \in 0..w /\ n + (i - n) = i
      BY <1>2, <2>1, <2>3
    <3>2. t[n + (i - n)].n = m + (i - n)
      BY <1>4, <3>1
    <3>3. Number(t, n + (i - n)) = m + (i - n)
      BY <1>5, <3>1
    <3> QED BY <3>1, <3>2, <3>3
  <2>4. i <= n \/ i > n
    BY <1>2, <2>1
  <2> QED BY <2>2, <2>3, <2>4
<1>7. Number(t, Len(t)) = m + w
  <2>1. w \in 0..w
    OBVIOUS
  <2> QED BY <1>2, <1>5, <2>1
<1> QED BY <1>6, <1>7 DEF t, b

(* A mark has no number.                                                   *)
LEMMA MarkInOrder ==
    ASSUME NEW s \in Seq(Token), NEW mark \in {SyncMark, EndMark}, InOrder(s)
    PROVE  /\ InOrder(s \o <<mark>>)
           /\ Number(s \o <<mark>>, Len(s \o <<mark>>)) = Number(s, Len(s))
<1> DEFINE t == s \o <<mark>>
           n == Len(s)
<1>1. mark \in Token /\ mark.kind # "byte"
  BY Tokens DEF SyncMark, EndMark
<1>2. <<mark>> \in Seq(Token)
  BY <1>1
<1>3. /\ Len(t) = n + 1 /\ n \in Nat /\ t[n + 1] = mark
      /\ \A i \in 1..n : t[i] = s[i]
  BY <1>1
<1>4. \A i \in 0..n : ByteAt(t, i) = ByteAt(s, i) /\ Number(t, i) = Number(s, i)
  BY <1>2, NumberOfPrefix
<1> HIDE DEF t
<1>5. t[n + 1].kind # "byte"
  BY <1>1, <1>3
<1>6. Number(t, n + 1) = Number(t, n) /\ n \in 0..n
  BY <1>3, <1>5, NumberStep
<1>7. InOrder(t)
  <2> SUFFICES ASSUME NEW i \in ByteAt(t, n + 1)
               PROVE  t[i].n = Number(t, i)
    BY <1>3 DEF InOrder
  <2>1. i \in 1..(n + 1) /\ t[i].kind = "byte"
    BY DEF ByteAt
  <2>2. i \in 1..n /\ i \in 0..n
    BY <1>3, <1>5, <2>1
  <2>3. t[i] = s[i]
    BY <1>3, <2>2
  <2>4. i \in ByteAt(s, Len(s))
    BY <2>1, <2>2, <2>3 DEF ByteAt
  <2> QED BY <1>4, <2>2, <2>3, <2>4 DEF InOrder
<1> QED BY <1>3, <1>4, <1>6, <1>7 DEF t

LEMMA NothingInOrder == InOrder(<< >>) /\ Number(<< >>, Len(<< >>)) = 0
<1>1. Len(<< >>) = 0
  OBVIOUS
<1> QED BY <1>1, NumberOfNothing DEF InOrder

-----------------------------------------------------------------------------
(* Both are pipes.                                                         *)

(* What the tokio writer has sent and has still to send are the codec's    *)
(* bytes in order, and the end mark, if there is one, is the last of it.   *)
AsyncOrder ==
    /\ InOrder(Sent) /\ Number(Sent, Len(Sent)) = enc.emitted
    /\ \A i \in DOMAIN Sent : Sent[i] = EndMark => enc.ended /\ i = Len(Sent)

LEMMA OrderStarts == A!Init => AsyncOrder
<1> SUFFICES ASSUME A!Init
             PROVE  AsyncOrder
  OBVIOUS
<1>1. Sent = << >> /\ enc.emitted = 0
  BY FreshEncoder DEF A!Init, Sent
<1>2. DOMAIN << >> = {}
  OBVIOUS
<1> QED BY <1>1, <1>2, NothingInOrder DEF AsyncOrder

(* The codec puts out what it owes next.                                   *)
LEMMA OrderGrows ==
    ASSUME AsyncInv, AsyncOrder, ~enc.ended, wire' = wire, NEW w \in Nat,
           NEW tail \in {<< >>, <<SyncMark>>, <<EndMark>>},
           out' = out \o (BytesFrom(enc.emitted, w) \o tail),
           enc'.emitted = enc.emitted + w, tail = <<EndMark>> => enc'.ended
    PROVE  AsyncOrder'
<1> DEFINE b == BytesFrom(enc.emitted, w)
           s == Sent \o b
<1>1. enc.emitted \in Nat /\ wire \in Seq(Token) /\ out \in Seq(Token) /\ Sent \in Seq(Token)
  BY DEF AsyncInv, EncState, Sent
<1>2. b \in Seq(Token) /\ tail \in Seq(Token) /\ b \o tail \in Seq(Token)
  <2>1. b \in Seq(Token)
    BY <1>1, BytesFromType
  <2>2. << >> \in Seq(Token) /\ <<SyncMark>> \in Seq(Token) /\ <<EndMark>> \in Seq(Token)
    BY Tokens
  <2>3. tail \in Seq(Token)
    BY <2>2
  <2> HIDE DEF b
  <2> QED BY <2>1, <2>3
<1>3. InOrder(s) /\ Number(s, Len(s)) = enc'.emitted
  BY <1>1, NextInOrder DEF AsyncOrder
<1>4. \A i \in DOMAIN s : s[i] # EndMark
  <2> SUFFICES ASSUME NEW i \in DOMAIN s, s[i] = EndMark
               PROVE  FALSE
    OBVIOUS
  <2>1. CASE i \in 1..Len(Sent)
    BY <1>1, <1>2, <2>1, TokensConcat DEF AsyncOrder
  <2>2. CASE i \notin 1..Len(Sent)
    <3>1. i - Len(Sent) \in 1..Len(b) /\ s[i] = b[i - Len(Sent)]
      BY ONLY <1>1, <1>2, <2>2, i \in DOMAIN s, TokensConcat
    <3>2. Len(b) = w /\ \A k \in 1..w : b[k] = Byte(enc.emitted + k)
      BY <1>1, BytesFromType
    <3>3. \A k \in 1..w : enc.emitted + k \in Nat
      BY <1>1
    <3> QED BY <3>1, <3>2, <3>3, Tokens
  <2> QED BY <2>1, <2>2
<1>5. Sent' = s \o tail
  <2>1. Sent' = Sent \o (b \o tail)
    BY <1>1, <1>2, SentGrows
  <2> QED BY <1>1, <1>2, <2>1, TokensAssociative
<1>6. s \in Seq(Token)
  BY <1>1, <1>2
<1> HIDE DEF s
<1>7. CASE tail = << >>
  <2>1. Sent' = s
    BY <1>5, <1>6, <1>7
  <2> QED BY <1>3, <1>4, <2>1 DEF AsyncOrder
<1>8. ASSUME NEW mark \in {SyncMark, EndMark}, tail = <<mark>>
      PROVE  AsyncOrder'
  <2> DEFINE t == s \o <<mark>>
  <2>1. Sent' = t
    BY <1>5, <1>8
  <2>2. InOrder(t) /\ Number(t, Len(t)) = enc'.emitted
    BY <1>3, <1>6, MarkInOrder
  <2>3. /\ Len(t) = Len(s) + 1 /\ DOMAIN t = 1..(Len(s) + 1) /\ DOMAIN s = 1..Len(s)
        /\ t[Len(s) + 1] = mark /\ Len(s) \in Nat
        /\ \A i \in 1..Len(s) : t[i] = s[i]
    BY <1>6, Tokens
  <2> HIDE DEF t
  <2>4. mark = EndMark => enc'.ended
    BY <1>8
  <2>5. ASSUME NEW i \in DOMAIN t, t[i] = EndMark
        PROVE  enc'.ended /\ i = Len(t)
    <3>1. i \notin 1..Len(s)
      BY <1>4, <2>3, <2>5
    <3>2. i = Len(s) + 1
      BY <2>3, <3>1
    <3> QED BY <2>3, <2>4, <2>5, <3>2
  <2> QED BY <2>1, <2>2, <2>5 DEF AsyncOrder
<1> QED BY <1>7, <1>8

(* A step of the writer as its pipe sees it.                               *)
AsyncMoves ==
    \/ wire' = wire /\ enc'.taken = enc.taken
    \/ wire' = wire /\ ~closing /\ enc'.taken >= enc.taken
    \/ enc' = enc /\ \E n \in 1..Len(out) : wire' = wire \o SubSeq(out, 1, n)

LEMMA AsyncOrders ==
    ASSUME AsyncInv, AsyncInv', AsyncOrder, A!Next
    PROVE  AsyncOrder' /\ AsyncMoves
<1>1. /\ enc \in EncState /\ enc.emitted <= enc.taken /\ SCRATCH \in Nat
      /\ enc.emitted \in Nat /\ enc.taken \in Nat
      /\ wire \in Seq(Token) /\ out \in Seq(Token)
  BY AdaptersAssumption DEF AsyncInv, EncState
<1>2. ASSUME NEW m \in Nat, NEW w \in Nat
      PROVE  /\ BytesFrom(m, w) \in Seq(Token)
             /\ BytesFrom(m, w) \o << >> = BytesFrom(m, w)
             /\ \A mark \in {SyncMark, EndMark} : BytesFrom(m, w) \o <<mark>> \in Seq(Token)
  <2> DEFINE b == BytesFrom(m, w)
  <2>1. b \in Seq(Token)
    BY BytesFromType
  <2> HIDE DEF b
  <2>2. b \o << >> = b /\ \A mark \in {SyncMark, EndMark} : b \o <<mark>> \in Seq(Token)
    BY <2>1, Tokens
  <2> QED BY <2>1, <2>2 DEF b
<1>3. CASE UNCHANGED <<enc, out, wire>>
  <2>1. Sent' = Sent
    BY <1>3 DEF Sent
  <2> QED BY <1>3, <2>1 DEF AsyncOrder, AsyncMoves
<1>4. CASE \E n \in 1..Len(out) : A!InnerAccepts(n)
  <2>1. PICK n \in 1..Len(out) : A!InnerAccepts(n)
    BY <1>4
  <2> DEFINE a == SubSeq(out, 1, n)
             b == SubSeq(out, n + 1, Len(out))
  <2>2. a \in Seq(Token) /\ b \in Seq(Token) /\ Len(out) \in Nat
    BY <1>1
  <2>3. a \o b = out
    BY <1>1, <2>2, ConcatAdjacentSubSeq, SubSeqFull
  <2>4. wire' = wire \o a /\ out' = b /\ enc' = enc
    BY <2>1 DEF A!InnerAccepts, A!Unsent
  <2>5. AsyncMoves
    BY <2>4 DEF AsyncMoves
  <2> HIDE DEF a, b
  <2>6. (wire \o a) \o b = wire \o (a \o b)
    BY <1>1, <2>2, TokensAssociative
  <2>7. Sent' = Sent
    BY <2>3, <2>4, <2>6 DEF Sent
  <2> QED BY <2>4, <2>5, <2>7 DEF AsyncOrder
<1>5. CASE A!Flush
  <2>1. PICK r \in FlushOutcomes(enc, SCRATCH) : enc' = r.enc /\ out' = out \o r.out
    BY <1>5, SameCodec DEF A!Flush
  <2>2. ~enc.ended /\ wire' = wire
    BY <1>5 DEF A!Flush, A!MustFlush, AsyncInv
  <2>3. /\ r.enc.taken = enc.taken
        /\ \E w \in Nat :
             /\ r.enc.emitted = enc.emitted + w
             /\ r.out = BytesFrom(enc.emitted, w) \/ r.out = BytesFrom(enc.emitted, w) \o <<SyncMark>>
    <3>1. r \in FlushOutcomes(enc, SCRATCH)
      OBVIOUS
    <3> QED BY ONLY <1>1, <3>1, FlushContract
  <2>4. PICK w \in Nat :
          /\ enc'.emitted = enc.emitted + w
          /\ r.out = BytesFrom(enc.emitted, w) \/ r.out = BytesFrom(enc.emitted, w) \o <<SyncMark>>
    BY <2>1, <2>3
  <2>5. PICK tail \in {<< >>, <<SyncMark>>} : out' = out \o (BytesFrom(enc.emitted, w) \o tail)
    BY <1>1, <1>2, <2>1, <2>4
  <2>6. tail = <<EndMark>> => FALSE
    BY Tokens
  <2>7. AsyncOrder'
    BY <2>2, <2>4, <2>5, <2>6, OrderGrows
  <2> QED BY <2>1, <2>2, <2>3, <2>7 DEF AsyncMoves
<1>6. CASE A!Encode
  <2>1. PICK r \in EncodeOutcomes(enc, call.len, SCRATCH) : enc' = r.enc /\ out' = r.out
    BY <1>6, SameCodec DEF A!Encode
  <2>2. ~enc.ended /\ wire' = wire /\ ~closing /\ out = << >> /\ call.len \in Nat
    BY <1>6 DEF A!Encode, A!Drained, AsyncInv, AsyncCall
  <2>3. /\ r.consumed \in 0..call.len /\ r.enc.taken = enc.taken + r.consumed
        /\ \E w \in Nat : r.enc.emitted = enc.emitted + w /\ r.out = BytesFrom(enc.emitted, w)
    BY <1>1, <2>2, EncodeContract
  <2>4. PICK w \in Nat : enc'.emitted = enc.emitted + w /\ out' = BytesFrom(enc.emitted, w)
    BY <2>1, <2>3
  <2>5. out' = out \o (BytesFrom(enc.emitted, w) \o << >>)
    BY <1>1, <1>2, <2>2, <2>4
  <2>6. << >> = <<EndMark>> => FALSE
    OBVIOUS
  <2>7. AsyncOrder'
    BY <2>2, <2>4, <2>5, <2>6, OrderGrows
  <2>8. enc'.taken >= enc.taken
    BY <1>1, <2>1, <2>2, <2>3
  <2> QED BY <2>2, <2>7, <2>8 DEF AsyncMoves
<1>7. CASE A!Finish
  <2>1. PICK r \in FinishOutcomes(enc, SCRATCH) : enc' = r.enc /\ out' = r.out
    BY <1>7, SameCodec DEF A!Finish
  <2>2. wire' = wire /\ out = << >>
    BY <1>7 DEF A!Finish, A!Drained
  <2>3. /\ enc.ended => r.enc = enc /\ r.out = << >>
        /\ ~enc.ended =>
             /\ r.enc.taken = enc.taken
             /\ \E w \in Nat :
                  /\ r.enc.emitted = enc.emitted + w
                  /\ ~r.enc.ended => r.out = BytesFrom(enc.emitted, w)
                  /\ r.enc.ended => /\ r.out = BytesFrom(enc.emitted, w) \o <<EndMark>>
                                    /\ r.enc.emitted = enc.taken
    <3>1. r \in FinishOutcomes(enc, SCRATCH)
      OBVIOUS
    <3>2. /\ enc.ended => r.enc = enc /\ r.out = << >>
          /\ ~enc.ended =>
               /\ r.enc \in EncState
               /\ r.enc.taken = enc.taken
               /\ r.enc.emitted <= r.enc.taken
               /\ r.out = << >> => SCRATCH < Atom
               /\ \E w \in Nat :
                    /\ r.enc.emitted = enc.emitted + w
                    /\ ~r.enc.ended => r.out = BytesFrom(enc.emitted, w)
                    /\ r.enc.ended => /\ r.out = BytesFrom(enc.emitted, w) \o <<EndMark>>
                                      /\ r.enc.emitted = enc.taken
      BY ONLY <1>1, <3>1, FinishContract
    <3> QED BY ONLY <3>2
  <2>4. CASE enc.ended
    BY <1>3, <2>1, <2>2, <2>3, <2>4
  <2>5. CASE ~enc.ended
    <3>1. PICK w \in Nat :
            /\ enc'.emitted = enc.emitted + w
            /\ ~enc'.ended => out' = BytesFrom(enc.emitted, w)
            /\ enc'.ended => out' = BytesFrom(enc.emitted, w) \o <<EndMark>>
      BY <2>1, <2>3, <2>5
    <3>2. PICK tail \in {<< >>, <<EndMark>>} :
            /\ out' = BytesFrom(enc.emitted, w) \o tail
            /\ tail = <<EndMark>> => enc'.ended
      <4>1. << >> # <<EndMark>>
        OBVIOUS
      <4>2. BytesFrom(enc.emitted, w) \o << >> = BytesFrom(enc.emitted, w)
        BY <1>1, <1>2
      <4>3. CASE enc'.ended
        BY <3>1, <4>3
      <4>4. CASE ~enc'.ended
        BY <3>1, <4>1, <4>2, <4>4
      <4> QED BY <4>3, <4>4
    <3>3. out' = out \o (BytesFrom(enc.emitted, w) \o tail)
      <4>1. out' \in Seq(Token)
        BY DEF AsyncInv
      <4> QED BY <2>2, <3>2, <4>1
    <3>4. AsyncOrder'
      BY <2>2, <2>5, <3>1, <3>2, <3>3, OrderGrows
    <3> QED BY <2>1, <2>2, <2>3, <2>5, <3>4 DEF AsyncMoves
  <2> QED BY <2>4, <2>5
<1>8. CASE A!Caller
  <2>1. UNCHANGED <<enc, out, wire>>
    BY <1>8 DEF A!Caller, A!PollWrite, A!PollFlush, A!PollShutdown, A!Begin
  <2> QED BY <1>3, <2>1
<1>9. CASE A!InnerRefuses \/ A!FlushReturns \/ A!FinishDone \/ A!CodecFails
  <2>1. UNCHANGED <<enc, out, wire>>
    BY <1>9 DEF A!InnerRefuses, A!FlushReturns, A!FinishDone, A!CodecFails
  <2> QED BY <1>3, <2>1
<1>10. CASE \E how \in {"ready", "pending", "error"} : A!ShutdownReturns(how)
  <2>1. UNCHANGED <<enc, out, wire>>
    BY <1>10 DEF A!ShutdownReturns
  <2> QED BY <1>3, <2>1
<1> QED BY <1>4, <1>5, <1>6, <1>7, <1>8, <1>9, <1>10 DEF A!Next, A!Progress

(* The tokio writer's order, and of both what has left them.               *)
OrderInv == adapter = "async_writer" => AsyncOrder

LEMMA NextKeepsOrder == IInv /\ IInv' /\ OrderInv /\ [Next]_vars => OrderInv'
<1> SUFFICES ASSUME IInv, IInv', OrderInv, [Next]_vars
             PROVE  OrderInv'
  OBVIOUS
<1>1. CASE UNCHANGED vars
  BY <1>1 DEF vars, OrderInv, AsyncOrder, Sent
<1>2. CASE OfA(A!Next)
  <2>1. adapter = "async_writer" /\ adapter' = adapter /\ A!Next
    BY <1>2 DEF OfA, NotOfA
  <2> QED BY <2>1, AsyncOrders DEF IInv, OrderInv
<1>3. CASE OfR(R!Next)
  BY <1>3 DEF OfR, NotOfR, OrderInv
<1> QED BY <1>1, <1>2, <1>3 DEF Next, Over

LEMMA Ordering == Spec => []OrderInv
<1>1. Init => OrderInv
  BY OrderStarts DEF Init, OrderInv
<1> QED BY <1>1, NextKeepsOrder, Invariance, PTL DEF Spec

PipeDelivered == BytesOf(Stream)
PipeClosed == \E i \in DOMAIN Stream : Stream[i] = EndMark
Numbers(k) == [j \in 1..k |-> j]
Handed == Number(Stream, Len(Stream))

(* What has left an adapter is in order, no more than was taken, and all   *)
(* of it behind the end mark.                                              *)
PipeInv ==
    /\ Stream \in Seq(Token) /\ Handed \in Nat
    /\ enc.taken \in Nat /\ Handed <= enc.taken
    /\ PipeDelivered = Numbers(Handed)
    /\ PipeClosed => Handed = enc.taken /\ enc.ended /\ (adapter = "async_writer" => out = << >>)

LEMMA WriterStream ==
    ASSUME AsyncInv, AsyncOrder, adapter = "async_writer"
    PROVE  PipeInv
<1> DEFINE n == Len(wire)
           k == Number(wire, n)
<1>1. /\ wire \in Seq(Token) /\ out \in Seq(Token) /\ enc \in EncState
      /\ enc.emitted <= enc.taken /\ enc.emitted \in Nat /\ enc.taken \in Nat
      /\ enc.ended => enc.emitted = enc.taken
  BY DEF AsyncInv, EncState
<1>2. /\ InOrder(wire \o out) /\ Number(wire \o out, Len(wire \o out)) = enc.emitted
      /\ Holding(wire \o out, enc.emitted)
  BY DEF AsyncInv, AsyncOrder, Sent
<1>3. InOrder(wire) /\ Holding(wire, k) /\ k <= enc.emitted
  BY <1>1, <1>2, PrefixInOrder
<1>4. BytesOf(wire) = Numbers(k) /\ k \in Nat
  BY <1>1, <1>3, BytesAreNumbers DEF Numbers
<1>5. Stream = wire
  BY DEF Stream
<1>6. ASSUME PipeClosed
      PROVE  k = enc.taken /\ enc.ended /\ out = << >>
  <2>1. PICK i \in DOMAIN wire : wire[i] = EndMark
    BY <1>5, <1>6 DEF PipeClosed
  <2>2. i \in 1..n /\ n \in Nat /\ i \in DOMAIN (wire \o out) /\ (wire \o out)[i] = EndMark
    BY <1>1, <2>1, TokensConcat
  <2>3. enc.ended /\ i = Len(wire \o out)
    BY <2>2 DEF AsyncOrder, Sent
  <2>4. Len(out) = 0
    BY <1>1, <2>2, <2>3, TokensConcat
  <2>5. out = << >>
    BY <1>1, <2>4
  <2>6. wire \o out = wire
    BY <1>1, <2>5
  <2>7. k = enc.emitted
    BY <1>2, <2>6
  <2> QED BY <1>1, <2>3, <2>5, <2>7
<1>7. Handed = k /\ k <= enc.taken
  BY <1>1, <1>3, <1>4, <1>5 DEF Handed
<1> HIDE DEF n, k
<1> QED BY <1>1, <1>4, <1>5, <1>6, <1>7 DEF PipeDelivered, PipeInv

LEMMA ReaderStream ==
    ASSUME ReaderInv, adapter = "reader"
    PROVE  PipeInv
<1> DEFINE k == enc.emitted
           b == BytesFrom(0, k)
<1>1. /\ k \in Nat /\ got = b \o (IF enc.ended THEN <<EndMark>> ELSE << >>)
      /\ enc.taken \in Nat /\ k <= enc.taken /\ (enc.ended => k = enc.taken)
  BY DEF ReaderInv, EncState
<1>2. /\ b \in Seq(Token) /\ Len(b) = k /\ DOMAIN b = 1..k
      /\ \A i \in 1..k : b[i] = Byte(0 + i)
  <2>1. 0 \in Nat
    OBVIOUS
  <2>2. b \in Seq(Token) /\ Len(b) = k /\ \A i \in 1..k : b[i] = Byte(0 + i)
    BY ONLY <1>1, <2>1, BytesFromType
  <2> HIDE DEF b
  <2> QED BY <2>2
<1>3. InOrder(b) /\ Number(b, Len(b)) = k
  <2>1. << >> \in Seq(Token) /\ << >> \o b = b /\ 0 \in Nat
    BY <1>2
  <2>2. PICK z \in Nat : z = 0
    OBVIOUS
  <2>3. InOrder(<< >>) /\ Number(<< >>, Len(<< >>)) = z
    BY <2>2, NothingInOrder
  <2>4. \A s \in Seq(Token) :
           InOrder(s) /\ Number(s, Len(s)) = z =>
               /\ InOrder(s \o BytesFrom(z, k))
               /\ Number(s \o BytesFrom(z, k), Len(s \o BytesFrom(z, k))) = z + k
    BY ONLY <1>1, z \in Nat, NextInOrder
  <2>5. b = BytesFrom(z, k)
    BY <2>2
  <2> HIDE DEF b
  <2>6. InOrder(<< >> \o b) /\ Number(<< >> \o b, Len(<< >> \o b)) = z + k
    BY ONLY <2>1, <2>3, <2>4, <2>5
  <2>7. InOrder(b) /\ Number(b, Len(b)) = z + k
    BY ONLY <2>1, <2>6
  <2> QED BY <1>1, <2>2, <2>7
<1>4. Holding(b, k)
  <2>1. \A i \in 1..k : 0 + i = i
    OBVIOUS
  <2> QED BY <1>2, <2>1 DEF Holding
<1>5. Stream = got /\ adapter # "async_writer"
  BY DEF Stream
<1>6. \A i \in DOMAIN b : b[i] # EndMark
  BY <1>2, Tokens
<1> HIDE DEF b
<1>7. CASE ~enc.ended
  <2>1. got = b
    BY <1>1, <1>2, <1>7
  <2>2. BytesOf(b) = [j \in 1..Number(b, Len(b)) |-> j]
    BY <1>2, <1>3, <1>4, BytesAreNumbers
  <2>3. ~PipeClosed
    BY <1>5, <1>6, <2>1 DEF PipeClosed
  <2> QED BY <1>1, <1>2, <1>3, <1>5, <2>1, <2>2, <2>3 DEF Numbers, PipeDelivered, PipeInv, Handed
<1>8. CASE enc.ended
  <2> DEFINE t == b \o <<EndMark>>
  <2>1. got = t
    BY <1>1, <1>8
  <2>2. /\ t \in Seq(Token) /\ DOMAIN t = 1..(k + 1) /\ t[k + 1] = EndMark
        /\ \A i \in 1..k : t[i] = b[i]
    BY <1>1, <1>2, Tokens
  <2>3. InOrder(t) /\ Number(t, Len(t)) = k
    BY <1>2, <1>3, MarkInOrder
  <2> HIDE DEF t
  <2>4. Holding(t, k)
    BY <1>1, <1>2, <1>4, <2>2 DEF Holding
  <2>5. BytesOf(t) = [j \in 1..Number(t, Len(t)) |-> j]
    BY <2>2, <2>3, <2>4, BytesAreNumbers
  <2> QED BY <1>1, <1>5, <1>8, <2>1, <2>2, <2>3, <2>5 DEF Numbers, PipeDelivered, PipeInv, Handed
<1> QED BY <1>7, <1>8

LEMMA Piping == Spec => []PipeInv
<1>1. IInv /\ OrderInv => PipeInv
  BY WriterStream, ReaderStream DEF IInv, OrderInv
<1> QED BY <1>1, Invariance, Ordering, PTL

LEMMA NumbersJoin ==
    ASSUME NEW k \in Nat, NEW n \in Nat
    PROVE  Numbers(k + n) = Numbers(k) \o [i \in 1..n |-> k + i]
<1> DEFINE a == Numbers(k)
           b == [i \in 1..n |-> k + i]
           c == Numbers(k + n)
<1>1. a \in Seq(Nat) /\ Len(a) = k /\ \A i \in 1..k : a[i] = i
  BY DEF Numbers
<1>2. c \in Seq(Nat) /\ Len(c) = k + n /\ \A i \in 1..(k + n) : c[i] = i
  BY DEF Numbers
<1>3. b \in Seq(Nat) /\ Len(b) = n /\ \A i \in 1..n : b[i] = k + i
  OBVIOUS
<1> HIDE DEF a, b, c
<1>4. a \o b \in Seq(Nat) /\ Len(a \o b) = k + n
  BY <1>1, <1>3
<1>5. ASSUME NEW i \in 1..(k + n)
      PROVE  (a \o b)[i] = c[i]
  <2>1. CASE i <= k
    <3>1. i \in 1..k /\ (a \o b)[i] = a[i]
      BY <1>1, <1>3, <2>1
    <3> QED BY <1>1, <1>2, <3>1
  <2>2. CASE i > k
    <3>1. PICK j \in 1..n : i = k + j
      <4>1. i - k \in 1..n /\ i = k + (i - k)
        BY <2>2
      <4> QED BY <4>1
    <3>2. (a \o b)[Len(a) + j] = b[j]
      BY ONLY <1>1, <1>3, j \in 1..n, FollowedBy
    <3>3. (a \o b)[i] = b[j]
      BY <1>1, <3>1, <3>2
    <3> QED BY <1>2, <1>3, <3>1, <3>3
  <2>3. i <= k \/ i > k
    OBVIOUS
  <2> QED BY ONLY <2>1, <2>2, <2>3
<1>6. a \o b = c
  BY <1>2, <1>4, <1>5, SeqEqual
<1> QED BY <1>6 DEF a, b, c

(* A step of either adapter leaves its stream alone or, while it is open,  *)
(* adds to it.                                                             *)
StreamMoves ==
    \/ Stream' = Stream /\ enc'.taken = enc.taken
    \/ ~PipeClosed /\ enc'.taken >= enc.taken /\ \E x \in Seq(Token) : Stream' = Stream \o x

LEMMA WriterMoves ==
    ASSUME AsyncInv, AsyncMoves, PipeInv, adapter = "async_writer", adapter' = adapter
    PROVE  StreamMoves
<1>1. Stream = wire /\ Stream' = wire'
  BY DEF Stream
<1>2. wire \in Seq(Token) /\ out \in Seq(Token) /\ enc.taken \in Nat
  BY DEF AsyncInv, EncState
<1>3. CASE wire' = wire /\ enc'.taken = enc.taken
  BY <1>1, <1>3 DEF StreamMoves
<1>4. CASE wire' = wire /\ ~closing /\ enc'.taken >= enc.taken
  <2>1. ~PipeClosed
    BY <1>4 DEF PipeInv, AsyncInv
  <2>2. wire \o << >> = wire /\ << >> \in Seq(Token)
    BY <1>2
  <2> QED BY <1>1, <1>4, <2>1, <2>2 DEF StreamMoves
<1>5. ASSUME enc' = enc, NEW n \in 1..Len(out), wire' = wire \o SubSeq(out, 1, n)
      PROVE  StreamMoves
  <2>1. out # << >> /\ SubSeq(out, 1, n) \in Seq(Token)
    BY <1>2
  <2>2. ~PipeClosed
    BY <2>1 DEF PipeInv
  <2>3. enc'.taken >= enc.taken
    BY <1>2, <1>5
  <2> QED BY <1>1, <1>5, <2>1, <2>2, <2>3 DEF StreamMoves
<1> QED BY <1>3, <1>4, <1>5 DEF AsyncMoves

LEMMA ReaderMoves ==
    ASSUME ReaderInv, PipeInv, R!Next, adapter = "reader", adapter' = adapter
    PROVE  StreamMoves
<1>1. Stream = got /\ Stream' = got'
  BY DEF Stream
<1>2. /\ enc \in EncState /\ enc.emitted <= enc.taken /\ room \in Nat
      /\ enc.emitted \in Nat /\ enc.taken \in Nat
  BY DEF ReaderInv, EncState
<1>3. CASE UNCHANGED <<enc, got>>
  BY <1>1, <1>3 DEF StreamMoves
<1>4. \A w \in Nat : BytesFrom(enc.emitted, w) \in Seq(Token)
  BY <1>2, BytesFromType
<1>5. CASE R!Encode
  <2>1. PICK r \in EncodeOutcomes(enc, Len(R!Buffered), room) : enc' = r.enc /\ got' = got \o r.out
    BY <1>5, SameCodec DEF R!Encode
  <2>2. ~enc.ended
    BY <1>5 DEF R!Encode, ReaderInv
  <2>3. Len(R!Buffered) \in Nat
    BY BufferedIs
  <2>4. /\ r.consumed \in 0..Len(R!Buffered) /\ r.enc.taken = enc.taken + r.consumed
        /\ \E w \in Nat : r.enc.emitted = enc.emitted + w /\ r.out = BytesFrom(enc.emitted, w)
    BY <1>2, <2>3, EncodeContract
  <2>5. r.out \in Seq(Token)
    BY ONLY <1>4, <2>4
  <2>6. enc'.taken >= enc.taken
    BY <1>2, <2>1, <2>3, <2>4
  <2> QED BY <1>1, <2>1, <2>2, <2>5, <2>6 DEF StreamMoves, PipeInv
<1>6. CASE R!Finish
  <2>1. PICK r \in FinishOutcomes(enc, room) : enc' = r.enc /\ got' = got \o r.out
    BY <1>6, SameCodec DEF R!Finish
  <2>2. ~enc.ended
    BY <1>6 DEF R!Finish, R!Exhausted, ReaderInv
  <2>3. /\ ~enc.ended =>
             /\ r.enc.taken = enc.taken
             /\ \E w \in Nat :
                  /\ ~r.enc.ended => r.out = BytesFrom(enc.emitted, w)
                  /\ r.enc.ended => r.out = BytesFrom(enc.emitted, w) \o <<EndMark>>
    <3>1. r \in FinishOutcomes(enc, room)
      OBVIOUS
    <3>2. /\ enc.ended => r.enc = enc /\ r.out = << >>
          /\ ~enc.ended =>
               /\ r.enc \in EncState
               /\ r.enc.taken = enc.taken
               /\ r.enc.emitted <= r.enc.taken
               /\ r.out = << >> => room < Atom
               /\ \E w \in Nat :
                    /\ r.enc.emitted = enc.emitted + w
                    /\ ~r.enc.ended => r.out = BytesFrom(enc.emitted, w)
                    /\ r.enc.ended => /\ r.out = BytesFrom(enc.emitted, w) \o <<EndMark>>
                                      /\ r.enc.emitted = enc.taken
      BY ONLY <1>2, <3>1, FinishContract
    <3> QED BY ONLY <3>2
  <2>4. PICK w \in Nat :
           \/ r.out = BytesFrom(enc.emitted, w)
           \/ r.out = BytesFrom(enc.emitted, w) \o <<EndMark>>
    BY <2>2, <2>3
  <2>5. r.out \in Seq(Token)
    <3> DEFINE b == BytesFrom(enc.emitted, w)
    <3>1. b \in Seq(Token)
      BY <1>4
    <3> HIDE DEF b
    <3>2. b \o <<EndMark>> \in Seq(Token)
      BY <3>1, Tokens
    <3> QED BY <2>4, <3>1, <3>2 DEF b
  <2>6. enc'.taken >= enc.taken
    BY <1>2, <2>1, <2>2, <2>3
  <2> QED BY <1>1, <2>1, <2>2, <2>5, <2>6 DEF StreamMoves, PipeInv
<1>7. CASE R!FinishedRead \/ R!CodecFails \/ R!RefillFails
  <2>1. UNCHANGED <<enc, got>>
    BY <1>7 DEF R!FinishedRead, R!CodecFails, R!RefillFails
  <2> QED BY <1>3, <2>1
<1>8. CASE (\E n \in 1..MaxRoom : R!CallRead(n)) \/ (\E n \in 0..IN_BUF : R!Refill(n))
  <2>1. UNCHANGED <<enc, got>>
    BY <1>8 DEF R!CallRead, R!Refill
  <2> QED BY <1>3, <2>1
<1> QED BY <1>5, <1>6, <1>7, <1>8 DEF R!Next, R!Adapter

(* Both are pipes: what they hand over is what they took, each byte once   *)
(* and in order, and the trailer closes it behind all of them, for every   *)
(* buffer size and whatever peers refuse and callers abandon.              *)
THEOREM AdaptersArePipes == Spec => ImplementsPipe
<1>1. Init => Pipeline!Init
  <2> SUFFICES ASSUME Init PROVE Pipeline!Init
    OBVIOUS
  <2>1. Stream = << >> /\ enc = NewEncoder
    BY FreshEncoder DEF Init, A!Init, R!Init, Stream
  <2>2. Number(<< >>, Len(<< >>)) = 0
    BY NothingInOrder
  <2>3. BytesOf(<< >>) = << >>
    BY <2>2 DEF BytesOf
  <2> QED BY <2>1, <2>3, FreshEncoder DEF Pipeline!Init
<1>2. IInv /\ IInv' /\ OrderInv /\ PipeInv /\ PipeInv' /\ [Next]_vars =>
        [Pipeline!Move]_<<enc.taken, PipeDelivered, PipeClosed>>
  <2> SUFFICES ASSUME IInv, IInv', OrderInv, PipeInv, PipeInv', [Next]_vars
               PROVE  [Pipeline!Move]_<<enc.taken, PipeDelivered, PipeClosed>>
    OBVIOUS
  <2>1. StreamMoves
    <3>1. CASE UNCHANGED vars
      BY <3>1 DEF vars, StreamMoves, Stream
    <3>2. CASE OfA(A!Next)
      <4>1. adapter = "async_writer" /\ adapter' = adapter /\ A!Next /\ AsyncInv /\ AsyncInv'
        BY <3>2 DEF OfA, NotOfA, IInv
      <4>2. AsyncMoves
        BY <4>1, AsyncOrders DEF OrderInv
      <4> QED BY <4>1, <4>2, WriterMoves
    <3>3. CASE OfR(R!Next)
      <4>1. adapter = "reader" /\ adapter' = adapter /\ R!Next /\ ReaderInv
        BY <3>3 DEF OfR, NotOfR, IInv
      <4> QED BY <4>1, ReaderMoves
    <3> QED BY <3>1, <3>2, <3>3 DEF Next, Over
  <2>2. CASE Stream' = Stream /\ enc'.taken = enc.taken
    <3>1. PipeDelivered' = PipeDelivered
      BY <2>2 DEF PipeDelivered
    <3>2. PipeClosed' = PipeClosed
      BY <2>2 DEF PipeClosed
    <3> QED BY <2>2, <3>1, <3>2
  <2>3. ASSUME ~PipeClosed, enc'.taken >= enc.taken, NEW x \in Seq(Token), Stream' = Stream \o x
        PROVE  Pipeline!Move
    <3> DEFINE k == Handed
               l == Handed'
               n == l - k
    <3>1. /\ Stream \in Seq(Token) /\ k \in Nat /\ enc.taken \in Nat /\ PipeDelivered = Numbers(k)
          /\ l \in Nat /\ enc'.taken \in Nat /\ l <= enc'.taken /\ PipeDelivered' = Numbers(l)
          /\ PipeClosed' => l = enc'.taken
      BY DEF PipeInv
    <3>2. k <= l
      <4>1. Len(Stream) \in 0..Len(Stream) /\ Len(Stream \o x) \in Nat /\ Len(Stream) \in Nat
            /\ Len(Stream) <= Len(Stream \o x)
        BY <3>1, TokensConcat
      <4>2. Number(Stream \o x, Len(Stream)) = Number(Stream, Len(Stream))
        BY <3>1, <4>1, NumberOfPrefix
      <4>3. Number(Stream \o x, Len(Stream)) <= Number(Stream \o x, Len(Stream \o x))
        BY <4>1, NumberGrows
      <4> QED BY <2>3, <4>2, <4>3 DEF Handed
    <3> HIDE DEF k, l
    <3>3. n \in 0..(enc'.taken - k) /\ n \in Nat /\ k + n = l
      BY <3>1, <3>2
    <3>4. Len(PipeDelivered) = k /\ Len(PipeDelivered') = l
      BY <3>1 DEF Numbers
    <3>5. Numbers(l) = Numbers(k) \o [i \in 1..n |-> k + i]
      BY ONLY <3>1, <3>3, NumbersJoin
    <3> HIDE DEF n
    <3>6. \E m \in 0..(enc'.taken - Len(PipeDelivered)) :
             PipeDelivered' = PipeDelivered \o [i \in 1..m |-> Len(PipeDelivered) + i]
      BY <3>1, <3>3, <3>4, <3>5
    <3>7. PipeClosed' \in BOOLEAN /\ (PipeClosed' => Len(PipeDelivered') = enc'.taken)
      BY <3>1, <3>4 DEF PipeClosed
    <3> QED BY <2>3, <3>1, <3>6, <3>7
            DEF Pipeline!Move, Pipeline!Following, PipeDelivered, PipeClosed
  <2> QED BY <2>1, <2>2, <2>3 DEF StreamMoves
<1> QED BY <1>1, <1>2, Invariance, Ordering, Piping, PTL
        DEF Spec, ImplementsPipe, Pipeline!Spec, PipeDelivered, PipeClosed
=============================================================================
