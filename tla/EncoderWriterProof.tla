-------------------------- MODULE EncoderWriterProof ------------------------
(***************************************************************************)
(* Proofs about EncoderWriter, for every scratch size, codec step size and *)
(* amount of input: the type invariant, that nothing is lost or repeated   *)
(* on the way to the inner writer, and that the caller is told of every    *)
(* byte the codec took.                                                    *)
(***************************************************************************)
EXTENDS EncoderWriter, EncoderCodecProof

(* s holds the bytes 1..m in order, once each, and marks anywhere.         *)
StreamOf(s, m) ==
    /\ InOrder(s)
    /\ Holds(s, m)
    /\ \A i \in DOMAIN s : s[i].kind = "byte" => s[i].n <= m

(* Appending the next w bytes to a stream of m bytes gives one of m + w.   *)
LEMMA StreamGrows ==
    ASSUME NEW s \in Seq(Token), NEW m \in Nat, NEW w \in Nat, StreamOf(s, m)
    PROVE  StreamOf(s \o BytesFrom(m, w), m + w)
<1> DEFINE b == BytesFrom(m, w)
           t == s \o b
<1>1. /\ b \in Seq(Token) /\ Len(b) = w
      /\ \A i \in 1..w : b[i] = Byte(m + i)
  BY BytesFromType
<1> HIDE DEF b
<1>2. /\ t \in Seq(Token) /\ DOMAIN t = 1..(Len(s) + w) /\ Len(s) \in Nat
      /\ \A i \in 1..Len(s) : t[i] = s[i]
      /\ \A i \in 1..w : t[Len(s) + i] = Byte(m + i)
  BY <1>1
<1> HIDE DEF t
<1>3. \A i \in DOMAIN t : i \in 1..Len(s) \/ \E j \in 1..w : i = Len(s) + j
  <2> SUFFICES ASSUME NEW i \in DOMAIN t, i \notin 1..Len(s)
               PROVE  \E j \in 1..w : i = Len(s) + j
    OBVIOUS
  <2>1. i - Len(s) \in 1..w /\ i = Len(s) + (i - Len(s))
    BY <1>2
  <2> QED BY <2>1
<1>0. \A i \in DOMAIN s : s[i].n \in Nat
  <2> SUFFICES ASSUME NEW i \in DOMAIN s PROVE s[i].n \in Nat
    OBVIOUS
  <2>1. s[i] \in Token
    BY ElementOfSeq
  <2> QED BY <2>1 DEF Token
<1>4. \A j \in 1..w : Byte(m + j).kind = "byte" /\ Byte(m + j).n = m + j
  BY DEF Byte
<1>5. \A i \in DOMAIN t : t[i].kind = "byte" => t[i].n <= m + w
  <2> SUFFICES ASSUME NEW i \in DOMAIN t, t[i].kind = "byte"
               PROVE  t[i].n <= m + w
    OBVIOUS
  <2>1. CASE i \in 1..Len(s)
    <3>1. t[i] = s[i] /\ i \in DOMAIN s
      BY <1>2, <2>1
    <3>2. s[i].n <= m
      BY <3>1 DEF StreamOf
    <3> QED BY <3>1, <3>2, <2>1, <1>0, <1>2
  <2>2. CASE \E j \in 1..w : i = Len(s) + j
    <3>1. PICK j \in 1..w : i = Len(s) + j
      BY <2>2
    <3>2. t[i].n = m + j
      BY <3>1, <1>2, <1>4
    <3> QED BY <3>2
  <2> QED BY <1>3, <2>1, <2>2
<1>6. InOrder(t)
  <2> SUFFICES ASSUME NEW i \in DOMAIN t, NEW j \in DOMAIN t, i < j,
                      t[i].kind = "byte", t[j].kind = "byte"
               PROVE  t[i].n < t[j].n
    BY DEF InOrder
  <2>1. CASE i \in 1..Len(s) /\ j \in 1..Len(s)
    BY <2>1, <1>2 DEF StreamOf, InOrder
  <2>2. CASE i \in 1..Len(s) /\ \E k \in 1..w : j = Len(s) + k
    <3>1. PICK k \in 1..w : j = Len(s) + k
      BY <2>2
    <3>2. t[i] = s[i] /\ s[i].n <= m /\ s[i].n \in Nat
      BY <2>2, <1>2, <1>0 DEF StreamOf
    <3>3. t[j].n = m + k
      BY <3>1, <1>2, <1>4
    <3> QED BY <3>2, <3>3
  <2>3. CASE (\E k \in 1..w : i = Len(s) + k) /\ (\E k \in 1..w : j = Len(s) + k)
    <3>1. PICK k \in 1..w : i = Len(s) + k
      BY <2>3
    <3>2. PICK l \in 1..w : j = Len(s) + l
      BY <2>3
    <3>3. t[i].n = m + k
      BY <3>1, <1>2, <1>4
    <3>4. t[j].n = m + l
      BY <3>2, <1>2, <1>4
    <3>5. k < l
      BY <3>1, <3>2, <1>2
    <3> QED BY <3>3, <3>4, <3>5
  <2>4. CASE (\E k \in 1..w : i = Len(s) + k) /\ j \in 1..Len(s)
    BY <2>4, <1>2
  <2> QED BY <1>3, <2>1, <2>2, <2>3, <2>4
<1>7. Holds(t, m + w)
  <2> SUFFICES ASSUME NEW k \in 1..(m + w)
               PROVE  \E i \in DOMAIN t : t[i] = Byte(k)
    BY DEF Holds
  <2>1. CASE k <= m
    <3>1. PICK i \in DOMAIN s : s[i] = Byte(k)
      BY <2>1 DEF StreamOf, Holds
    <3> QED BY <3>1, <1>2
  <2>2. CASE k > m
    <3>1. k - m \in 1..w /\ m + (k - m) = k
      BY <2>2
    <3>2. t[Len(s) + (k - m)] = Byte(m + (k - m))
      BY <3>1, <1>2
    <3>3. Len(s) + (k - m) \in DOMAIN t
      BY <3>1, <1>2
    <3> QED BY <3>1, <3>2, <3>3
  <2> QED BY <2>1, <2>2
<1> QED BY <1>5, <1>6, <1>7 DEF t, b, StreamOf

(* Appending a mark to a stream of m bytes leaves a stream of m bytes.     *)
LEMMA StreamMarked ==
    ASSUME NEW s \in Seq(Token), NEW m \in Nat, StreamOf(s, m),
           NEW mark \in Token, mark.kind # "byte"
    PROVE  StreamOf(s \o <<mark>>, m)
<1> DEFINE t == s \o <<mark>>
<1>1. /\ DOMAIN t = 1..(Len(s) + 1) /\ Len(s) \in Nat
      /\ \A i \in 1..Len(s) : t[i] = s[i]
      /\ t[Len(s) + 1] = mark
  OBVIOUS
<1> HIDE DEF t
<1>2. \A i \in DOMAIN t : t[i].kind = "byte" => i \in DOMAIN s /\ t[i] = s[i]
  BY <1>1
<1>3. InOrder(t)
  BY <1>2 DEF InOrder, StreamOf
<1>4. Holds(t, m)
  <2> SUFFICES ASSUME NEW k \in 1..m PROVE \E i \in DOMAIN t : t[i] = Byte(k)
    BY DEF Holds
  <2>1. PICK i \in DOMAIN s : s[i] = Byte(k)
    BY DEF StreamOf, Holds
  <2> QED BY <2>1, <1>1
<1> QED BY <1>2, <1>3, <1>4 DEF t, StreamOf

-----------------------------------------------------------------------------
(* The inductive invariant.  NothingFedTwice is not inductive: it needs    *)
(* the count of a write in progress.  FinishIsComplete needs what the      *)
(* status of a codec call says about the stream before the call returns.   *)

Counts ==
    /\ enc.emitted <= enc.taken
    /\ call.op # "write" => call.consumed = 0
    /\ reported + call.consumed <= enc.taken
    /\ ~broken => reported + call.consumed = enc.taken

StreamInv ==
    /\ StreamOf(stream, enc.emitted)
    /\ \A i \in DOMAIN stream : stream[i].kind = "end" => i = Len(stream) /\ enc.ended
    /\ enc.ended => enc.emitted = enc.taken /\ EndsWith(stream, EndMark)

Roles ==
    /\ call.op \in {"write", "flush"} => owned /\ call.status # "StreamEnd"
    /\ owned => ~finished /\ ~enc.ended /\ call.op \notin {"finish", "drop"}
    /\ call.op \in {"finish", "drop"} /\ call.status = "StreamEnd" => enc.ended
    /\ Flushes /\ call.op = "flush" /\ call.status = "InputEmpty" =>
         enc.emitted = enc.taken /\ EndsWith(stream, SyncMark)

Lasts ==
    /\ last.op = "flush" /\ last.ok =>
         /\ call.op = "none"
         /\ Flushes => /\ staged = << >>
                       /\ enc.emitted = enc.taken
                       /\ EndsWith(stream, SyncMark)
    /\ last.op = "finish" /\ last.ok =>
         call.op = "none" /\ staged = << >> /\ enc.ended

IInv == TypeOK /\ Counts /\ StreamInv /\ Roles /\ Lasts

(* A fresh adapter satisfies the invariant (EncoderWriter::new).           *)
LEMMA InitIInv == Init => IInv
<1> SUFFICES ASSUME Init PROVE IInv
  OBVIOUS
<1>1. TypeOK
  <2>1. enc \in EncState
    BY DEF Init, EncState, NewEncoder
  <2>2. call \in CallState
    BY DEF Init, Idle, Ops, Status, CallState
  <2>3. last \in [op : Ops, ok : BOOLEAN]
    BY DEF Init, Ops
  <2>4. staged \in Seq(Token) /\ wire \in Seq(Token)
    BY DEF Init
  <2>5. call.consumed <= call.len
    BY DEF Init, Idle
  <2> QED BY <2>1, <2>2, <2>3, <2>4, <2>5 DEF Init, TypeOK
<1>2. Counts /\ Roles /\ Lasts
  BY DEF Init, Counts, Roles, Lasts, Idle, NewEncoder
<1>3. stream = << >>
  BY DEF Init, stream
<1>4. StreamInv
  BY <1>3 DEF Init, StreamInv, StreamOf, InOrder, Holds, NewEncoder
<1> QED BY <1>1, <1>2, <1>4 DEF IInv

(* Pushing a part of the staged output to inner leaves the stream alone.   *)
LEMMA AcceptKeepsStream ==
    ASSUME TypeOK, NEW n \in 1..Len(staged), InnerAccepts(n)
    PROVE  /\ stream' = stream
           /\ wire' \in Seq(Token)
           /\ staged' \in Seq(Token)
<1>1. wire \in Seq(Token) /\ staged \in Seq(Token) /\ Len(staged) \in Nat
  BY DEF TypeOK
<1> DEFINE a == SubSeq(staged, 1, n)
           b == SubSeq(staged, n + 1, Len(staged))
<1>2. a \in Seq(Token) /\ b \in Seq(Token)
  BY <1>1
<1>3. a \o b = SubSeq(staged, 1, Len(staged))
  BY <1>1, ConcatAdjacentSubSeq
<1>4. a \o b = staged
  BY <1>1, <1>3, SubSeqFull
<1>5. wire' = wire \o a /\ staged' = b
  BY DEF InnerAccepts, Unsent
<1> HIDE DEF a, b
<1>6. (wire \o a) \o b = wire \o (a \o b)
  BY <1>1, <1>2, TokensAssociative
<1> QED BY <1>1, <1>2, <1>4, <1>5, <1>6 DEF stream

(* A codec call made with nothing staged appends what it hands over.       *)
LEMMA CodecAppends ==
    ASSUME TypeOK, staged = << >>, wire' = wire
    PROVE  stream = wire /\ stream' = wire \o staged'
  BY ConcatEmptySeq DEF TypeOK, stream

(* A stream with a mark appended ends with that mark.                      *)
LEMMA AppendLast ==
    ASSUME NEW s \in Seq(Token), NEW mark \in Token
    PROVE  EndsWith(s \o <<mark>>, mark)
  BY DEF EndsWith

(* The bytes of an encode or of an incomplete drain keep StreamInv.        *)
LEMMA BytesKeepStreamInv ==
    ASSUME TypeOK, TypeOK', StreamInv, ~enc.ended, staged = << >>, wire' = wire,
           NEW w \in Nat, staged' = BytesFrom(enc.emitted, w),
           enc'.emitted = enc.emitted + w, ~enc'.ended
    PROVE  StreamInv'
<1>1. stream = wire /\ stream' = wire \o staged' /\ wire \in Seq(Token)
  BY CodecAppends DEF TypeOK
<1>2. enc.emitted \in Nat
  BY DEF TypeOK, EncState
<1>3. StreamOf(stream', enc'.emitted)
  BY <1>1, <1>2, StreamGrows DEF StreamInv
<1>4. ASSUME NEW i \in DOMAIN (stream') PROVE stream'[i].kind # "end"
  <2>1. /\ staged' \in Seq(Token) /\ Len(staged') = w
        /\ \A j \in 1..w : staged'[j] = Byte(enc.emitted + j)
    BY <1>2, BytesFromType
  <2>c. /\ i \in 1..Len(wire) => stream'[i] = wire[i] /\ i \in DOMAIN wire
        /\ i \notin 1..Len(wire) => i - Len(wire) \in 1..w /\ stream'[i] = staged'[i - Len(wire)]
    BY <1>1, <2>1, TokensConcat
  <2>2. CASE i \in 1..Len(wire)
    <3>1. stream'[i] = stream[i] /\ i \in DOMAIN stream
      BY <1>1, <2>c, <2>2
    <3> QED BY <3>1 DEF StreamInv
  <2>3. CASE i \notin 1..Len(wire)
    <3>1. i - Len(wire) \in 1..w /\ stream'[i] = staged'[i - Len(wire)]
      BY <2>c, <2>3
    <3>2. stream'[i] = Byte(enc.emitted + (i - Len(wire)))
      BY <2>1, <3>1
    <3> QED BY <3>2 DEF Byte
  <2> QED BY <2>2, <2>3
<1> QED BY <1>3, <1>4 DEF StreamInv

(* A completed drain, its mark included, keeps StreamInv.                  *)
LEMMA MarkKeepsStreamInv ==
    ASSUME TypeOK, TypeOK', StreamInv, ~enc.ended, staged = << >>, wire' = wire,
           NEW w \in Nat, NEW mark \in Token, mark.kind # "byte",
           staged' = BytesFrom(enc.emitted, w) \o <<mark>>,
           enc'.emitted = enc.emitted + w, enc'.emitted = enc'.taken,
           mark = EndMark <=> enc'.ended, mark.kind = "end" => mark = EndMark
    PROVE  StreamInv' /\ EndsWith(stream', mark)
<1> DEFINE b == BytesFrom(enc.emitted, w)
           s == wire \o b
<1>1. stream = wire /\ stream' = wire \o staged' /\ wire \in Seq(Token)
  BY CodecAppends DEF TypeOK
<1>2. enc.emitted \in Nat
  BY DEF TypeOK, EncState
<1>3. b \in Seq(Token) /\ Len(b) = w /\ \A j \in 1..w : b[j] = Byte(enc.emitted + j)
  BY <1>2, BytesFromType
<1>4. StreamOf(s, enc'.emitted) /\ s \in Seq(Token)
  BY <1>1, <1>2, <1>3, StreamGrows DEF StreamInv
<1>5. stream' = s \o <<mark>>
  <2> HIDE DEF b
  <2>1. <<mark>> \in Seq(Token)
    OBVIOUS
  <2>2. (wire \o b) \o <<mark>> = wire \o (b \o <<mark>>)
    BY <1>1, <1>3, <2>1, TokensAssociative
  <2> QED BY <1>1, <2>2 DEF b
<1>6. StreamOf(stream', enc'.emitted) /\ EndsWith(stream', mark)
  <2> HIDE DEF s
  <2>1. enc'.emitted \in Nat
    BY DEF TypeOK, EncState
  <2> QED BY <1>4, <1>5, <2>1, StreamMarked, AppendLast
<1>7. /\ <<mark>> \in Seq(Token) /\ Len(<<mark>>) = 1 /\ <<mark>>[1] = mark
      /\ s \in Seq(Token) /\ Len(s) = Len(wire) + w /\ Len(wire) \in Nat
  <2>1. <<mark>> \in Seq(Token) /\ Len(<<mark>>) = 1 /\ <<mark>>[1] = mark
    OBVIOUS
  <2> HIDE DEF b
  <2>2. s \in Seq(Token) /\ Len(s) = Len(wire) + w /\ Len(wire) \in Nat
    BY <1>1, <1>3, TokensConcat
  <2> QED BY <2>1, <2>2
<1>8. /\ Len(stream') = Len(s) + 1
      /\ \A i \in DOMAIN (stream') : i \in 1..Len(s) \/ i = Len(s) + 1
      /\ \A i \in 1..Len(s) : stream'[i] = s[i]
      /\ stream'[Len(s) + 1] = mark
  <2> HIDE DEF s
  <2>1. Len(s \o <<mark>>) = Len(s) + 1 /\ DOMAIN (s \o <<mark>>) = 1..(Len(s) + 1)
    BY <1>7, TokensConcat
  <2>2. \A i \in 1..Len(s) : (s \o <<mark>>)[i] = s[i]
    BY <1>7, TokensConcat
  <2>3. (s \o <<mark>>)[Len(s) + 1] = mark
    <3> HIDE DEF s
    <3>1. s \in Seq(Token) /\ mark \in Token
      BY <1>7
    <3> QED BY <3>1, LastOfAppended
  <2> QED BY <1>5, <1>7, <2>1, <2>2, <2>3
<1>9. ASSUME NEW i \in 1..Len(s), s[i].kind = "end"
      PROVE  FALSE
  <2>1. CASE i \in 1..Len(wire)
    <3>1. s[i] = wire[i] /\ i \in DOMAIN wire
      BY <1>1, <1>3, <2>1, TokensConcat
    <3> QED BY <1>1, <1>9, <3>1 DEF StreamInv
  <2>2. CASE i \notin 1..Len(wire)
    <3>1. i - Len(wire) \in 1..w /\ s[i] = b[i - Len(wire)]
      <4> HIDE DEF b
      <4> QED BY <1>1, <1>3, <1>7, <2>2
    <3>2. b[i - Len(wire)] = Byte(enc.emitted + (i - Len(wire)))
      BY <1>3, <3>1
    <3> QED BY <1>9, <3>1, <3>2 DEF Byte
  <2> QED BY <2>1, <2>2
<1>10. ASSUME NEW i \in DOMAIN (stream'), stream'[i].kind = "end"
       PROVE  i = Len(stream') /\ enc'.ended
  <2> HIDE DEF s
  <2>1. i = Len(s) + 1
    BY <1>8, <1>9, <1>10
  <2>2. stream'[i] = mark
    BY <1>8, <2>1
  <2>3. mark = EndMark
    BY <1>10, <2>2
  <2> QED BY <1>8, <2>1, <2>3
<1> QED BY <1>6, <1>10 DEF StreamInv

-----------------------------------------------------------------------------
(* Every step keeps the invariant: one lemma per kind of step.             *)

(* Steps that touch neither the stream nor the codec.                      *)
LEMMA QuietKeepsStreamInv ==
    ASSUME StreamInv, UNCHANGED <<enc, staged, wire>>
    PROVE  StreamInv' /\ stream' = stream
  BY DEF StreamInv, stream, StreamOf

(* The caller starting a call keeps the invariant (write, flush, finish,   *)
(* drop: the code before the first drain).                                 *)
LEMMA BeginKeepsIInv ==
    ASSUME IInv, Caller
    PROVE  IInv'
<1> USE DEF IInv
<1>1. PICK op \in {"write", "flush", "finish", "drop"}, len \in Nat :
        /\ Begin(op, len)
        /\ owned' \in BOOLEAN
        /\ owned' <=> op \in {"write", "flush"}
        /\ flushes' \in Nat
  <2>0. MaxBytes \in Nat /\ flushes \in Nat /\ owned \in BOOLEAN
    BY BoundAssumption DEF TypeOK
  <2>1. CASE \E n \in 0..MaxBytes : CallWrite(n)
    <3>1. PICK n \in 0..MaxBytes : CallWrite(n)
      BY <2>1
    <3>2. Begin("write", n) /\ owned' = TRUE /\ flushes' \in Nat /\ n \in Nat
      BY <2>0, <3>1 DEF CallWrite, Begin
    <3> QED BY <3>2
  <2>2. CASE CallFlush
    <3>1. Begin("flush", 0) /\ owned' = TRUE /\ flushes' \in Nat
      BY <2>0, <2>2 DEF CallFlush, Begin
    <3> QED BY <3>1
  <2>3. CASE CallFinish
    <3>1. Begin("finish", 0) /\ owned' = FALSE /\ flushes' \in Nat
      BY <2>0, <2>3 DEF CallFinish
    <3> QED BY <3>1
  <2>4. CASE CallDrop
    <3>1. Begin("drop", 0) /\ owned' = FALSE /\ flushes' \in Nat
      BY <2>0, <2>4 DEF CallDrop
    <3> QED BY <3>1
  <2> QED BY <2>1, <2>2, <2>3, <2>4 DEF Caller
<1>2. /\ call.op = "none" /\ owned
      /\ call' = [op |-> op, len |-> len, consumed |-> 0, status |-> "none", turn |-> FALSE]
      /\ last' = [op |-> "none", ok |-> TRUE]
      /\ UNCHANGED <<enc, staged, finished, wire, reported, broken>>
  BY <1>1 DEF Begin, Idle
<1>3. TypeOK'
  <2>1. call' \in CallState
    BY <1>2 DEF Ops, Status, CallState
  <2>2. last' \in [op : Ops, ok : BOOLEAN]
    BY <1>2 DEF Ops
  <2> QED BY <1>1, <1>2, <2>1, <2>2 DEF TypeOK
<1>4. StreamInv' /\ stream' = stream
  BY <1>2, QuietKeepsStreamInv
<1>5. call'.op = op /\ call'.consumed = 0 /\ call'.status = "none" /\ call'.len = len
  BY <1>2
<1>6. Counts'
  BY <1>2, <1>5 DEF Counts
<1>7. Roles'
  BY <1>1, <1>2, <1>5 DEF Roles
<1>8. Lasts'
  BY <1>2 DEF Lasts
<1> QED BY <1>3, <1>4, <1>6, <1>7, <1>8

(* A call that ends.                                                       *)
LEMMA ReturnKeepsIInv ==
    ASSUME IInv, NEW ok \in BOOLEAN, Return(ok), call.op # "none",
           UNCHANGED <<enc, staged, owned, wire, flushes>>,
           broken' \in BOOLEAN, broken => broken',
           finished' \in BOOLEAN, owned => ~finished',
           call.op = "write" /\ ~ok => call.consumed = 0 \/ broken',
           call.op = "flush" /\ ok /\ Flushes =>
               staged = << >> /\ call.status = "InputEmpty",
           call.op = "finish" /\ ok => staged = << >> /\ enc.ended
    PROVE  IInv'
<1> USE DEF IInv
<1>1. /\ call.op \in Ops /\ call.consumed \in Nat
      /\ last' = [op |-> call.op, ok |-> ok]
      /\ reported' = IF call.op = "write" /\ ok THEN reported + call.consumed ELSE reported
      /\ call' = IF call.op = "finish" /\ ~ok THEN [Idle EXCEPT !.op = "drop"] ELSE Idle
  BY DEF Return, TypeOK, CallState
<1>2. /\ call' = [op |-> call'.op, len |-> 0, consumed |-> 0, status |-> "none", turn |-> FALSE]
      /\ call'.op \in {"none", "drop"}
      /\ call'.op = "drop" <=> call.op = "finish" /\ ~ok
      /\ call'.consumed = 0 /\ call'.len = 0 /\ call'.status = "none"
  BY <1>1 DEF Idle
<1>3. reported \in Nat /\ reported' \in Nat
  BY <1>1 DEF TypeOK
<1>4. last'.op = call.op /\ last'.ok = ok /\ last' \in [op : Ops, ok : BOOLEAN]
  BY <1>1
<1>5. TypeOK'
  <2>0. \A op \in Ops : [op |-> op, len |-> 0, consumed |-> 0, status |-> "none",
                         turn |-> FALSE] \in CallState
    BY DEF Status, CallState
  <2>1. call' \in CallState
    BY <1>2, <2>0 DEF Ops
  <2>2. call'.consumed <= call'.len
    BY <1>2
  <2> QED BY <1>3, <1>4, <2>1, <2>2 DEF TypeOK
<1>6. StreamInv' /\ stream' = stream
  BY QuietKeepsStreamInv
<1>7. Counts'
  <2>1. enc.taken \in Nat
    BY DEF TypeOK, EncState
  <2>2. CASE call.op = "write" /\ ok
    BY <1>1, <1>2, <1>3, <2>1, <2>2 DEF Counts
  <2>3. CASE call.op = "write" /\ ~ok
    BY <1>1, <1>2, <1>3, <2>1, <2>3 DEF Counts
  <2>4. CASE call.op # "write"
    BY <1>1, <1>2, <1>3, <2>1, <2>4 DEF Counts
  <2> QED BY <2>2, <2>3, <2>4
<1>8. Roles'
  BY <1>2 DEF Roles
<1>9. Lasts'
  BY <1>2, <1>4, <1>6 DEF Lasts, Roles
<1> QED BY <1>5, <1>6, <1>7, <1>8, <1>9

(* A write accepted in part or whole by inner keeps it (drain_pending).    *)
LEMMA AcceptKeepsIInv ==
    ASSUME IInv, NEW n \in 1..Len(staged), InnerAccepts(n)
    PROVE  IInv'
<1> USE DEF IInv
<1>1. stream' = stream /\ wire' \in Seq(Token) /\ staged' \in Seq(Token)
  BY AcceptKeepsStream
<1>2. /\ UNCHANGED <<enc, finished, owned, call, reported, broken, last, flushes>>
      /\ call.op # "none" /\ staged # << >>
  BY DEF InnerAccepts, Draining
<1>3. TypeOK' /\ Counts'
  BY <1>1, <1>2 DEF TypeOK, Counts
<1>4. StreamInv'
  BY <1>1, <1>2 DEF StreamInv, StreamOf
<1>5. Roles' /\ Lasts'
  BY <1>1, <1>2 DEF Roles, Lasts
<1> QED BY <1>3, <1>4, <1>5

(* The three codec calls.  Encode and an incomplete drain append bytes; a  *)
(* complete drain appends its mark too.                                    *)
LEMMA EncodeKeepsIInv ==
    ASSUME IInv, Encode
    PROVE  IInv'
<1> USE DEF IInv
<1>1. PICK r \in EncodeOutcomes(enc, call.len - call.consumed, SCRATCH) :
        /\ enc' = r.enc
        /\ staged' = r.out
        /\ call' = [call EXCEPT !.consumed = @ + r.consumed, !.status = r.status,
                                !.turn = ~@]
  BY DEF Encode, Remaining
<1>2. /\ call.op = "write" /\ staged = << >> /\ call.consumed < call.len
      /\ UNCHANGED <<finished, owned, wire, reported, broken, last, flushes>>
  BY DEF Encode, Drained, WriteMore
<1>3. /\ call \in CallState
      /\ call.len \in Nat /\ call.consumed \in Nat
      /\ enc \in EncState /\ enc.taken \in Nat /\ enc.emitted \in Nat
      /\ reported \in Nat /\ enc.emitted <= enc.taken
      /\ call.turn \in BOOLEAN
  BY DEF TypeOK, Counts, EncState, CallState
<1>4. call.len - call.consumed \in Nat
  BY <1>2, <1>3
<1>5. /\ r.enc \in EncState
      /\ r.consumed \in 0..(call.len - call.consumed)
      /\ r.enc.taken = enc.taken + r.consumed
      /\ r.enc.emitted <= r.enc.taken
      /\ r.enc.ended = enc.ended
      /\ r.status \in {"InputEmpty", "OutputFull"}
      /\ \E w \in Nat : /\ r.enc.emitted = enc.emitted + w
                       /\ r.out = BytesFrom(enc.emitted, w)
  BY <1>1, <1>3, <1>4, ScratchAssumption, EncodeContract
<1>6. PICK w \in Nat : /\ enc'.emitted = enc.emitted + w
                      /\ staged' = BytesFrom(enc.emitted, w)
  BY <1>1, <1>5
<1>7. /\ call'.op = "write" /\ call'.len = call.len
      /\ call'.consumed = call.consumed + r.consumed
      /\ call'.status = r.status
  BY <1>1, <1>2, <1>3 DEF CallState
<1>8. staged' \in Seq(Token)
  BY <1>3, <1>6, BytesFromType
<1>9. call' \in CallState
  <2>1. call.consumed + r.consumed \in Nat /\ r.status \in Status
    BY <1>3, <1>5 DEF Status
  <2>2. call' = [call EXCEPT !.consumed = call.consumed + r.consumed, !.status = r.status,
                              !.turn = ~call.turn]
    BY <1>1
  <2> QED BY <1>3, <2>1, <2>2 DEF CallState
<1>10. TypeOK'
  <2>1. call'.consumed <= call'.len
    BY <1>3, <1>5, <1>7
  <2> QED BY <1>1, <1>2, <1>5, <1>8, <1>9, <2>1 DEF TypeOK
<1>11. owned /\ ~enc.ended /\ ~enc'.ended
  BY <1>1, <1>2, <1>5 DEF Roles
<1>12. StreamInv'
  BY <1>2, <1>6, <1>10, <1>11, BytesKeepStreamInv
<1>13. Counts'
  BY <1>1, <1>2, <1>3, <1>5, <1>7 DEF Counts
<1>14. Roles'
  BY <1>2, <1>5, <1>7, <1>11 DEF Roles
<1>15. Lasts'
  BY <1>2 DEF Lasts
<1> QED BY <1>10, <1>12, <1>13, <1>14, <1>15

(* A call to flush or finish of the codec that drains it towards a mark.   *)
LEMMA DrainStep ==
    ASSUME IInv, staged = << >>, ~enc.ended, NEW mark \in Token, mark.kind # "byte",
           NEW d \in Drain(enc, mark, SCRATCH), NEW ended \in BOOLEAN,
           NEW status \in Status, call.op \in {"flush", "finish", "drop"},
           enc' = [enc EXCEPT !.emitted = @ + d.bytes, !.ended = ended],
           staged' = d.out, call' = [call EXCEPT !.status = status, !.turn = ~@],
           UNCHANGED <<finished, owned, wire, reported, broken, last, flushes>>,
           ended <=> d.complete /\ mark = EndMark,
           mark.kind = "end" => mark = EndMark
    PROVE  /\ TypeOK' /\ Counts' /\ StreamInv' /\ Lasts'
           /\ call'.op = call.op /\ call'.status = status
           /\ enc'.ended = ended
           /\ d.complete => enc'.emitted = enc'.taken /\ EndsWith(stream', mark)
<1> USE DEF IInv
<1>1. /\ call \in CallState
      /\ enc \in EncState /\ enc.taken \in Nat /\ enc.emitted \in Nat
      /\ enc.emitted <= enc.taken /\ reported \in Nat
  BY DEF TypeOK, Counts, EncState
<1>c. call.turn \in BOOLEAN /\ call.consumed <= call.len
  BY <1>1 DEF CallState, TypeOK
<1>2. /\ d.bytes \in Nat
      /\ enc.emitted + d.bytes <= enc.taken
      /\ d.complete \in BOOLEAN
      /\ d.complete => /\ enc.emitted + d.bytes = enc.taken
                       /\ d.out = BytesFrom(enc.emitted, d.bytes) \o <<mark>>
      /\ ~d.complete => d.out = BytesFrom(enc.emitted, d.bytes)
  BY <1>1, ScratchAssumption, DrainContract
<1>3. enc' = [taken |-> enc.taken, emitted |-> enc.emitted + d.bytes, ended |-> ended]
  BY <1>1, <1>2 DEF EncState
<1>4. /\ enc' \in EncState /\ enc'.taken = enc.taken
      /\ enc'.emitted = enc.emitted + d.bytes /\ enc'.ended = ended
  BY <1>1, <1>2, <1>3 DEF EncState
<1>5. /\ call' \in CallState
      /\ call'.op = call.op /\ call'.status = status
      /\ call'.len = call.len /\ call'.consumed = call.consumed
  BY <1>1, <1>c DEF CallState
<1>6. staged' \in Seq(Token)
  <2>1. BytesFrom(enc.emitted, d.bytes) \in Seq(Token) /\ <<mark>> \in Seq(Token)
    BY <1>1, <1>2, BytesFromType
  <2>2. BytesFrom(enc.emitted, d.bytes) \o <<mark>> \in Seq(Token)
    BY <2>1, TokensConcat
  <2> QED BY <1>2, <2>1, <2>2
<1>7. TypeOK'
  BY <1>4, <1>5, <1>6, <1>c DEF TypeOK
<1>8. Counts'
  BY <1>1, <1>2, <1>4, <1>5 DEF Counts
<1>9. Lasts'
  <2>1. call.op # "none"
    OBVIOUS
  <2> QED BY <2>1 DEF Lasts
<1>10. CASE d.complete
  <2>1. mark = EndMark <=> enc'.ended
    BY <1>4, <1>10
  <2>2. StreamInv' /\ EndsWith(stream', mark)
    BY <1>2, <1>4, <1>7, <1>10, <2>1, MarkKeepsStreamInv
  <2> QED BY <1>2, <1>4, <1>5, <1>7, <1>8, <1>9, <1>10, <2>2
<1>11. CASE ~d.complete
  <2>1. ~enc'.ended
    BY <1>4, <1>11
  <2>2. StreamInv'
    BY <1>2, <1>4, <1>7, <1>11, <2>1, BytesKeepStreamInv
  <2> QED BY <1>4, <1>5, <1>7, <1>8, <1>9, <1>11, <2>2
<1> QED BY <1>10, <1>11

(* A call that stalled: it changed nothing, and the adapter gives up.      *)
LEMMA StallStep ==
    ASSUME IInv, enc' = enc, staged' = << >>, staged = << >>, Return(FALSE),
           call.op \in {"flush", "finish", "drop"},
           UNCHANGED <<finished, owned, wire, broken, flushes>>
    PROVE  IInv'
<1>1. finished \in BOOLEAN /\ broken \in BOOLEAN /\ (owned => ~finished)
  BY DEF IInv, TypeOK, Roles
<1>2. UNCHANGED <<enc, staged, owned, wire, flushes>> /\ FALSE \in BOOLEAN
  OBVIOUS
<1> QED BY <1>1, <1>2, ReturnKeepsIInv

(* A flush call of the codec keeps it (EncoderWriter::flush).              *)
LEMMA FlushKeepsIInv ==
    ASSUME IInv, Flush
    PROVE  IInv'
<1>1. PICK r \in FlushOutcomes(enc, SCRATCH) : CodecReturns(r)
  BY DEF Flush
<1>2. /\ call.op = "flush" /\ staged = << >>
      /\ UNCHANGED <<finished, owned, wire, broken, flushes>>
  BY DEF Flush, Drained
<1>3. owned /\ ~enc.ended /\ enc \in EncState /\ enc.emitted <= enc.taken
  BY <1>2 DEF IInv, Roles, TypeOK, Counts
<1>4. CASE Flushes
  <2>1. PICK d \in Drain(enc, SyncMark, SCRATCH) :
          r = [enc    |-> [enc EXCEPT !.emitted = @ + d.bytes],
               out    |-> d.out,
               status |-> IF d.complete THEN "InputEmpty" ELSE "OutputFull"]
    BY <1>4 DEF FlushOutcomes
  <2>2. /\ r.enc = [enc EXCEPT !.emitted = @ + d.bytes, !.ended = FALSE]
        /\ r.out = d.out
        /\ r.status = IF d.complete THEN "InputEmpty" ELSE "OutputFull"
    BY <2>1, <1>3 DEF EncState
  <2>3. /\ SyncMark \in Token /\ SyncMark.kind = "sync" /\ SyncMark # EndMark
        /\ r.status \in Status /\ r.status # "StreamEnd"
        /\ r.status = "InputEmpty" => d.complete
    BY <2>2 DEF SyncMark, EndMark, Token, Status
  <2>4. CASE Stalled(r)
    <3>1. d.out = << >> /\ staged' = << >> /\ enc' = r.enc /\ Return(FALSE)
      BY <1>1, <2>2, <2>4 DEF Stalled, CodecReturns
    <3>2. d.bytes = 0
      BY <1>3, <2>1, <2>3, <3>1, ScratchAssumption, DrainContract
    <3>3. enc' = enc
      <4>1. enc' = [enc EXCEPT !.emitted = enc.emitted + 0, !.ended = FALSE]
        BY <2>2, <3>1, <3>2
      <4>2. enc.emitted + 0 = enc.emitted /\ enc.ended = FALSE
        BY <1>3 DEF EncState
      <4> QED BY <1>3, <4>1, <4>2 DEF EncState
    <3> QED BY <1>2, <3>1, <3>3, StallStep
  <2>5. CASE ~Stalled(r)
    <3>1. /\ enc' = [enc EXCEPT !.emitted = @ + d.bytes, !.ended = FALSE]
          /\ staged' = d.out /\ call' = [call EXCEPT !.status = r.status, !.turn = ~@]
          /\ UNCHANGED <<reported, last>>
      BY <1>1, <2>2, <2>5 DEF CodecReturns
    <3>2. /\ TypeOK' /\ Counts' /\ StreamInv' /\ Lasts'
          /\ call'.op = call.op /\ call'.status = r.status
          /\ enc'.ended = FALSE
          /\ d.complete => enc'.emitted = enc'.taken /\ EndsWith(stream', SyncMark)
      BY <1>2, <1>3, <2>1, <2>3, <3>1, DrainStep
    <3>3. Roles'
      BY <1>2, <1>3, <2>3, <3>2 DEF IInv, Roles
    <3> QED BY <3>2, <3>3 DEF IInv
  <2> QED BY <2>4, <2>5
<1>5. CASE ~Flushes
  <2>1. r.enc = enc /\ r.out = << >> /\ r.status = "InputEmpty"
    BY <1>5 DEF FlushOutcomes
  <2>2. /\ UNCHANGED <<enc, staged, wire, reported, last>>
        /\ call' = [call EXCEPT !.status = "InputEmpty", !.turn = ~@]
    BY <1>1, <1>2, <2>1 DEF CodecReturns, Stalled
  <2>3. /\ call' \in CallState /\ call'.op = call.op /\ call'.status = "InputEmpty"
        /\ call'.len = call.len /\ call'.consumed = call.consumed
    BY <2>2 DEF IInv, TypeOK, Status, CallState
  <2>4. StreamInv' /\ stream' = stream
    BY <2>2, QuietKeepsStreamInv DEF IInv
  <2>5. TypeOK' /\ Counts' /\ Roles' /\ Lasts'
    BY <1>2, <1>3, <1>5, <2>2, <2>3, <2>4 DEF IInv, TypeOK, Counts, Roles, Lasts
  <2> QED BY <2>4, <2>5 DEF IInv
<1> QED BY <1>4, <1>5

(* A finish call of the codec keeps it (EncoderWriter::do_finish).         *)
LEMMA FinishKeepsIInv ==
    ASSUME IInv, Finish
    PROVE  IInv'
<1>1. PICK r \in FinishOutcomes(enc, SCRATCH) : CodecReturns(r)
  BY DEF Finish
<1>2. /\ call.op \in {"finish", "drop"} /\ staged = << >>
      /\ UNCHANGED <<finished, owned, wire, broken, flushes>>
  BY DEF Finish, Finishing, Drained
<1>3. ~owned /\ enc \in EncState /\ enc.ended \in BOOLEAN /\ enc.emitted <= enc.taken
  BY <1>2 DEF IInv, Roles, TypeOK, EncState, Counts
<1>4. CASE ~enc.ended
  <2>1. PICK d \in Drain(enc, EndMark, SCRATCH) :
          r = [enc    |-> [enc EXCEPT !.emitted = @ + d.bytes, !.ended = d.complete],
               out    |-> d.out,
               status |-> IF d.complete THEN "StreamEnd" ELSE "OutputFull"]
    BY <1>4 DEF FinishOutcomes
  <2>2. /\ r.enc = [enc EXCEPT !.emitted = @ + d.bytes, !.ended = d.complete]
        /\ r.out = d.out
        /\ r.status = IF d.complete THEN "StreamEnd" ELSE "OutputFull"
    BY <2>1
  <2>3. /\ EndMark \in Token /\ EndMark.kind # "byte"
        /\ r.status \in Status
        /\ r.status = "StreamEnd" => d.complete
    BY <2>2 DEF EndMark, Token, Status
  <2>4. /\ d.complete \in BOOLEAN
        /\ d.out = << >> => d.bytes = 0 /\ ~d.complete
    BY <1>3, <2>1, <2>3, ScratchAssumption, DrainContract
  <2>5. CASE Stalled(r)
    <3>1. d.out = << >> /\ staged' = << >> /\ enc' = r.enc /\ Return(FALSE)
      BY <1>1, <2>2, <2>5 DEF Stalled, CodecReturns
    <3>2. d.bytes = 0 /\ d.complete = FALSE
      BY <2>4, <3>1
    <3>3. enc' = enc
      <4>1. enc' = [enc EXCEPT !.emitted = enc.emitted + 0, !.ended = FALSE]
        BY <2>2, <3>1, <3>2
      <4>2. enc.emitted + 0 = enc.emitted /\ enc.ended = FALSE
        BY <1>3, <1>4 DEF EncState
      <4> QED BY <1>3, <4>1, <4>2 DEF EncState
    <3> QED BY <1>2, <3>1, <3>3, StallStep
  <2>6. CASE ~Stalled(r)
    <3>1. /\ enc' = [enc EXCEPT !.emitted = @ + d.bytes, !.ended = d.complete]
          /\ staged' = d.out /\ call' = [call EXCEPT !.status = r.status, !.turn = ~@]
          /\ call.op \in {"flush", "finish", "drop"}
          /\ UNCHANGED <<finished, owned, wire, reported, broken, last, flushes>>
          /\ EndMark.kind = "end" => EndMark = EndMark
          /\ d.complete <=> d.complete /\ EndMark = EndMark
      BY <1>1, <1>2, <2>2, <2>6 DEF CodecReturns
    <3>2. /\ TypeOK' /\ Counts' /\ StreamInv' /\ Lasts'
          /\ call'.op = call.op /\ call'.status = r.status
          /\ enc'.ended = d.complete
      BY <1>2, <1>4, <2>1, <2>3, <2>4, <3>1, DrainStep, Zenon
    <3>3. Roles'
      BY <1>2, <1>3, <2>3, <3>2 DEF IInv, Roles
    <3> QED BY <3>2, <3>3 DEF IInv
  <2> QED BY <2>5, <2>6
<1>5. CASE enc.ended
  <2>1. r.enc = enc /\ r.out = << >> /\ r.status = "StreamEnd"
    BY <1>5 DEF FinishOutcomes
  <2>2. /\ UNCHANGED <<enc, staged, wire, reported, last>>
        /\ call' = [call EXCEPT !.status = "StreamEnd", !.turn = ~@]
    BY <1>1, <1>2, <2>1 DEF CodecReturns, Stalled
  <2>3. /\ call' \in CallState /\ call'.op = call.op /\ call'.status = "StreamEnd"
        /\ call'.len = call.len /\ call'.consumed = call.consumed
    BY <2>2 DEF IInv, TypeOK, Status, CallState
  <2>4. StreamInv' /\ stream' = stream
    BY <2>2, QuietKeepsStreamInv DEF IInv
  <2>5. TypeOK' /\ Counts' /\ Roles' /\ Lasts'
    BY <1>2, <1>3, <1>5, <2>2, <2>3, <2>4 DEF IInv, TypeOK, Counts, Roles, Lasts
  <2> QED BY <2>4, <2>5 DEF IInv
<1> QED BY <1>4, <1>5

(* The invariant is inductive.                                             *)
LEMMA NextKeepsIInv == IInv /\ [Next]_vars => IInv'
<1> SUFFICES ASSUME IInv, [Next]_vars PROVE IInv'
  OBVIOUS
<1>t. TypeOK /\ finished \in BOOLEAN /\ broken \in BOOLEAN /\ call.op \in Ops
  BY DEF IInv, TypeOK, CallState
<1>1. CASE Caller
  BY <1>1, BeginKeepsIInv
<1>2. CASE \E n \in 1..Len(staged) : InnerAccepts(n)
  BY <1>2, AcceptKeepsIInv
<1>3. CASE InnerFails
  <2>1. Return(call.op = "write" /\ call.consumed > 0) /\ call.op # "none"
    BY <1>3 DEF InnerFails, Draining, TakenToReport
  <2>2. UNCHANGED <<enc, staged, owned, wire, flushes, broken, finished>>
    BY <1>3 DEF InnerFails
  <2>3. (call.op = "write" /\ call.consumed > 0) \in BOOLEAN
    OBVIOUS
  <2>4. call.op = "write" /\ ~(call.op = "write" /\ call.consumed > 0) => call.consumed = 0
    BY DEF IInv, TypeOK, CallState
  <2>5. owned => ~finished
    BY DEF IInv, Roles
  <2> QED BY <1>t, <2>1, <2>2, <2>3, <2>4, <2>5, ReturnKeepsIInv
<1>4. CASE Encode
  BY <1>4, EncodeKeepsIInv
<1>5. CASE WriteReturns
  <2>1. Return(TRUE) /\ call.op = "write" /\ UNCHANGED <<enc, staged, owned, wire, flushes, broken, finished>>
    BY <1>5 DEF WriteReturns, Drained
  <2>2. owned => ~finished
    BY DEF IInv, Roles
  <2> QED BY <1>t, <2>1, <2>2, ReturnKeepsIInv
<1>6. CASE Flush
  BY <1>6, FlushKeepsIInv
<1>7. CASE FlushReturns
  <2>1. PICK ok \in BOOLEAN : Return(ok)
    BY <1>7 DEF FlushReturns
  <2>2. /\ call.op = "flush" /\ staged = << >> /\ ~FlushMore
        /\ UNCHANGED <<enc, staged, owned, wire, flushes, broken, finished>>
    BY <1>7 DEF FlushReturns, Drained
  <2>3. owned /\ ~finished /\ call.status \in Status \cup {"none"} /\ call.status # "StreamEnd"
    BY <2>2 DEF IInv, Roles, TypeOK, CallState
  <2>4. call.status = "InputEmpty"
    BY <2>2, <2>3 DEF FlushMore, Status
  <2> QED BY <1>t, <2>1, <2>2, <2>3, <2>4, ReturnKeepsIInv
<1>8. CASE Finish
  BY <1>8, FinishKeepsIInv
<1>9. CASE FinishReturns
  <2>1. /\ Return(TRUE) /\ call.op \in {"finish", "drop"} /\ staged = << >>
        /\ call.status = "StreamEnd" /\ finished' = TRUE
        /\ UNCHANGED <<enc, staged, owned, wire, flushes, broken>>
    BY <1>9 DEF FinishReturns, Finishing, Drained
  <2>2. ~owned /\ enc.ended
    BY <2>1 DEF IInv, Roles
  <2> QED BY <1>t, <2>1, <2>2, ReturnKeepsIInv
<1>10. CASE CodecFails
  <2>1. /\ Return(FALSE) /\ broken' = TRUE /\ call.op # "none"
        /\ UNCHANGED <<enc, staged, owned, wire, flushes, finished>>
    BY <1>10 DEF CodecFails, Finishing, Drained
  <2>2. owned => ~finished
    BY DEF IInv, Roles
  <2> QED BY <1>t, <2>1, <2>2, ReturnKeepsIInv
<1>11. CASE UNCHANGED vars
  <2>1. UNCHANGED <<enc, staged, wire>>
    BY <1>11 DEF vars
  <2>2. StreamInv' /\ stream' = stream
    BY <2>1, QuietKeepsStreamInv DEF IInv
  <2> QED BY <1>11, <2>2 DEF IInv, vars, TypeOK, Counts, Roles, Lasts
<1> QED
  BY <1>1, <1>2, <1>3, <1>4, <1>5, <1>6, <1>7, <1>8, <1>9, <1>10, <1>11 DEF Next, Adapter

(* The inductive invariant holds in every reachable state.                 *)
THEOREM Invariance == Spec => []IInv
<1> QED BY InitIInv, NextKeepsIInv, PTL DEF Spec

(* Every variable keeps its type, for every scratch size and input.        *)
THEOREM TypeCorrect == Spec => []TypeOK
<1>1. IInv => TypeOK
  BY DEF IInv
<1> QED BY <1>1, Invariance, PTL

(* However the inner writer splits, refuses or fails writes, the stream it *)
(* has been given, with what is staged, is in order and without a gap.     *)
THEOREM LosslessStream == Spec => []NothingLostOrRepeated
<1>1. IInv => NothingLostOrRepeated
  BY DEF IInv, StreamInv, StreamOf, NothingLostOrRepeated
<1> QED BY <1>1, Invariance, PTL

(* Between calls the caller has been told of every byte the codec took.    *)
THEOREM ReportsAreExact == Spec => []NothingFedTwice
<1>1. IInv => NothingFedTwice
  <2> SUFFICES ASSUME IInv, call.op = "none", ~broken PROVE reported = enc.taken
    BY DEF NothingFedTwice
  <2>1. call.consumed = 0 /\ reported + call.consumed = enc.taken /\ reported \in Nat
    BY DEF IInv, Counts, TypeOK
  <2> QED BY <2>1
<1> QED BY <1>1, Invariance, PTL

(* An Ok from finish means the inner writer has the whole stream.          *)
THEOREM FinishDelivers == Spec => []FinishIsComplete
<1>1. IInv => FinishIsComplete
  <2> SUFFICES ASSUME IInv, last = [op |-> "finish", ok |-> TRUE]
               PROVE  staged = << >> /\ Holds(wire, reported) /\ EndsWith(wire, EndMark)
    BY DEF FinishIsComplete
  <2>1. staged = << >> /\ enc.ended
    BY DEF IInv, Lasts
  <2>2. wire \in Seq(Token) /\ stream = wire
    BY <2>1 DEF IInv, TypeOK, stream
  <2>3. Holds(wire, enc.emitted) /\ enc.emitted = enc.taken /\ EndsWith(wire, EndMark)
    BY <2>1, <2>2 DEF IInv, StreamInv, StreamOf
  <2>4. reported \in Nat /\ enc.taken \in Nat /\ reported <= enc.taken
    BY DEF IInv, Counts, TypeOK, EncState, CallState
  <2> QED BY <2>1, <2>3, <2>4 DEF Holds
<1> QED BY <1>1, Invariance, PTL

(* An Ok from flush means the peer can decode everything written so far.   *)
THEOREM FlushDelivers == Spec => []FlushIsComplete
<1>1. IInv => FlushIsComplete
  <2> SUFFICES ASSUME IInv, Flushes, last = [op |-> "flush", ok |-> TRUE]
               PROVE  staged = << >> /\ Holds(wire, reported) /\ EndsWith(wire, SyncMark)
    BY DEF FlushIsComplete
  <2>1. staged = << >> /\ enc.emitted = enc.taken /\ EndsWith(stream, SyncMark)
    BY DEF IInv, Lasts
  <2>2. wire \in Seq(Token) /\ stream = wire
    BY <2>1 DEF IInv, TypeOK, stream
  <2>3. Holds(wire, enc.emitted)
    BY <2>2 DEF IInv, StreamInv, StreamOf
  <2>4. reported \in Nat /\ enc.taken \in Nat /\ reported <= enc.taken
    BY DEF IInv, Counts, TypeOK, EncState, CallState
  <2> QED BY <2>1, <2>2, <2>3, <2>4 DEF Holds
<1> QED BY <1>1, Invariance, PTL
=============================================================================
