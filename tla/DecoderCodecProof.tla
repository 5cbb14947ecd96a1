-------------------------- MODULE DecoderCodecProof -------------------------
(***************************************************************************)
(* What one call of decode or finish does to a decoder, for every stream,  *)
(* expansion and hold: the facts about DecoderCodec that the proofs about  *)
(* the adapters and the tool rest on.                                      *)
(***************************************************************************)
EXTENDS DecoderCodec, TLAPS

(* A decoder that has not run ahead: it has handed over no more than its   *)
(* units expand to, and has reported the end just when all of it is out.   *)
Sound(d) ==
    /\ d \in DecState
    /\ d.taken <= StreamLen
    /\ d.emitted <= Expansion(d.taken)
    /\ d.ended <=> Complete(d.taken, d.emitted)

LEMMA ExpansionType ==
    ASSUME NEW t \in Nat
    PROVE  Expansion(t) \in Nat
<1> DEFINE units == IF t < StreamLen THEN t ELSE StreamLen - 1
<1>1. units \in Nat /\ Expand \in Nat
  BY StreamAssumption
<1>2. \A a, b \in Nat : a * b \in Nat
  OBVIOUS
<1> HIDE DEF units
<1>3. Expand * units \in Nat
  BY <1>1, <1>2
<1> QED BY <1>3 DEF Expansion, units

(* More units stand for at least as many bytes.                            *)
LEMMA ExpansionGrows ==
    ASSUME NEW s \in Nat, NEW t \in Nat, s <= t
    PROVE  Expansion(s) <= Expansion(t)
<1> DEFINE a == IF s < StreamLen THEN s ELSE StreamLen - 1
           b == IF t < StreamLen THEN t ELSE StreamLen - 1
<1>1. a \in Nat /\ b \in Nat /\ a <= b /\ Expand \in Nat
  BY StreamAssumption
<1>2. \A i, j, k \in Nat : i <= j => k * i <= k * j
  OBVIOUS
<1> HIDE DEF a, b
<1>3. Expand * a <= Expand * b
  BY <1>1, <1>2
<1> QED BY <1>3 DEF Expansion, a, b

LEMMA NewDecoderSound ==
    ASSUME NEW d \in NewDecoders
    PROVE  Sound(d) /\ d.taken = 0 /\ d.emitted = 0 /\ ~d.ended
<1>1. PICK strict \in BOOLEAN, eager \in BOOLEAN :
        d = [taken |-> 0, emitted |-> 0, ended |-> FALSE, strict |-> strict, eager |-> eager]
  BY DEF NewDecoders
<1>2. d \in DecState
  BY <1>1 DEF DecState
<1>3. d.taken = 0 /\ d.emitted = 0 /\ ~d.ended
  BY <1>1
<1>4. Expansion(0) \in Nat /\ StreamLen \in Nat /\ StreamLen > 0
  BY ExpansionType, StreamAssumption
<1>5. ~Complete(d.taken, d.emitted)
  BY <1>3, <1>4 DEF Complete
<1> QED BY <1>2, <1>3, <1>4, <1>5 DEF Sound

(* The bytes handed over are as many as were asked for.                    *)
LEMMA BytesFromLength ==
    ASSUME NEW m \in Nat, NEW w \in Nat
    PROVE  /\ BytesFrom(m, w) \in Seq(Nat)
           /\ Len(BytesFrom(m, w)) = w
           /\ BytesFrom(m, w) = << >> <=> w = 0
<1>1. BytesFrom(m, w) \in Seq(Nat) /\ Len(BytesFrom(m, w)) = w
  BY DEF BytesFrom
<1> QED BY <1>1

(* A decoder that has moved on by k units and w bytes.                     *)
Moved(d, k, w, done) == [d EXCEPT !.taken = @ + k, !.emitted = @ + w, !.ended = done]

LEMMA MovedDecoder ==
    ASSUME NEW d \in DecState, NEW k \in Nat, NEW w \in Nat, NEW done \in BOOLEAN
    PROVE  /\ Moved(d, k, w, done) \in DecState
           /\ Moved(d, k, w, done).taken = d.taken + k
           /\ Moved(d, k, w, done).emitted = d.emitted + w
           /\ Moved(d, k, w, done).ended = done
           /\ Moved(d, k, w, done).strict = d.strict
           /\ Moved(d, k, w, done).eager = d.eager
<1>1. d.taken + k \in Nat /\ d.emitted + w \in Nat
  BY DEF DecState
<1>2. Moved(d, k, w, done) \in DecState
  BY <1>1, Zenon DEF DecState, Moved
<1>3. Moved(d, k, w, done).taken = d.taken + k
  BY DEF DecState, Moved
<1>4. Moved(d, k, w, done).emitted = d.emitted + w
  BY DEF DecState, Moved
<1>5. Moved(d, k, w, done).ended = done
  BY DEF DecState, Moved
<1>6. Moved(d, k, w, done).strict = d.strict
  BY DEF DecState, Moved
<1>7. Moved(d, k, w, done).eager = d.eager
  BY DEF DecState, Moved
<1> QED BY <1>2, <1>3, <1>4, <1>5, <1>6, <1>7

(* A decoder that has handed over w bytes more.                            *)
Drained(d, w, done) == [d EXCEPT !.emitted = @ + w, !.ended = done]

LEMMA DrainedDecoder ==
    ASSUME NEW d \in DecState, NEW w \in Nat, NEW done \in BOOLEAN
    PROVE  /\ Drained(d, w, done) \in DecState
           /\ Drained(d, w, done).taken = d.taken
           /\ Drained(d, w, done).emitted = d.emitted + w
           /\ Drained(d, w, done).ended = done
           /\ Drained(d, w, done).strict = d.strict
           /\ Drained(d, w, done).eager = d.eager
<1>1. d.emitted + w \in Nat
  BY DEF DecState
<1>2. Drained(d, w, done) \in DecState
  BY <1>1, Zenon DEF DecState, Drained
<1>3. Drained(d, w, done).taken = d.taken
  BY DEF DecState, Drained
<1>4. Drained(d, w, done).emitted = d.emitted + w
  BY DEF DecState, Drained
<1>5. Drained(d, w, done).ended = done
  BY DEF DecState, Drained
<1>6. Drained(d, w, done).strict = d.strict
  BY DEF DecState, Drained
<1>7. Drained(d, w, done).eager = d.eager
  BY DEF DecState, Drained
<1> QED BY <1>2, <1>3, <1>4, <1>5, <1>6, <1>7

(* The outcomes of decode, whatever a decoder may owe: the adapters call    *)
(* decoders whose Hold is not the same.                                    *)
CallOutcomes(d, n, cap) ==
    IF d.ended
    THEN { [dec |-> d, consumed |-> 0, out |-> << >>, status |-> "StreamEnd"] }
    ELSE { LET done == Complete(d.taken + kw[1], d.emitted + kw[2]) IN
           [dec      |-> [d EXCEPT !.taken = @ + kw[1], !.emitted = @ + kw[2], !.ended = done],
            consumed |-> kw[1],
            out      |-> BytesFrom(d.emitted, kw[2]),
            status   |-> DecodeStatus(done, kw[1], n, kw[2], cap)] :
           kw \in { p \in (0..n) \X (0..cap) :
                      /\ d.taken + p[1] <= StreamLen
                      /\ d.emitted + p[2] <= Expansion(d.taken + p[1])
                      /\ p[1] = n \/ d.taken + p[1] = StreamLen \/ p[2] = cap
                      /\ Expansion(d.taken + p[1]) = d.emitted + p[2]
                         \/ p[2] = cap \/ (~d.eager /\ d.taken + p[1] < StreamLen) } }

(* A call of decode.                                                       *)
LEMMA CallOutcome ==
    ASSUME NEW d, Sound(d), NEW n \in Nat, NEW cap \in Nat, NEW r \in CallOutcomes(d, n, cap)
    PROVE  /\ Sound(r.dec)
           /\ r.dec.strict = d.strict /\ r.dec.eager = d.eager
           /\ r.consumed \in 0..n
           /\ r.out \in Seq(Nat) /\ Len(r.out) \in 0..cap
           /\ r.out = BytesFrom(d.emitted, Len(r.out))
           /\ r.dec.taken = d.taken + r.consumed
           /\ r.dec.emitted = d.emitted + Len(r.out)
           /\ r.status = "StreamEnd" <=> r.dec.ended
           /\ r.status = "InputEmpty" => r.consumed = n /\ (cap = 0 \/ Len(r.out) # cap)
           /\ r.status \in Status
           /\ d.ended => r.dec = d /\ r.out = << >> /\ r.consumed = 0
           /\ ~d.ended => \/ r.consumed = n \/ r.dec.taken = StreamLen \/ Len(r.out) = cap
           /\ ~d.ended => \/ Expansion(r.dec.taken) = r.dec.emitted \/ Len(r.out) = cap
                          \/ ~d.eager /\ r.dec.taken < StreamLen
<1>0. d \in DecState /\ d.taken \in Nat /\ d.emitted \in Nat
  BY DEF Sound, DecState
<1>1. CASE d.ended
  <2>1. r = [dec |-> d, consumed |-> 0, out |-> << >>, status |-> "StreamEnd"]
    BY <1>1 DEF CallOutcomes
  <2>2. BytesFrom(d.emitted, 0) = << >>
    BY <1>0, BytesFromLength
  <2> QED BY <2>1, <2>2, <1>0, <1>1 DEF Status
<1>2. CASE ~d.ended
  <2>1. PICK k \in 0..n, w \in 0..cap :
          /\ r = [dec |-> [d EXCEPT !.taken = @ + k, !.emitted = @ + w,
                                    !.ended = Complete(d.taken + k, d.emitted + w)],
                  consumed |-> k, out |-> BytesFrom(d.emitted, w),
                  status |-> DecodeStatus(Complete(d.taken + k, d.emitted + w), k, n, w, cap)]
          /\ d.taken + k <= StreamLen
          /\ d.emitted + w <= Expansion(d.taken + k)
          /\ k = n \/ d.taken + k = StreamLen \/ w = cap
          /\ Expansion(d.taken + k) = d.emitted + w
             \/ w = cap \/ (~d.eager /\ d.taken + k < StreamLen)
    BY <1>2 DEF CallOutcomes
  <2> DEFINE done == Complete(d.taken + k, d.emitted + w)
  <2>2. /\ r.dec = Moved(d, k, w, done)
        /\ r.consumed = k /\ r.out = BytesFrom(d.emitted, w)
        /\ r.status = DecodeStatus(done, k, n, w, cap)
    BY <2>1 DEF Moved
  <2>0. done \in BOOLEAN
    BY DEF Complete
  <2> HIDE DEF done
  <2>3. /\ r.dec \in DecState /\ r.dec.taken = d.taken + k /\ r.dec.emitted = d.emitted + w
        /\ r.dec.ended <=> done
        /\ r.dec.strict = d.strict /\ r.dec.eager = d.eager
    <3>1. /\ d \in DecState /\ k \in Nat /\ w \in Nat /\ done \in BOOLEAN
          /\ r.dec = Moved(d, k, w, done)
      BY <1>0, <2>0, <2>2
    <3>2. /\ Moved(d, k, w, done) \in DecState
          /\ Moved(d, k, w, done).taken = d.taken + k
          /\ Moved(d, k, w, done).emitted = d.emitted + w
          /\ Moved(d, k, w, done).ended = done
          /\ Moved(d, k, w, done).strict = d.strict
          /\ Moved(d, k, w, done).eager = d.eager
      <4>1. d \in DecState /\ k \in Nat /\ w \in Nat /\ done \in BOOLEAN
        BY <3>1
      <4> QED BY ONLY <4>1, MovedDecoder
    <3>3. r.dec \in DecState /\ r.dec.taken = d.taken + k /\ r.dec.emitted = d.emitted + w
      BY <3>1, <3>2, Zenon
    <3>4. r.dec.ended <=> done
      BY <3>1, <3>2, Zenon
    <3>5. r.dec.strict = d.strict /\ r.dec.eager = d.eager
      BY <3>1, <3>2, Zenon
    <3> QED BY <3>3, <3>4, <3>5
  <2>4. Len(r.out) = w /\ r.out \in Seq(Nat)
    BY <2>2, <1>0, BytesFromLength
  <2>5. /\ r.status = "StreamEnd" <=> r.dec.ended
        /\ r.status = "InputEmpty" => k = n /\ (cap = 0 \/ w # cap)
        /\ r.status \in Status
    BY <2>2, <2>3 DEF DecodeStatus, Status
  <2>6. Sound(r.dec)
    BY <2>1, <2>3 DEF Sound, done
  <2> QED BY <1>2, <2>1, <2>2, <2>3, <2>4, <2>5, <2>6
<1> QED BY <1>1, <1>2

LEMMA DecodeIsCall ==
    ASSUME NEW d, NEW n, NEW cap
    PROVE  DecodeOutcomes(d, n, cap) \subseteq CallOutcomes(d, n, cap)
BY DEF DecodeOutcomes, CallOutcomes

LEMMA DecodeOutcome ==
    ASSUME NEW d, Sound(d), NEW n \in Nat, NEW cap \in Nat, NEW r \in DecodeOutcomes(d, n, cap)
    PROVE  /\ Sound(r.dec)
           /\ r.dec.strict = d.strict /\ r.dec.eager = d.eager
           /\ r.consumed \in 0..n
           /\ r.out \in Seq(Nat) /\ Len(r.out) \in 0..cap
           /\ r.out = BytesFrom(d.emitted, Len(r.out))
           /\ r.dec.taken = d.taken + r.consumed
           /\ r.dec.emitted = d.emitted + Len(r.out)
           /\ r.status = "StreamEnd" <=> r.dec.ended
           /\ r.status = "InputEmpty" => r.consumed = n /\ (cap = 0 \/ Len(r.out) # cap)
           /\ r.status \in Status
           /\ d.ended => r.dec = d /\ r.out = << >> /\ r.consumed = 0
           /\ ~d.ended => \/ r.consumed = n \/ r.dec.taken = StreamLen \/ Len(r.out) = cap
           /\ ~d.ended => \/ Expansion(r.dec.taken) = r.dec.emitted \/ Len(r.out) = cap
                          \/ ~d.eager /\ r.dec.taken < StreamLen
BY DecodeIsCall, CallOutcome

(* A call of finish: it hands over as much of what is owed as has room, and *)
(* fails only a decoder that is not at the end then.                       *)
LEMMA FinishOutcome ==
    ASSUME NEW d, Sound(d), NEW cap \in Nat, NEW r \in FinishOutcomes(d, cap)
    PROVE  /\ Sound(r.dec)
           /\ r.dec.taken = d.taken /\ r.dec.strict = d.strict /\ r.dec.eager = d.eager
           /\ r.out \in Seq(Nat) /\ Len(r.out) \in 0..cap
           /\ r.out = BytesFrom(d.emitted, Len(r.out))
           /\ r.dec.emitted = d.emitted + Len(r.out)
           /\ r.status = "StreamEnd" <=> r.dec.ended
           /\ r.status \in Status
           /\ r.ok <=> (r.dec.ended \/ (r.out # << >> /\ ~d.strict))
           /\ d.ended => r.dec = d /\ r.out = << >>
           /\ Len(r.out) = cap \/ r.dec.emitted = Expansion(d.taken)
<1>0. d \in DecState /\ d.taken \in Nat /\ d.emitted \in Nat /\ Expansion(d.taken) \in Nat
  BY ExpansionType DEF Sound, DecState
<1>1. CASE d.ended
  <2>1. r = [dec |-> d, out |-> << >>, status |-> "StreamEnd", ok |-> TRUE]
    BY <1>1 DEF FinishOutcomes
  <2>2. BytesFrom(d.emitted, 0) = << >>
    BY <1>0, BytesFromLength
  <2>3. d.emitted = Expansion(d.taken)
    BY <1>1 DEF Sound, Complete
  <2> QED BY <2>1, <2>2, <2>3, <1>0, <1>1 DEF Status
<1>2. CASE ~d.ended
  <2> DEFINE owed == Expansion(d.taken) - d.emitted
             w == IF owed < cap THEN owed ELSE cap
             done == Complete(d.taken, d.emitted + w)
  <2>1. r = [dec |-> [d EXCEPT !.emitted = @ + w, !.ended = done],
             out |-> BytesFrom(d.emitted, w),
             status |-> IF done THEN "StreamEnd" ELSE "OutputFull",
             ok |-> Headway(d, done, w)]
    BY <1>2 DEF FinishOutcomes
  <2>9. r.dec = Drained(d, w, done)
    BY <2>1 DEF Drained
  <2>2. w \in 0..cap /\ d.emitted + w <= Expansion(d.taken)
        /\ (w = cap \/ d.emitted + w = Expansion(d.taken))
    BY <1>0 DEF Sound
  <2>3. done \in BOOLEAN
    BY DEF Complete
  <2> HIDE DEF w, done
  <2>4. /\ r.dec \in DecState /\ r.dec.taken = d.taken /\ r.dec.emitted = d.emitted + w
        /\ r.dec.ended <=> done
        /\ r.dec.strict = d.strict /\ r.dec.eager = d.eager
    <3>1. /\ d \in DecState /\ w \in Nat /\ done \in BOOLEAN
          /\ r.dec = Drained(d, w, done)
      BY <1>0, <2>2, <2>3, <2>9
    <3>2. /\ Drained(d, w, done) \in DecState
          /\ Drained(d, w, done).taken = d.taken
          /\ Drained(d, w, done).emitted = d.emitted + w
          /\ Drained(d, w, done).ended = done
          /\ Drained(d, w, done).strict = d.strict
          /\ Drained(d, w, done).eager = d.eager
      BY <3>1, DrainedDecoder, Zenon
    <3>3. r.dec \in DecState /\ r.dec.taken = d.taken /\ r.dec.emitted = d.emitted + w
      BY <3>1, <3>2, Zenon
    <3>4. r.dec.ended <=> done
      BY <3>1, <3>2, Zenon
    <3>5. r.dec.strict = d.strict /\ r.dec.eager = d.eager
      BY <3>1, <3>2, Zenon
    <3> QED BY <3>3, <3>4, <3>5
  <2>5. /\ r.out = BytesFrom(d.emitted, w) /\ (r.ok <=> Headway(d, done, w))
        /\ r.status = IF done THEN "StreamEnd" ELSE "OutputFull"
    BY <2>1
  <2>6. Len(r.out) = w /\ r.out \in Seq(Nat) /\ (r.out = << >> <=> w = 0)
    <3>1. r.out = BytesFrom(d.emitted, w) /\ d.emitted \in Nat /\ w \in Nat
      BY <2>2, <2>5, <1>0
    <3> QED BY <3>1, BytesFromLength
  <2>7. Sound(r.dec)
    BY <2>2, <2>4 DEF Sound, done
  <2>8. r.ok <=> (r.dec.ended \/ (r.out # << >> /\ ~d.strict))
    BY <2>2, <2>4, <2>5, <2>6 DEF Headway
  <2> QED BY <1>2, <2>2, <2>3, <2>4, <2>5, <2>6, <2>7, <2>8 DEF Status
<1> QED BY <1>1, <1>2

=============================================================================
