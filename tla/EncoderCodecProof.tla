-------------------------- MODULE EncoderCodecProof --------------------------
(***************************************************************************)
(* What the adapters' proofs need of EncoderCodec: the tokens a call of    *)
(* the codec hands over and the state it is left in, for every step size.  *)
(***************************************************************************)
EXTENDS EncoderCodec, TLAPS, SequenceTheorems

(* The bytes after m are a sequence of tokens of the expected length.      *)
LEMMA BytesFromType ==
    ASSUME NEW m \in Nat, NEW w \in Nat
    PROVE  /\ BytesFrom(m, w) \in Seq(Token)
           /\ Len(BytesFrom(m, w)) = w
           /\ \A i \in 1..w : BytesFrom(m, w)[i] = Byte(m + i)
  BY DEF BytesFrom, Byte, Token

(* Concatenating token sequences is associative.                           *)
LEMMA TokensAssociative ==
    \A s, t, u \in Seq(Token) : (s \o t) \o u = s \o (t \o u)
  OBVIOUS

(* Where the elements of a concatenation come from.                        *)
LEMMA TokensConcat ==
    ASSUME NEW s \in Seq(Token), NEW t \in Seq(Token)
    PROVE  /\ s \o t \in Seq(Token)
           /\ Len(s \o t) = Len(s) + Len(t)
           /\ DOMAIN (s \o t) = 1..(Len(s) + Len(t))
           /\ Len(s) \in Nat /\ Len(t) \in Nat
           /\ \A i \in 1..Len(s) : (s \o t)[i] = s[i] /\ i \in DOMAIN s
           /\ \A i \in 1..Len(t) : (s \o t)[Len(s) + i] = t[i]
           /\ \A i \in DOMAIN (s \o t) :
                i \notin 1..Len(s) =>
                    i - Len(s) \in 1..Len(t) /\ (s \o t)[i] = t[i - Len(s)]
  OBVIOUS

(* The last element of a sequence with one token appended is that token.   *)
LEMMA LastOfAppended ==
    ASSUME NEW s \in Seq(Token), NEW t \in Token
    PROVE  (s \o <<t>>)[Len(s) + 1] = t
<1>1. <<t>> \in Seq(Token) /\ Len(<<t>>) = 1 /\ <<t>>[1] = t
  OBVIOUS
<1>2. Len(s) + 1 \in DOMAIN (s \o <<t>>) /\ Len(s) \in Nat
  BY <1>1, TokensConcat
<1> QED
  BY <1>1, <1>2, TokensConcat

(* What a codec call does, as far as the invariant needs it.               *)
LEMMA EncodeContract ==
    ASSUME NEW cap \in Nat, NEW e \in EncState, e.emitted <= e.taken, NEW n \in Nat,
           NEW r \in EncodeOutcomes(e, n, cap)
    PROVE  /\ r.enc \in EncState
           /\ r.consumed \in 0..n
           /\ r.enc.taken = e.taken + r.consumed
           /\ r.enc.emitted <= r.enc.taken
           /\ r.enc.ended = e.ended
           /\ r.status \in {"InputEmpty", "OutputFull"}
           /\ \E w \in Nat : /\ r.enc.emitted = e.emitted + w
                            /\ r.out = BytesFrom(e.emitted, w)
           /\ r.status = "OutputFull" /\ r.out = << >> => cap < Atom
<1>1. PICK kw \in (0..n) \X (0..cap) :
        /\ e.emitted + kw[2] <= e.taken + kw[1]
        /\ kw[1] = n \/ OutOfRoom(kw[2], cap)
        /\ r = [enc      |-> [e EXCEPT !.taken = @ + kw[1], !.emitted = @ + kw[2]],
                consumed |-> kw[1],
                out      |-> BytesFrom(e.emitted, kw[2]),
                status   |-> IF kw[1] >= n THEN "InputEmpty" ELSE "OutputFull"]
  BY DEF EncodeOutcomes
<1>3. kw[1] \in 0..n /\ kw[2] \in Nat
  OBVIOUS
<1>4. /\ r.enc = [e EXCEPT !.taken = @ + kw[1], !.emitted = @ + kw[2]]
      /\ r.consumed = kw[1]
      /\ r.out = BytesFrom(e.emitted, kw[2])
      /\ r.status \in {"InputEmpty", "OutputFull"}
  BY <1>1
<1>5. e.taken \in Nat /\ e.emitted \in Nat /\ e.ended \in BOOLEAN
  BY DEF EncState
<1>6. /\ r.enc.taken = e.taken + kw[1]
      /\ r.enc.emitted = e.emitted + kw[2]
      /\ r.enc.ended = e.ended
      /\ r.enc \in EncState
  <2>1. r.enc = [e EXCEPT !.taken = e.taken + kw[1], !.emitted = e.emitted + kw[2]]
    BY <1>4
  <2>2. e.taken + kw[1] \in Nat /\ e.emitted + kw[2] \in Nat
    BY <1>3, <1>5
  <2> HIDE <1>1
  <2> QED BY <2>1, <2>2 DEF EncState
<1>7. ASSUME r.status = "OutputFull", r.out = << >>
      PROVE  cap < Atom
  <2>1. kw[1] # n
    BY <1>1, <1>7
  <2>2. Len(r.out) = kw[2] /\ Len(r.out) = 0
    <3>1. Len(BytesFrom(e.emitted, kw[2])) = kw[2]
      BY ONLY <1>3, <1>5, BytesFromType
    <3>2. Len(r.out) = 0
      BY <1>7
    <3> QED BY <1>4, <3>1, <3>2
  <2>3. cap < kw[2] + Atom
    BY <1>1, <2>1 DEF OutOfRoom
  <2>4. kw[2] = 0 /\ Atom \in Nat
    BY <2>2, AtomAssumption
  <2> QED BY <2>3, <2>4
<1>8. r.enc.emitted <= r.enc.taken
  BY <1>1, <1>6
<1>9. \E w \in Nat : r.enc.emitted = e.emitted + w /\ r.out = BytesFrom(e.emitted, w)
  BY <1>3, <1>4, <1>6
<1> QED BY <1>3, <1>4, <1>6, <1>7, <1>8, <1>9

(* A draining call hands over a part of the held bytes, or all of them and *)
(* its mark.                                                               *)
LEMMA DrainContract ==
    ASSUME NEW cap \in Nat, NEW e \in EncState, e.emitted <= e.taken, NEW mark \in Token,
           NEW d \in Drain(e, mark, cap)
    PROVE  /\ d.bytes \in Nat
           /\ e.emitted + d.bytes <= e.taken
           /\ d.complete \in BOOLEAN
           /\ d.complete => /\ e.emitted + d.bytes = e.taken
                            /\ d.out = BytesFrom(e.emitted, d.bytes) \o <<mark>>
           /\ ~d.complete => d.out = BytesFrom(e.emitted, d.bytes)
           /\ d.out = << >> => d.bytes = 0 /\ ~d.complete /\ cap < Atom
<1> DEFINE held == e.taken - e.emitted
           owed == BytesFrom(e.emitted, held) \o <<mark>>
<1>1. held \in Nat /\ e.emitted \in Nat /\ e.taken \in Nat
  BY DEF EncState
<1>2. /\ BytesFrom(e.emitted, held) \in Seq(Token)
      /\ Len(BytesFrom(e.emitted, held)) = held
      /\ \A i \in 1..held : BytesFrom(e.emitted, held)[i] = Byte(e.emitted + i)
  BY <1>1, BytesFromType
<1>3. /\ owed \in Seq(Token)
      /\ Len(owed) = held + 1
      /\ \A i \in 1..held : owed[i] = Byte(e.emitted + i)
  BY <1>1, <1>2
<1>4. PICK w \in 0..cap :
        /\ w <= Len(owed)
        /\ w = Len(owed) \/ OutOfRoom(w, cap)
        /\ d = [out |-> SubSeq(owed, 1, w), complete |-> (w = Len(owed)),
                bytes |-> IF w = Len(owed) THEN w - 1 ELSE w]
  BY DEF Drain
<1>5. w \in Nat
  BY <1>4
<1> HIDE DEF owed
<1>6. CASE w = Len(owed)
  <2>1. d.out = owed
    BY <1>3, <1>4, <1>6, SubSeqFull
  <2>2. d.bytes = w - 1 /\ d.complete = TRUE
    BY <1>4, <1>6
  <2>3. d.bytes = held
    BY <2>2, <1>1, <1>3, <1>6
  <2>4. d.out = BytesFrom(e.emitted, d.bytes) \o <<mark>>
    BY <2>1, <2>3 DEF owed
  <2>5. d.bytes \in Nat /\ e.emitted + d.bytes = e.taken
    BY <2>3, <1>1
  <2>6. e.emitted + d.bytes <= e.taken
    BY <2>5, <1>1
  <2>7. d.out # << >>
    BY <1>1, <1>3, <2>1
  <2> QED BY <2>2, <2>4, <2>5, <2>6, <2>7, Zenon
<1>7. CASE w # Len(owed)
  <2>0. d.bytes = w /\ d.complete = FALSE
    BY <1>4, <1>7
  <2>1. w <= held
    BY <1>1, <1>3, <1>4, <1>5, <1>7
  <2>2. /\ BytesFrom(e.emitted, w) \in Seq(Token)
        /\ Len(BytesFrom(e.emitted, w)) = w
        /\ \A i \in 1..w : BytesFrom(e.emitted, w)[i] = Byte(e.emitted + i)
    BY <1>1, <1>5, BytesFromType
  <2>3. \A i \in 1..w : owed[i] \in Token
    BY <1>3, <2>1, <1>5, <1>1
  <2>4. /\ SubSeq(owed, 1, w) \in Seq(Token)
        /\ Len(SubSeq(owed, 1, w)) = w
        /\ \A i \in 1..w : SubSeq(owed, 1, w)[i] = owed[i]
    BY <2>3, <1>5, SubSeqProperties
  <2>5. \A i \in 1..w : SubSeq(owed, 1, w)[i] = BytesFrom(e.emitted, w)[i]
    <3> SUFFICES ASSUME NEW i \in 1..w
                 PROVE  SubSeq(owed, 1, w)[i] = BytesFrom(e.emitted, w)[i]
      OBVIOUS
    <3>1. i \in 1..held
      BY <1>1, <1>5, <2>1
    <3>2. owed[i] = Byte(e.emitted + i)
      BY <1>3, <3>1
    <3>3. SubSeq(owed, 1, w)[i] = owed[i]
      BY <2>4
    <3>4. BytesFrom(e.emitted, w)[i] = Byte(e.emitted + i)
      BY <2>2
    <3> QED BY <3>2, <3>3, <3>4
  <2>6. SubSeq(owed, 1, w) = BytesFrom(e.emitted, w)
    BY <2>2, <2>4, <2>5, SeqEqual
  <2>7. d.out = << >> => d.bytes = 0 /\ cap < Atom
    <3>1. cap < w + Atom
      BY <1>4, <1>7 DEF OutOfRoom
    <3>2. d.out = << >> => w = 0
      BY <1>4, <2>2, <2>6
    <3> QED BY <2>0, <3>1, <3>2, AtomAssumption
  <2>8. d.bytes \in Nat /\ e.emitted + d.bytes <= e.taken
    BY <1>1, <1>5, <2>0, <2>1
  <2>9. d.out = BytesFrom(e.emitted, d.bytes)
    BY <1>4, <2>0, <2>6
  <2> QED BY <2>0, <2>7, <2>8, <2>9, Zenon
<1> QED BY <1>6, <1>7


(* A flush of the codec hands over held bytes, or all of them and a sync   *)
(* mark.                                                                   *)
LEMMA FlushContract ==
    ASSUME NEW cap \in Nat, NEW e \in EncState, e.emitted <= e.taken,
           NEW r \in FlushOutcomes(e, cap)
    PROVE  /\ r.enc \in EncState
           /\ r.enc.taken = e.taken
           /\ r.enc.ended = e.ended
           /\ r.enc.emitted <= r.enc.taken
           /\ r.status \in {"InputEmpty", "OutputFull"}
           /\ \E w \in Nat :
                /\ r.enc.emitted = e.emitted + w
                /\ \/ r.out = BytesFrom(e.emitted, w)
                   \/ /\ r.out = BytesFrom(e.emitted, w) \o <<SyncMark>>
                      /\ r.enc.emitted = e.taken /\ r.status = "InputEmpty"
<1>0. e.taken \in Nat /\ e.emitted \in Nat /\ e.ended \in BOOLEAN
  BY DEF EncState
<1>1. CASE Flushes
  <2>1. PICK d \in Drain(e, SyncMark, cap) :
          r = [enc    |-> [e EXCEPT !.emitted = @ + d.bytes],
               out    |-> d.out,
               status |-> IF d.complete THEN "InputEmpty" ELSE "OutputFull"]
    BY <1>1 DEF FlushOutcomes
  <2>2. SyncMark \in Token
    BY DEF SyncMark, Token
  <2>3. /\ d.bytes \in Nat
        /\ e.emitted + d.bytes <= e.taken
        /\ d.complete \in BOOLEAN
        /\ d.complete => /\ e.emitted + d.bytes = e.taken
                         /\ d.out = BytesFrom(e.emitted, d.bytes) \o <<SyncMark>>
        /\ ~d.complete => d.out = BytesFrom(e.emitted, d.bytes)
    BY <2>2, DrainContract
  <2>4. /\ r.enc = [e EXCEPT !.emitted = e.emitted + d.bytes] /\ r.out = d.out
        /\ r.status \in {"InputEmpty", "OutputFull"}
        /\ d.complete => r.status = "InputEmpty"
    BY <2>1
  <2> HIDE <2>1
  <2>5. /\ r.enc.taken = e.taken /\ r.enc.ended = e.ended
        /\ r.enc.emitted = e.emitted + d.bytes /\ r.enc \in EncState
    BY <1>0, <2>3, <2>4 DEF EncState
  <2>6. \/ r.out = BytesFrom(e.emitted, d.bytes)
        \/ /\ r.out = BytesFrom(e.emitted, d.bytes) \o <<SyncMark>>
           /\ r.enc.emitted = e.taken /\ r.status = "InputEmpty"
    BY <2>3, <2>4, <2>5
  <2> QED BY <2>3, <2>4, <2>5, <2>6
<1>2. CASE ~Flushes
  <2>1. r.enc = e /\ r.out = << >> /\ r.status = "InputEmpty"
    BY <1>2 DEF FlushOutcomes
  <2>2. r.out = BytesFrom(e.emitted, 0) /\ r.enc.emitted = e.emitted + 0
    BY <1>0, <2>1 DEF BytesFrom
  <2> QED BY <1>0, <2>1, <2>2
<1> QED BY <1>1, <1>2

(* A finish hands over held bytes, or all of them and the trailer, which   *)
(* it does once.                                                           *)
LEMMA FinishContract ==
    ASSUME NEW cap \in Nat, NEW e \in EncState, e.emitted <= e.taken,
           NEW r \in FinishOutcomes(e, cap)
    PROVE  /\ e.ended => r.enc = e /\ r.out = << >>
           /\ ~e.ended =>
                /\ r.enc \in EncState
                /\ r.enc.taken = e.taken
                /\ r.enc.emitted <= r.enc.taken
                /\ r.out = << >> => cap < Atom
                /\ \E w \in Nat :
                     /\ r.enc.emitted = e.emitted + w
                     /\ ~r.enc.ended => r.out = BytesFrom(e.emitted, w)
                     /\ r.enc.ended => /\ r.out = BytesFrom(e.emitted, w) \o <<EndMark>>
                                       /\ r.enc.emitted = e.taken
           /\ r.status = "StreamEnd" <=> r.enc.ended
           /\ r.status \in Status
<1>0. e.taken \in Nat /\ e.emitted \in Nat /\ e.ended \in BOOLEAN
  BY DEF EncState
<1>1. CASE ~e.ended
  <2>1. PICK d \in Drain(e, EndMark, cap) :
          r = [enc    |-> [e EXCEPT !.emitted = @ + d.bytes, !.ended = d.complete],
               out    |-> d.out,
               status |-> IF d.complete THEN "StreamEnd" ELSE "OutputFull"]
    BY <1>1 DEF FinishOutcomes
  <2>2. EndMark \in Token
    BY DEF EndMark, Token
  <2>3. /\ d.bytes \in Nat
        /\ e.emitted + d.bytes <= e.taken
        /\ d.complete \in BOOLEAN
        /\ d.complete => /\ e.emitted + d.bytes = e.taken
                         /\ d.out = BytesFrom(e.emitted, d.bytes) \o <<EndMark>>
        /\ ~d.complete => d.out = BytesFrom(e.emitted, d.bytes)
        /\ d.out = << >> => cap < Atom
    BY <2>2, DrainContract
  <2>4. /\ r.enc = [e EXCEPT !.emitted = e.emitted + d.bytes, !.ended = d.complete]
        /\ r.out = d.out /\ (r.status = "StreamEnd" <=> d.complete)
        /\ r.status \in Status
    BY <2>1 DEF Status
  <2> HIDE <2>1
  <2>5. /\ r.enc.taken = e.taken /\ r.enc.ended = d.complete
        /\ r.enc.emitted = e.emitted + d.bytes /\ r.enc \in EncState
    <3>1. r.enc = [taken |-> e.taken, emitted |-> e.emitted + d.bytes, ended |-> d.complete]
      BY <2>4 DEF EncState
    <3>2. e.emitted + d.bytes \in Nat
      BY <1>0, <2>3
    <3>3. r.enc \in EncState
      <4>1. \A t, m \in Nat, c \in BOOLEAN :
              [taken |-> t, emitted |-> m, ended |-> c] \in EncState
        BY DEF EncState
      <4>2. d.complete \in BOOLEAN
        BY <2>3
      <4> QED BY <1>0, <3>1, <3>2, <4>1, <4>2, Zenon
    <3> QED BY <3>1, <3>3
  <2>6. /\ ~r.enc.ended => r.out = BytesFrom(e.emitted, d.bytes)
        /\ r.enc.ended => /\ r.out = BytesFrom(e.emitted, d.bytes) \o <<EndMark>>
                          /\ r.enc.emitted = e.taken
    BY <2>3, <2>4, <2>5
  <2>7. r.status = "StreamEnd" <=> r.enc.ended
    BY <2>4, <2>5, Zenon
  <2>8. r.enc.emitted <= r.enc.taken /\ (r.out = << >> => cap < Atom)
    BY <2>3, <2>4, <2>5
  <2>9. \E w \in Nat :
           /\ r.enc.emitted = e.emitted + w
           /\ ~r.enc.ended => r.out = BytesFrom(e.emitted, w)
           /\ r.enc.ended => /\ r.out = BytesFrom(e.emitted, w) \o <<EndMark>>
                             /\ r.enc.emitted = e.taken
    BY <2>3, <2>5, <2>6
  <2> QED BY <1>1, <2>4, <2>5, <2>7, <2>8, <2>9
<1>2. CASE e.ended
  BY <1>2 DEF FinishOutcomes, Status
<1> QED BY <1>1, <1>2
=============================================================================
