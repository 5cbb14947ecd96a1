---------------------------- MODULE EncoderCodec ----------------------------
(***************************************************************************)
(* What traits.rs promises of every compressor: the outcomes one call of   *)
(* encode, flush or finish may have, through the bridge that turns the     *)
(* RawProgress of an algorithm into a Progress and a Status.               *)
(*                                                                         *)
(* The encoded stream is a sequence of tokens: one per plaintext byte      *)
(* (the byte's position in the plaintext), one per sync marker, one for    *)
(* the trailer.  An encoder may sit on bytes it has taken for as long as   *)
(* it likes, so a call is any split of its owed tokens that fits `cap`.    *)
(***************************************************************************)
EXTENDS Naturals, Sequences

CONSTANTS
    Atom,     \* output room the codec's next atomic step can demand
    Flushes   \* the format overrides raw_flush: it has a sync marker

ASSUME AtomAssumption == Atom \in Nat \ {0}
ASSUME FlushesAssumption == Flushes \in BOOLEAN

Byte(i) == [kind |-> "byte", n |-> i]
SyncMark == [kind |-> "sync", n |-> 0]
EndMark == [kind |-> "end", n |-> 0]
Token == [kind : {"byte", "sync", "end"}, n : Nat]

Status == {"InputEmpty", "OutputFull", "StreamEnd"}

(* Encoder state: plaintext bytes taken, bytes whose token is out, and     *)
(* whether the trailer is out.                                             *)
EncState == [taken : Nat, emitted : Nat, ended : BOOLEAN]

NewEncoder == [taken |-> 0, emitted |-> 0, ended |-> FALSE]

(* Tokens of the bytes first+1 .. first+w.                                 *)
BytesFrom(first, w) == [i \in 1..w |-> Byte(first + i)]

(* Bug: a codec that stops for no reason.                                  *)
StopsAnywhere(w, cap) == w <= cap

(* A call may stop short of its goal only for want of output room.         *)
OutOfRoom(w, cap) == cap < w + Atom

(* Encoder::encode over n input bytes.                                     *)
EncodeOutcomes(e, n, cap) ==
    { [enc      |-> [e EXCEPT !.taken = @ + kw[1], !.emitted = @ + kw[2]],
       consumed |-> kw[1],
       out      |-> BytesFrom(e.emitted, kw[2]),
       status   |-> IF kw[1] >= n THEN "InputEmpty" ELSE "OutputFull"] :
      kw \in { p \in (0..n) \X (0..cap) :
                 /\ e.emitted + p[2] <= e.taken + p[1]
                 /\ p[1] = n \/ OutOfRoom(p[2], cap) } }

(* The two calls that owe every held byte and then a closing token.        *)
Drain(e, mark, cap) ==
    LET owed == BytesFrom(e.emitted, e.taken - e.emitted) \o <<mark>> IN
    { [out |-> SubSeq(owed, 1, w), complete |-> (w = Len(owed)),
       bytes |-> IF w = Len(owed) THEN w - 1 ELSE w] :
      w \in { v \in 0..cap : /\ v <= Len(owed)
                             /\ v = Len(owed) \/ OutOfRoom(v, cap) } }

(* Encoder::flush: the default raw_flush reports done and writes nothing.  *)
FlushOutcomes(e, cap) ==
    IF Flushes
    THEN { [enc    |-> [e EXCEPT !.emitted = @ + d.bytes],
            out    |-> d.out,
            status |-> IF d.complete THEN "InputEmpty" ELSE "OutputFull"] :
           d \in Drain(e, SyncMark, cap) }
    ELSE { [enc |-> e, out |-> << >>, status |-> "InputEmpty"] }

(* Encoder::finish: a no-op reporting StreamEnd once the trailer is out.   *)
FinishOutcomes(e, cap) ==
    IF e.ended
    THEN { [enc |-> e, out |-> << >>, status |-> "StreamEnd"] }
    ELSE { [enc    |-> [e EXCEPT !.emitted = @ + d.bytes, !.ended = d.complete],
            out    |-> d.out,
            status |-> IF d.complete THEN "StreamEnd" ELSE "OutputFull"] :
           d \in Drain(e, EndMark, cap) }
=============================================================================
