---------------------------- MODULE DecoderCodec ----------------------------
(***************************************************************************)
(* What traits.rs promises of every decompressor: the outcomes one call of *)
(* decode or finish may have, through the bridge from RawProgress.         *)
(*                                                                         *)
(* The compressed stream is StreamLen units, the last one its trailer; a   *)
(* unit before it stands for Expand plaintext bytes.  A decoder may absorb *)
(* units ahead of the bytes they expand to, but owes at most Hold of them. *)
(***************************************************************************)
EXTENDS Naturals, Sequences

CONSTANTS
    StreamLen,   \* units of a whole compressed stream, trailer included
    Expand,      \* plaintext bytes a unit expands to
    Hold,        \* bound on the output a decoder owes for units it has taken
    StrictHold   \* the same of a decoder that is strict about finish

ASSUME StreamAssumption ==
    StreamLen \in Nat \ {0} /\ Expand \in Nat \ {0} /\ Hold \in Nat /\ StrictHold \in Nat

Status == {"InputEmpty", "OutputFull", "StreamEnd"}

(* Decoder state: units taken, plaintext bytes handed over, end reported;  *)
(* and its kind.  A strict one (gzip, zlib) fails in finish on a stream it *)
(* cannot complete in that call; an eager one hands over all the output it *)
(* has room for, others may keep some back in mid-stream.                  *)
DecState == [taken : Nat, emitted : Nat, ended : BOOLEAN,
             strict : BOOLEAN, eager : BOOLEAN]

NewDecoders ==
    {[taken |-> 0, emitted |-> 0, ended |-> FALSE, strict |-> strict, eager |-> eager] :
        strict \in BOOLEAN, eager \in BOOLEAN}

(* Plaintext bytes the first t units expand to: none for the trailer.      *)
Expansion(t) == Expand * (IF t < StreamLen THEN t ELSE StreamLen - 1)

BytesFrom(first, w) == [i \in 1..w |-> first + i]

Complete(taken, emitted) == taken = StreamLen /\ emitted = Expansion(StreamLen)

(* Bug: the decoder absorbs input without bound.                           *)
Unbounded(d, owed) == TRUE

(* Output owed for units already taken is bounded.                         *)
Bounded(d, owed) == owed <= (IF d.strict THEN StrictHold ELSE Hold)

(* The bridge's order of tests: a filled buffer means "drain and call      *)
(* again" even when the input is exhausted.                                *)
DecodeStatus(done, k, n, w, cap) ==
    IF done THEN "StreamEnd"
    ELSE IF w = cap /\ cap > 0 THEN "OutputFull"
    ELSE IF k >= n THEN "InputEmpty"
    ELSE "OutputFull"

(* Decoder::decode over n input units; it stops before the end of its      *)
(* input only at the end of the stream or when the output is full.         *)
DecodeOutcomes(d, n, cap) ==
    IF d.ended
    THEN { [dec |-> d, consumed |-> 0, out |-> << >>, status |-> "StreamEnd"] }
    ELSE { LET done == Complete(d.taken + kw[1], d.emitted + kw[2]) IN
           [dec      |-> [d EXCEPT !.taken = @ + kw[1], !.emitted = @ + kw[2], !.ended = done],
            consumed |-> kw[1],
            out      |-> BytesFrom(d.emitted, kw[2]),
            status   |-> DecodeStatus(done, kw[1], n, kw[2], cap)] :
           kw \in { p \in (0..n) \X (0..cap) :
                      /\ d.taken + p[1] <= StreamLen
                      /\ d.emitted + p[2] <= Expansion(d.taken + p[1])
                      /\ Bounded(d, Expansion(d.taken + p[1]) - (d.emitted + p[2]))
                      /\ p[1] = n \/ d.taken + p[1] = StreamLen \/ p[2] = cap
                      /\ Expansion(d.taken + p[1]) = d.emitted + p[2]
                         \/ p[2] = cap \/ (~d.eager /\ d.taken + p[1] < StreamLen) } }

(* Bug: whatever finish cannot complete in one call is an error.           *)
OneCallOnly(d, done, w) == done

(* finish makes headway, or the stream is over: a lenient decoder may be   *)
(* called again for the rest, a strict one has failed.                     *)
Headway(d, done, w) == done \/ (w > 0 /\ ~d.strict)

(* Decoder::finish: hands over what is owed, then reports the end of a     *)
(* complete stream; nothing left of an incomplete one is UnexpectedEnd.    *)
FinishOutcomes(d, cap) ==
    LET owed == Expansion(d.taken) - d.emitted
        w    == IF owed < cap THEN owed ELSE cap
        done == Complete(d.taken, d.emitted + w)
    IN IF d.ended
       THEN { [dec |-> d, out |-> << >>, status |-> "StreamEnd", ok |-> TRUE] }
       ELSE { [dec    |-> [d EXCEPT !.emitted = @ + w, !.ended = done],
               out    |-> BytesFrom(d.emitted, w),
               status |-> IF done THEN "StreamEnd" ELSE "OutputFull",
               ok     |-> Headway(d, done, w)] }
=============================================================================
