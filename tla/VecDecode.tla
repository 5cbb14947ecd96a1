------------------------------ MODULE VecDecode -----------------------------
(***************************************************************************)
(* vec.rs, decompress_to_vec_capped: the whole of `input` is driven        *)
(* through a LimitedDecoder (limit.rs), which hands over at most           *)
(* max_output_bytes of what the decoder inside it emits, into a Vec.       *)
(* decompress_to_vec runs the same loop over a bare decoder, which is a    *)
(* budget never reached.                                                   *)
(***************************************************************************)
EXTENDS DecoderCodec

CONSTANTS
    Limits,    \* values of max_output_bytes
    USIZE,     \* 2^w, for a usize of w bits: budgets are u64, lengths usize
    SCRATCH,   \* size of the scratch buffer
    MaxExtra   \* bound: units that follow the stream in `input`

VARIABLES
    size,      \* units of `input`: a whole stream, part of one, or more
    lim,       \* the wrapper and the decoder inside it
    consumed,  \* units of `input` given to the decoder
    out,       \* the Vec
    phase,     \* the loop that runs, or how the call ended
    error      \* what it ended with

vars == <<size, lim, consumed, out, phase, error>>

-----------------------------------------------------------------------------
(* limit.rs: the calls of a LimitedDecoder.                                *)

(* The wrapper's state: the inner decoder and the output counted so far.   *)
Limited == [dec : DecState, limit : Limits, written : Nat]

NewLimiteds == [dec : NewDecoders, limit : Limits, written : {0}]

Remaining(l) == IF l.written < l.limit THEN l.limit - l.written ELSE 0

(* Bug: the budget is cast to usize before it is compared.                 *)
TruncatedCap(l, len) ==
    LET r == Remaining(l) % USIZE IN IF r < len THEN r ELSE len

(* The part of the caller's slice that the inner decoder gets.             *)
Cap(l, len) ==
    LET r == Remaining(l) IN IF r < len THEN r ELSE len

(* What a call on the inner decoder becomes: with no budget left it was    *)
(* given a private byte, and fails if it wrote that; otherwise its output  *)
(* is the caller's.                                                        *)
Probed(l, r) ==
    [lim |-> [l EXCEPT !.dec = r.dec], out |-> << >>, status |-> r.status,
     error |-> IF r.out # << >> THEN "limit" ELSE "none"]

Passed(l, r) ==
    [lim |-> [l EXCEPT !.dec = r.dec, !.written = @ + Len(r.out)],
     out |-> r.out, status |-> r.status, error |-> "none"]

(* Bug: a spent budget is an error at once, trailer or no trailer.         *)
NoProbe(l, r) == [Probed(l, r) EXCEPT !.error = "limit"]

(* Bug: the byte the probe got is dropped in silence.                      *)
ProbeIgnored(l, r) == [Probed(l, r) EXCEPT !.error = "none"]

Spent(l, r) == Probed(l, r)

Consumed(r, k) ==
    [lim |-> r.lim, out |-> r.out, status |-> r.status, error |-> r.error, consumed |-> k]

LimitedDecode(l, n, len) ==
    IF Remaining(l) = 0
    THEN {Consumed(Spent(l, r), r.consumed) : r \in DecodeOutcomes(l.dec, n, 1)}
    ELSE {Consumed(Passed(l, r), r.consumed) : r \in DecodeOutcomes(l.dec, n, Cap(l, len))}

(* A strict decoder fails in finish; a lenient one with nothing to give    *)
(* leaves it to the caller to see that nothing was written.                *)
Refused(r, o) == IF r.ok \/ ~r.dec.strict THEN o ELSE [o EXCEPT !.error = "end", !.out = << >>]

LimitedFinish(l, len) ==
    IF Remaining(l) = 0
    THEN {Refused(r, Spent(l, r)) : r \in FinishOutcomes(l.dec, 1)}
    ELSE {Refused(r, Passed(l, r)) : r \in FinishOutcomes(l.dec, Cap(l, len))}

-----------------------------------------------------------------------------
(* vec.rs.                                                                 *)

Init ==
    /\ size \in 0..(StreamLen + MaxExtra)
    /\ lim \in NewLimiteds
    /\ consumed = 0
    /\ out = << >>
    /\ phase = "decode"
    /\ error = "none"

Fail(why) == phase' = "err" /\ error' = why

(* OutputFull means "drain and call again", with or without input left, as *)
(* long as the call got something done.                                    *)
NextPhase(r) ==
    CASE r.status = "StreamEnd"  -> "ok"
      [] r.status = "InputEmpty" -> "finish"
      [] r.status = "OutputFull" ->
           IF r.consumed = 0 /\ r.out = << >> THEN "finish" ELSE "decode"

Decode ==
    /\ phase = "decode"
    /\ \E r \in LimitedDecode(lim, size - consumed, SCRATCH) :
         /\ lim' = r.lim
         /\ consumed' = consumed + r.consumed
         /\ out' = out \o r.out
         /\ IF r.error # "none" THEN Fail(r.error)
            ELSE phase' = NextPhase(r) /\ UNCHANGED error
    /\ UNCHANGED size

(* Bug: finish is called for as long as it does not report the end.        *)
NeverStalled(r) == FALSE

(* A finish that writes nothing and does not complete is Corrupt.          *)
Stalled(r) == r.status # "StreamEnd" /\ r.out = << >>

Finish ==
    /\ phase = "finish"
    /\ \E r \in LimitedFinish(lim, SCRATCH) :
         /\ lim' = r.lim
         /\ out' = out \o r.out
         /\ IF r.error # "none" THEN Fail(r.error)
            ELSE IF Stalled(r) THEN Fail("corrupt")
            ELSE /\ phase' = IF r.status = "StreamEnd" THEN "ok" ELSE "finish"
                 /\ UNCHANGED error
    /\ UNCHANGED <<size, consumed>>

Next == Decode \/ Finish

Spec == Init /\ [][Next]_vars /\ WF_vars(Next)

-----------------------------------------------------------------------------
Plaintext == Expansion(StreamLen)

(* Ok is returned only with the whole plaintext: neither a truncated       *)
(* stream nor one cut off by its budget decodes to a prefix.               *)
OkIsComplete ==
    phase = "ok" => size >= StreamLen /\ out = BytesFrom(0, Plaintext)

(* A whole stream within the budget decodes: not even a decoder that is    *)
(* strict about finish and owes more than a scratch buffer is asked to     *)
(* finish too early (the comments of drive_decoder and of the bridge).     *)
WholeStreamDecodes ==
    phase = "err" => size < StreamLen \/ error = "limit"

(* OutputLimitExceeded is reported only of a stream beyond the budget.     *)
LimitErrorIsTrue == error = "limit" => Plaintext > lim.limit

(* The call returns.                                                       *)
Terminates == <>(phase \in {"ok", "err"})
=============================================================================
