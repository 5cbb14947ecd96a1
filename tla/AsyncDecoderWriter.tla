-------------------------- MODULE AsyncDecoderWriter ------------------------
(***************************************************************************)
(* tokio_io.rs, DecoderWriter: a tokio AsyncWrite that decompresses what   *)
(* it is given and forwards the plaintext to an inner AsyncWrite, which    *)
(* may take part of a write, not be ready, or fail and work again later.   *)
(*                                                                         *)
(* A poll runs from the top every time; the caller may answer Pending with *)
(* a different call, until it has begun to shut down.  It has `supply`     *)
(* units to write: a whole stream, one cut short, or one with units of     *)
(* something else after it.                                                *)
(***************************************************************************)
EXTENDS DecoderCodec

CONSTANTS
    SCRATCH,   \* size of the scratch buffer
    MaxExtra   \* bound: units that follow the stream in the caller's input

VARIABLES
    supply,    \* units the caller has to write
    dec,       \* the codec (its contract state)
    out,       \* out[out_pos..]: output inner has not accepted
    finished,  \* the codec's finish reported StreamEnd and inner has it all
    closing,   \* the caller has begun to shut down
    call,      \* the poll in progress
    wire,      \* what the inner writer has accepted
    reported,  \* units the caller was told were taken
    broken,    \* the codec returned an error
    last       \* the poll that returned last, and how

vars == <<supply, dec, out, finished, closing, call, wire, reported, broken, last>>

Ops == {"none", "write", "flush", "shutdown"}

(* `at` is how far a shutdown has come: the empty-input decode calls that  *)
(* drain the decoder, its finish, or the end.                              *)
Idle == [op |-> "none", len |-> 0, at |-> "decode"]

Init ==
    /\ supply \in 0..(StreamLen + MaxExtra)
    /\ dec \in NewDecoders
    /\ out = << >>
    /\ finished = FALSE
    /\ closing = FALSE
    /\ call = Idle
    /\ wire = << >>
    /\ reported = 0
    /\ broken = FALSE
    /\ last = [op |-> "none", how |-> "ready"]

-----------------------------------------------------------------------------
(* The caller.                                                             *)

Begin(op, len) ==
    /\ call.op = "none"
    /\ call' = [Idle EXCEPT !.op = op, !.len = len]
    /\ last' = [op |-> "none", how |-> "ready"]
    /\ closing' = (closing \/ op = "shutdown")
    /\ UNCHANGED <<supply, dec, out, finished, wire, reported, broken>>

PollWrite(n) == ~closing /\ ~broken /\ reported + n <= supply /\ Begin("write", n)
PollFlush == ~closing /\ ~broken /\ Begin("flush", 0)
PollShutdown == last # [op |-> "shutdown", how |-> "ready"] /\ Begin("shutdown", 0)

Return(how) == call' = Idle /\ last' = [op |-> call.op, how |-> how]

-----------------------------------------------------------------------------
(* drain_out, before every other step of a poll.                           *)

Draining == call.op # "none" /\ out # << >>

(* Bug: out_pos starts over when a write was partial.                      *)
UnsentFromStart(n) == IF n = Len(out) THEN << >> ELSE out

Unsent(n) == SubSeq(out, n + 1, Len(out))

InnerAccepts(n) ==
    /\ Draining
    /\ n \in 1..Len(out)
    /\ wire' = wire \o SubSeq(out, 1, n)
    /\ out' = Unsent(n)
    /\ UNCHANGED <<supply, dec, finished, closing, call, reported, broken, last>>

(* The inner writer is not ready, fails, or takes 0 bytes (WriteZero).     *)
InnerRefuses ==
    /\ Draining
    /\ \E how \in {"pending", "error"} : Return(how)
    /\ UNCHANGED <<supply, dec, out, finished, closing, wire, reported, broken>>

Drained(op) == call.op = op /\ out = << >>

-----------------------------------------------------------------------------
(* One decode call ends the poll, its output left for the next one, unless *)
(* it only handed over output the decoder owed.                            *)
EndsWrite(r) == r.consumed > 0 \/ r.out = << >> \/ call.len = 0

Decode ==
    /\ Drained("write")
    /\ ~broken
    /\ \E r \in DecodeOutcomes(dec, call.len, SCRATCH) :
         /\ dec' = r.dec
         /\ out' = r.out
         /\ IF EndsWrite(r)
            THEN Return("ready") /\ reported' = reported + r.consumed
            ELSE UNCHANGED <<call, last, reported>>
    /\ UNCHANGED <<supply, finished, closing, wire, broken>>

(* The last step of poll_flush is inner.poll_flush.                        *)
FlushReturns ==
    /\ Drained("flush")
    /\ \E how \in {"ready", "pending", "error"} : Return(how)
    /\ UNCHANGED <<supply, dec, out, finished, closing, wire, reported, broken>>

ClosingAt(at) == Drained("shutdown") /\ ~finished /\ ~broken /\ call.at = at

(* Bug: finish is called without draining the decoder first.               *)
FinishAtOnce(r) == "finish"

(* Bug: the loop runs for as long as the stream has not ended.             *)
DrainUntilEnd(r) == IF r.status = "StreamEnd" THEN "finish" ELSE "decode"

(* Where the loop goes after an empty-input decode: it runs again for as   *)
(* long as there is output.                                                *)
AfterDrain(r) == IF r.out # << >> THEN "decode" ELSE "finish"

DrainDecoder ==
    /\ ClosingAt("decode")
    /\ \E r \in DecodeOutcomes(dec, 0, SCRATCH) :
         /\ dec' = r.dec
         /\ out' = r.out
         /\ call' = [call EXCEPT !.at = AfterDrain(r)]
    /\ UNCHANGED <<supply, finished, closing, wire, reported, broken, last>>

(* Bug: any headway of finish ends the shutdown.                           *)
EndsAtHeadway(r) == TRUE

StreamEnded(r) == r.status = "StreamEnd"

(* The decoder's own error and the "decoder stalled" guard end the poll;   *)
(* a strict decoder is then poisoned.                                      *)
Finish ==
    /\ ClosingAt("finish")
    /\ \E r \in FinishOutcomes(dec, SCRATCH) :
         IF r.ok
         THEN /\ dec' = r.dec
              /\ out' = r.out
              /\ call' = [call EXCEPT !.at = IF StreamEnded(r) THEN "end" ELSE "decode"]
              /\ UNCHANGED <<broken, last>>
         ELSE /\ broken' = dec.strict
              /\ Return("error")
              /\ UNCHANGED <<dec, out>>
    /\ UNCHANGED <<supply, finished, closing, wire, reported>>

FinishDone ==
    /\ ClosingAt("end")
    /\ finished' = TRUE
    /\ UNCHANGED <<supply, dec, out, closing, call, wire, reported, broken, last>>

(* The last step of poll_shutdown is inner.poll_shutdown.                  *)
ShutdownReturns(how) ==
    /\ Drained("shutdown")
    /\ finished
    /\ Return(how)
    /\ UNCHANGED <<supply, dec, out, finished, closing, wire, reported, broken>>

(* The codec finds its input corrupt and is poisoned: every later call of  *)
(* it fails too.                                                           *)
CodecFails ==
    /\ Drained("write") \/ (Drained("shutdown") /\ ~finished)
    /\ broken' = TRUE
    /\ Return("error")
    /\ UNCHANGED <<supply, dec, out, finished, closing, wire, reported>>

-----------------------------------------------------------------------------
Caller == (\E n \in 0..supply : PollWrite(n)) \/ PollFlush \/ PollShutdown

Progress ==
    \/ \E n \in 1..Len(out) : InnerAccepts(n)
    \/ InnerRefuses
    \/ Decode
    \/ FlushReturns
    \/ DrainDecoder \/ Finish \/ FinishDone
    \/ \E how \in {"ready", "pending", "error"} : ShutdownReturns(how)

Next == Caller \/ Progress \/ CodecFails

(* A poll, once made, runs; a caller that has begun to shut down polls     *)
(* until that is done; and the inner writer does not refuse for ever.      *)
Spec ==
    /\ Init /\ [][Next]_vars
    /\ WF_vars(Progress)
    /\ WF_vars(closing /\ PollShutdown)
    /\ SF_vars(\E n \in 1..Len(out) : InnerAccepts(n))
    /\ SF_vars(ShutdownReturns("ready"))

-----------------------------------------------------------------------------
(* A shutdown is Ready(Ok) only for a complete stream, all of whose        *)
(* plaintext the inner writer then has: a truncated one is an error.       *)
ShutdownIsComplete ==
    last = [op |-> "shutdown", how |-> "ready"] =>
        /\ reported = StreamLen
        /\ wire = BytesFrom(0, Expansion(StreamLen))

(* finish is not called too early on a whole stream, though some decoders  *)
(* "only accept [it] once that output is out" (the comment in              *)
(* poll_shutdown), whatever of their output was still owed.                *)
FinishNotRefused == [][ Finish /\ dec.taken = StreamLen => ~broken' ]_vars

(* A caller that keeps polling shutdown gets an answer, however often the  *)
(* inner writer is not ready or fails on the way: Ready(Ok), or the error  *)
(* of a stream that is corrupt or cut short.                               *)
ShutdownCompletes ==
    closing ~> \/ broken
               \/ last = [op |-> "shutdown", how |-> "ready"]
               \/ last.how = "error" /\ dec.taken < StreamLen

(* The plaintext the inner writer has accepted, as the far end of a pipe.  *)
Pipeline == INSTANCE Pipe WITH
    taken     <- Expansion(dec.taken),
    delivered <- wire,
    closed    <- dec.ended /\ out = << >>

(* The adapter is a pipe of plaintext to the inner writer, whatever polls  *)
(* are abandoned.                                                          *)
ImplementsPipe == Pipeline!Spec
=============================================================================
