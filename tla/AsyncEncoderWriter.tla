-------------------------- MODULE AsyncEncoderWriter ------------------------
(***************************************************************************)
(* tokio_io.rs, EncoderWriter: a tokio AsyncWrite that compresses what it  *)
(* is given and forwards it to an inner AsyncWrite, which may take part of *)
(* a write, not be ready, or fail and work again later.                    *)
(*                                                                         *)
(* A poll runs from the top every time: nothing but the adapter's fields   *)
(* outlives one that returns Pending, and the caller may answer Pending    *)
(* with a different call (its future was dropped), until it has begun to   *)
(* shut down.  One step is one call out of the adapter.                    *)
(***************************************************************************)
EXTENDS EncoderCodec

CONSTANTS
    SCRATCH,   \* size of the scratch buffer
    MaxBytes   \* bound: plaintext bytes the caller has

VARIABLES
    enc,           \* the codec (its contract state)
    out,           \* out[out_pos..]: output inner has not accepted
    finished,      \* the trailer has been accepted by inner
    sync_flushed,  \* the encoder was flushed since it last took a byte
    closing,       \* the caller has begun to shut down
    call,          \* the poll in progress
    wire,          \* what the inner writer has accepted
    reported,      \* plaintext bytes the caller was told were taken
    broken,        \* the codec returned an error
    last           \* the poll that returned last, and how

vars == <<enc, out, finished, sync_flushed, closing, call, wire, reported, broken, last>>

Ops == {"none", "write", "flush", "shutdown"}

Idle == [op |-> "none", len |-> 0, status |-> "none"]

Init ==
    /\ enc = NewEncoder
    /\ out = << >>
    /\ finished = FALSE
    /\ sync_flushed = FALSE
    /\ closing = FALSE
    /\ call = Idle
    /\ wire = << >>
    /\ reported = 0
    /\ broken = FALSE
    /\ last = [op |-> "none", how |-> "ready"]

-----------------------------------------------------------------------------
(* The caller.  It presents plaintext from the first byte it was not told  *)
(* was taken.                                                              *)

Begin(op, len) ==
    /\ call.op = "none"
    /\ call' = [Idle EXCEPT !.op = op, !.len = len]
    /\ last' = [op |-> "none", how |-> "ready"]
    /\ closing' = (closing \/ op = "shutdown")
    /\ UNCHANGED <<enc, out, finished, sync_flushed, wire, reported, broken>>

PollWrite(n) == ~closing /\ ~broken /\ reported + n <= MaxBytes /\ Begin("write", n)
PollFlush == ~closing /\ ~broken /\ Begin("flush", 0)
PollShutdown == last # [op |-> "shutdown", how |-> "ready"] /\ Begin("shutdown", 0)

Return(how) == call' = Idle /\ last' = [op |-> call.op, how |-> how]

-----------------------------------------------------------------------------
(* poll_flush stages what the encoder holds before it drains anything.     *)

(* Bug: the encoder is flushed again by a re-poll.                         *)
AlwaysFlush == call.op = "flush" /\ ~finished /\ call.status # "InputEmpty"

MustFlush == call.op = "flush" /\ ~finished /\ ~sync_flushed

(* A codec that neither writes nor completes ends flush and shutdown.      *)
Stalled(r) == r.out = << >> /\ r.status = "OutputFull"

Flush ==
    /\ MustFlush
    /\ ~broken
    /\ \E r \in FlushOutcomes(enc, SCRATCH) :
         /\ enc' = r.enc
         /\ out' = out \o r.out
         /\ sync_flushed' = (r.status # "OutputFull")
         /\ IF Stalled(r)
            THEN Return("error")
            ELSE call' = [call EXCEPT !.status = r.status] /\ UNCHANGED last
    /\ UNCHANGED <<finished, closing, wire, reported, broken>>

-----------------------------------------------------------------------------
(* drain_out, before every other step of a poll.                           *)

Draining == call.op # "none" /\ ~MustFlush /\ out # << >>

(* Bug: out_pos starts over when a write was partial.                      *)
UnsentFromStart(n) == IF n = Len(out) THEN << >> ELSE out

Unsent(n) == SubSeq(out, n + 1, Len(out))

InnerAccepts(n) ==
    /\ Draining
    /\ n \in 1..Len(out)
    /\ wire' = wire \o SubSeq(out, 1, n)
    /\ out' = Unsent(n)
    /\ UNCHANGED <<enc, finished, sync_flushed, closing, call, reported, broken, last>>

(* The inner writer is not ready, fails, or takes 0 bytes (WriteZero).     *)
InnerRefuses ==
    /\ Draining
    /\ \E how \in {"pending", "error"} : Return(how)
    /\ UNCHANGED <<enc, out, finished, sync_flushed, closing, wire, reported, broken>>

(* Bug: the poll goes on, or returns, over output not yet accepted.        *)
Undrained(op) == call.op = op /\ ~MustFlush

Drained(op) == call.op = op /\ ~MustFlush /\ out = << >>

-----------------------------------------------------------------------------
(* Bug: bytes are taken in a poll that may yet return Pending.             *)
DrainFirst(r) == r.out = << >>

(* One encode call ends the poll, its output left for the next one, unless *)
(* it only handed over output it held.                                     *)
EndsWrite(r) == r.consumed > 0 \/ r.out = << >> \/ call.len = 0

Encode ==
    /\ Drained("write")
    /\ ~broken
    /\ \E r \in EncodeOutcomes(enc, call.len, SCRATCH) :
         /\ enc' = r.enc
         /\ out' = r.out
         /\ sync_flushed' = (sync_flushed /\ r.consumed = 0)
         /\ IF EndsWrite(r)
            THEN Return("ready") /\ reported' = reported + r.consumed
            ELSE UNCHANGED <<call, last, reported>>
    /\ UNCHANGED <<finished, closing, wire, broken>>

(* The last step of poll_flush is inner.poll_flush.                        *)
FlushReturns ==
    /\ Drained("flush")
    /\ \E how \in {"ready", "pending", "error"} : Return(how)
    /\ UNCHANGED <<enc, out, finished, sync_flushed, closing, wire, reported, broken>>

(* finish is called again by a re-poll that came back from a Pending drain *)
(* of the trailer itself: `finished` is set only once inner has it.        *)
Finish ==
    /\ Drained("shutdown")
    /\ ~finished
    /\ call.status # "StreamEnd"
    /\ ~broken
    /\ \E r \in FinishOutcomes(enc, SCRATCH) :
         /\ enc' = r.enc
         /\ out' = r.out
         /\ IF Stalled(r)
            THEN Return("error")
            ELSE call' = [call EXCEPT !.status = r.status] /\ UNCHANGED last
    /\ UNCHANGED <<finished, sync_flushed, closing, wire, reported, broken>>

FinishDone ==
    /\ Drained("shutdown")
    /\ ~finished
    /\ call.status = "StreamEnd"
    /\ finished' = TRUE
    /\ UNCHANGED <<enc, out, sync_flushed, closing, call, wire, reported, broken, last>>

(* The last step of poll_shutdown is inner.poll_shutdown.                  *)
ShutdownReturns(how) ==
    /\ Drained("shutdown")
    /\ finished
    /\ Return(how)
    /\ UNCHANGED <<enc, out, finished, sync_flushed, closing, wire, reported, broken>>

(* The codec returns Err: the poll passes it on at once, and the codec is  *)
(* of no further use.                                                      *)
CodecFails ==
    /\ \/ MustFlush
       \/ Drained("write")
       \/ Drained("shutdown") /\ ~finished /\ call.status # "StreamEnd"
    /\ broken' = TRUE
    /\ Return("error")
    /\ UNCHANGED <<enc, out, finished, sync_flushed, closing, wire, reported>>

-----------------------------------------------------------------------------
Caller == (\E n \in 0..MaxBytes : PollWrite(n)) \/ PollFlush \/ PollShutdown

Progress ==
    \/ \E n \in 1..Len(out) : InnerAccepts(n)
    \/ InnerRefuses
    \/ Flush \/ FlushReturns
    \/ Encode
    \/ Finish \/ FinishDone
    \/ \E how \in {"ready", "pending", "error"} : ShutdownReturns(how)

Next == Caller \/ Progress \/ CodecFails

(* A poll, once made, runs; a caller that has begun to shut down polls     *)
(* until that is done; and the inner writer does not refuse for ever.      *)
Spec ==
    /\ Init /\ [][Next]_vars
    /\ WF_vars(Progress)
    /\ WF_vars(closing /\ PollShutdown)
    /\ SF_vars(\E n \in 1..Len(out) : InnerAccepts(n))
    /\ SF_vars(ShutdownReturns("ready"))

-----------------------------------------------------------------------------
(* A poll_write that returns Pending or an error has taken nothing of its  *)
(* buffer, so that the caller may drop its future, or present other bytes, *)
(* without losing or repeating any (tokio_io.rs, poll_write).              *)
PendingTakesNothing ==
    call.op = "none" => reported = enc.taken

(* poll_flush may be polled any number of times: one flush of the caller   *)
(* leaves one sync marker in the stream (the doc of sync_flushed).         *)
OneMarkerPerFlush ==
    LET stream == wire \o out
        Marks  == {i \in DOMAIN stream : stream[i] = SyncMark}
    IN \A i \in Marks : i + 1 \notin Marks

(* A shutdown that is Ready(Ok) has put the whole stream there.            *)
ShutdownIsComplete ==
    last = [op |-> "shutdown", how |-> "ready"] =>
        /\ wire # << >> /\ wire[Len(wire)] = EndMark
        /\ \A k \in 1..reported : \E i \in DOMAIN wire : wire[i] = Byte(k)

(* A caller that keeps polling shutdown gets there, however often the      *)
(* inner writer is not ready or fails on the way.                          *)
ShutdownCompletes ==
    closing ~> broken \/ last = [op |-> "shutdown", how |-> "ready"]
=============================================================================
