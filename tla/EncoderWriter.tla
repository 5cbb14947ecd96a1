---------------------------- MODULE EncoderWriter ---------------------------
(***************************************************************************)
(* io.rs, EncoderWriter: a std::io::Write that compresses what it is given *)
(* and forwards it to an inner writer that may take any part of a write,   *)
(* fail it, and work again later.                                          *)
(*                                                                         *)
(* One step is one call out of the adapter: to the codec, or to the inner  *)
(* writer.  The caller presents plaintext from the first byte it was not   *)
(* told was taken, so an Err that hides a taken byte makes it feed that    *)
(* byte again.  finish() and Drop consume the adapter; a finish() that     *)
(* fails drops it, which runs do_finish once more.                         *)
(***************************************************************************)
EXTENDS EncoderCodec

CONSTANTS
    SCRATCH,     \* size of the scratch buffer
    MaxBytes,    \* bound: plaintext bytes the caller has
    MaxFlushes   \* bound: flush() calls the caller makes

(* io.rs counts on SCRATCH >= Atom ("comfortably above the minimum-output  *)
(* sizes"); safety does not, and the stall guards are for when it fails.   *)
ASSUME ScratchAssumption == SCRATCH \in Nat
ASSUME BoundAssumption == MaxBytes \in Nat /\ MaxFlushes \in Nat

VARIABLES
    enc,       \* the codec (its contract state)
    staged,    \* scratch[out_pos..out_len]: output inner has not accepted
    finished,  \* do_finish ran to its end
    owned,     \* the adapter still exists (finish and Drop consume it)
    call,      \* the adapter call in progress
    wire,      \* what the inner writer has accepted
    reported,  \* plaintext bytes the caller was told were taken
    broken,    \* the codec returned an error
    last,      \* the call that returned last, and how
    flushes    \* flush() calls made so far

vars == <<enc, staged, finished, owned, call, wire, reported, broken, last, flushes>>

Ops == {"none", "write", "flush", "finish", "drop"}

(* `turn` flips at every codec call: a loop whose calls change nothing else *)
(* is then a run of the system, and not the system standing still.         *)
Idle == [op |-> "none", len |-> 0, consumed |-> 0, status |-> "none", turn |-> FALSE]

CallState ==
    [op : Ops, len : Nat, consumed : Nat, status : Status \cup {"none"}, turn : BOOLEAN]

Init ==
    /\ enc = NewEncoder
    /\ staged = << >>
    /\ finished = FALSE
    /\ owned = TRUE
    /\ call = Idle
    /\ wire = << >>
    /\ reported = 0
    /\ broken = FALSE
    /\ last = [op |-> "none", ok |-> TRUE]
    /\ flushes = 0

Begin(op, len) ==
    /\ call.op = "none"
    /\ owned
    /\ call' = [Idle EXCEPT !.op = op, !.len = len]
    /\ last' = [op |-> "none", ok |-> TRUE]
    /\ UNCHANGED <<enc, staged, finished, wire, reported, broken>>

(* How a call ends.  An Ok(n) of write is the only report of taken bytes;  *)
(* finish(mut self) hands out the inner writer on Ok and drops self on     *)
(* Err; whatever Drop's own do_finish returns is discarded.                *)
Return(ok) ==
    /\ last' = [op |-> call.op, ok |-> ok]
    /\ reported' = IF call.op = "write" /\ ok THEN reported + call.consumed ELSE reported
    /\ call' = IF call.op = "finish" /\ ~ok
               THEN [Idle EXCEPT !.op = "drop"] ELSE Idle

-----------------------------------------------------------------------------
(* The caller.                                                             *)

CallWrite(n) ==
    /\ reported + n <= MaxBytes
    /\ ~broken
    /\ Begin("write", n)
    /\ UNCHANGED <<owned, flushes>>

CallFlush ==
    /\ flushes < MaxFlushes
    /\ ~broken
    /\ flushes' = flushes + 1
    /\ Begin("flush", 0)
    /\ UNCHANGED owned

CallFinish == Begin("finish", 0) /\ owned' = FALSE /\ UNCHANGED flushes

CallDrop == Begin("drop", 0) /\ owned' = FALSE /\ UNCHANGED flushes

-----------------------------------------------------------------------------
(* drain_pending: every call starts with it, and runs it after every codec *)
(* call.  Interrupted leaves the state alone.                              *)

Draining == call.op # "none" /\ staged # << >>

(* Bug: out_pos starts over when a write was partial.                      *)
UnsentFromStart(n) == IF n = Len(staged) THEN << >> ELSE staged

Unsent(n) == SubSeq(staged, n + 1, Len(staged))

InnerAccepts(n) ==
    /\ Draining
    /\ n \in 1..Len(staged)
    /\ wire' = wire \o SubSeq(staged, 1, n)
    /\ staged' = Unsent(n)
    /\ UNCHANGED <<enc, finished, owned, call, reported, broken, last, flushes>>

(* The inner writer fails, or takes 0 bytes (WriteZero): write reports the *)
(* bytes the codec already took, every other call fails.                   *)
(* Bug: the error is passed on although bytes were taken.                  *)
TakenForgotten == FALSE

TakenToReport == call.op = "write" /\ call.consumed > 0

InnerFails ==
    /\ Draining
    /\ Return(TakenToReport)
    /\ UNCHANGED <<enc, staged, finished, owned, wire, broken, flushes>>

-----------------------------------------------------------------------------
(* The codec, called only with nothing left to drain.                      *)

(* Bug: the codec is called, or the call returns, over staged output.      *)
Undrained(op) == call.op = op

Drained(op) == call.op = op /\ staged = << >>

(* flush and finish give up on a codec that neither writes nor completes;  *)
(* write has no such guard.                                                *)
Stalled(r) == r.out = << >> /\ r.status = "OutputFull"

CodecReturns(r) ==
    /\ enc' = r.enc
    /\ staged' = r.out
    /\ IF Stalled(r)
       THEN Return(FALSE)
       ELSE /\ call' = [call EXCEPT !.status = r.status, !.turn = ~@]
            /\ UNCHANGED <<reported, last>>

(* Bug: the codec is given the whole buffer again after a partial encode.  *)
WholeBuffer == call.len

Remaining == call.len - call.consumed

WriteMore == call.consumed < call.len /\ call.status # "InputEmpty"

Encode ==
    /\ Drained("write")
    /\ WriteMore
    /\ ~broken
    /\ \E r \in EncodeOutcomes(enc, Remaining, SCRATCH) :
         /\ enc' = r.enc
         /\ staged' = r.out
         /\ call' = [call EXCEPT !.consumed = @ + r.consumed, !.status = r.status,
                                 !.turn = ~@]
    /\ UNCHANGED <<finished, owned, wire, reported, broken, last, flushes>>

WriteReturns ==
    /\ Drained("write")
    /\ ~WriteMore
    /\ Return(TRUE)
    /\ UNCHANGED <<enc, staged, finished, owned, wire, broken, flushes>>

(* Bug: one flush call, whatever its status.                               *)
FlushOnce == call.status = "none" /\ ~finished

FlushMore == call.status \in {"none", "OutputFull"} /\ ~finished

Flush ==
    /\ Drained("flush")
    /\ FlushMore
    /\ ~broken
    /\ \E r \in FlushOutcomes(enc, SCRATCH) : CodecReturns(r)
    /\ UNCHANGED <<finished, owned, wire, broken, flushes>>

(* The last step of flush is inner.flush(), which may fail too.            *)
FlushReturns ==
    /\ Drained("flush")
    /\ ~FlushMore
    /\ \E ok \in BOOLEAN : Return(ok)
    /\ UNCHANGED <<enc, staged, finished, owned, wire, broken, flushes>>

Finishing == \E op \in {"finish", "drop"} : Drained(op)

Finish ==
    /\ Finishing
    /\ ~finished
    /\ call.status # "StreamEnd"
    /\ ~broken
    /\ \E r \in FinishOutcomes(enc, SCRATCH) : CodecReturns(r)
    /\ UNCHANGED <<finished, owned, wire, broken, flushes>>

FinishReturns ==
    /\ Finishing
    /\ call.status = "StreamEnd"
    /\ finished' = TRUE
    /\ Return(TRUE)
    /\ UNCHANGED <<enc, staged, owned, wire, broken, flushes>>

(* The codec returns Err: the call passes it on at once, and the codec is  *)
(* of no further use (every later call of it fails again).                 *)
CodecFails ==
    /\ \/ Drained("write") /\ WriteMore
       \/ Drained("flush") /\ FlushMore
       \/ Finishing /\ ~finished /\ call.status # "StreamEnd"
    /\ broken' = TRUE
    /\ Return(FALSE)
    /\ UNCHANGED <<enc, staged, finished, owned, wire, flushes>>

-----------------------------------------------------------------------------
Caller == (\E n \in 0..MaxBytes : CallWrite(n)) \/ CallFlush \/ CallFinish \/ CallDrop

Adapter ==
    \/ \E n \in 1..Len(staged) : InnerAccepts(n)
    \/ InnerFails
    \/ Encode \/ WriteReturns
    \/ Flush \/ FlushReturns
    \/ Finish \/ FinishReturns
    \/ CodecFails

Next == Caller \/ Adapter

(* A call, once made, runs: the thread that made it keeps executing.       *)
Spec == Init /\ [][Next]_vars /\ WF_vars(Adapter)

-----------------------------------------------------------------------------
(* The type invariant.                                                     *)
TypeOK ==
    /\ enc \in EncState
    /\ staged \in Seq(Token)
    /\ finished \in BOOLEAN
    /\ owned \in BOOLEAN
    /\ call \in CallState
    /\ call.consumed <= call.len
    /\ wire \in Seq(Token)
    /\ reported \in Nat
    /\ broken \in BOOLEAN
    /\ last \in [op : Ops, ok : BOOLEAN]
    /\ flushes \in Nat

(* Everything the codec has handed over, accepted by inner or still staged.*)
stream == wire \o staged

InOrder(s) ==
    \A i, j \in DOMAIN s :
        i < j /\ s[i].kind = "byte" /\ s[j].kind = "byte" => s[i].n < s[j].n

Holds(s, m) == \A k \in 1..m : \E i \in DOMAIN s : s[i] = Byte(k)

EndsWith(s, mark) == s # << >> /\ s[Len(s)] = mark

(* Whatever inner accepts, refuses or half takes, and however often a call *)
(* is retried, the stream has each byte the codec emitted exactly once, in *)
(* order, and nothing follows the trailer: a failed write neither loses    *)
(* nor repeats output (io.rs, drain_pending and the staged scratch).       *)
NothingLostOrRepeated ==
    /\ InOrder(stream)
    /\ Holds(stream, enc.emitted)
    /\ \A i \in DOMAIN stream :
         /\ stream[i].kind = "byte" => stream[i].n <= enc.emitted
         /\ stream[i].kind = "end" => i = Len(stream) /\ enc.ended

(* The caller is never left to feed a byte the codec has already taken:    *)
(* between calls it has been told of every one, so write returns Err only  *)
(* when nothing of `buf` was taken (io.rs, write).                         *)
NothingFedTwice ==
    call.op = "none" /\ ~broken => reported = enc.taken

(* finish() returning Ok means the inner writer holds the whole stream:    *)
(* every byte the caller was told was taken, then one trailer.             *)
FinishIsComplete ==
    last = [op |-> "finish", ok |-> TRUE] =>
        /\ staged = << >>
        /\ Holds(wire, reported)
        /\ EndsWith(wire, EndMark)

(* flush() returning Ok means everything written so far is decodable by    *)
(* the peer: all of it is at the inner writer, closed by a sync marker.    *)
FlushIsComplete ==
    Flushes /\ last = [op |-> "flush", ok |-> TRUE] =>
        /\ staged = << >>
        /\ Holds(wire, reported)
        /\ EndsWith(wire, SyncMark)

(* Every call of the adapter returns: neither the drain loop nor a codec   *)
(* loop spins for ever, however little a codec call may get done.          *)
CallsReturn == call.op # "none" ~> call.op = "none"
=============================================================================
