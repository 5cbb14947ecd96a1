---------------------------- MODULE DecoderWriter ---------------------------
(***************************************************************************)
(* io.rs, DecoderWriter: a std::io::Write that decompresses what it is     *)
(* given and forwards the plaintext to an inner writer that may take any   *)
(* part of a write, fail it, and work again later.                         *)
(*                                                                         *)
(* The caller has `supply` units: a whole stream, one cut short, or one    *)
(* with units of something else after it.  Unlike the tokio adapter and    *)
(* the command line, finish() does not drain the decoder with empty-input  *)
(* decode calls before it calls the decoder's finish.                      *)
(***************************************************************************)
EXTENDS DecoderCodec

CONSTANTS
    SCRATCH,   \* size of the scratch buffer
    MaxExtra   \* bound: units that follow the stream in the caller's input

VARIABLES
    supply,    \* units the caller has to write
    dec,       \* the codec (its contract state)
    staged,    \* scratch[out_pos..out_len]: output inner has not accepted
    finished,  \* do_finish ran to its end
    owned,     \* the adapter still exists (finish and Drop consume it)
    call,      \* the adapter call in progress
    wire,      \* what the inner writer has accepted
    reported,  \* units the caller was told were taken
    broken,    \* the codec returned an error
    last       \* the call that returned last, and how

vars == <<supply, dec, staged, finished, owned, call, wire, reported, broken, last>>

Ops == {"none", "write", "flush", "finish", "drop"}

Idle == [op |-> "none", len |-> 0, consumed |-> 0, status |-> "none"]

CallState ==
    [op : Ops, len : Nat, consumed : Nat, status : Status \cup {"none"}]

Init ==
    /\ supply \in 0..(StreamLen + MaxExtra)
    /\ dec \in NewDecoders
    /\ staged = << >>
    /\ finished = FALSE
    /\ owned = TRUE
    /\ call = Idle
    /\ wire = << >>
    /\ reported = 0
    /\ broken = FALSE
    /\ last = [op |-> "none", ok |-> TRUE]

Begin(op, len) ==
    /\ call.op = "none"
    /\ owned
    /\ call' = [Idle EXCEPT !.op = op, !.len = len]
    /\ last' = [op |-> "none", ok |-> TRUE]
    /\ UNCHANGED <<supply, dec, staged, finished, wire, reported, broken>>

(* finish(mut self) drops self when it fails; Drop discards its result.    *)
Return(ok) ==
    /\ last' = [op |-> call.op, ok |-> ok]
    /\ reported' = IF call.op = "write" /\ ok THEN reported + call.consumed ELSE reported
    /\ call' = IF call.op = "finish" /\ ~ok
               THEN [Idle EXCEPT !.op = "drop"] ELSE Idle

-----------------------------------------------------------------------------
(* The caller: write and flush only while the adapter is its own.          *)

CallWrite(n) ==
    /\ reported + n <= supply
    /\ ~broken
    /\ Begin("write", n)
    /\ UNCHANGED owned

CallFlush == Begin("flush", 0) /\ UNCHANGED owned
CallFinish == Begin("finish", 0) /\ owned' = FALSE
CallDrop == Begin("drop", 0) /\ owned' = FALSE

-----------------------------------------------------------------------------
(* drain_pending, before the first codec call and after every one.         *)

Draining == call.op # "none" /\ staged # << >>

(* Bug: out_pos starts over when a write was partial.                      *)
UnsentFromStart(n) == IF n = Len(staged) THEN << >> ELSE staged

Unsent(n) == SubSeq(staged, n + 1, Len(staged))

InnerAccepts(n) ==
    /\ Draining
    /\ n \in 1..Len(staged)
    /\ wire' = wire \o SubSeq(staged, 1, n)
    /\ staged' = Unsent(n)
    /\ UNCHANGED <<supply, dec, finished, owned, call, reported, broken, last>>

(* Bug: the error is passed on although units were taken.                  *)
TakenForgotten == FALSE

TakenToReport == call.op = "write" /\ call.consumed > 0

InnerFails ==
    /\ Draining
    /\ Return(TakenToReport)
    /\ UNCHANGED <<supply, dec, staged, finished, owned, wire, broken>>

-----------------------------------------------------------------------------
(* The codec, called only with nothing left to drain.                      *)

(* Bug: the codec is called, or the call returns, over staged output.      *)
Undrained(op) == call.op = op

Drained(op) == call.op = op /\ staged = << >>

(* Bug: the codec is given the whole buffer again after a partial decode.  *)
WholeBuffer == call.len

Remaining == call.len - call.consumed

WriteMore == call.consumed < call.len /\ call.status \in {"none", "OutputFull"}

Decode ==
    /\ Drained("write")
    /\ WriteMore
    /\ ~broken
    /\ \E r \in DecodeOutcomes(dec, Remaining, SCRATCH) :
         /\ dec' = r.dec
         /\ staged' = r.out
         /\ call' = [call EXCEPT !.consumed = @ + r.consumed, !.status = r.status]
    /\ UNCHANGED <<supply, finished, owned, wire, reported, broken, last>>

WriteReturns ==
    /\ Drained("write")
    /\ ~WriteMore
    /\ Return(TRUE)
    /\ UNCHANGED <<supply, dec, staged, finished, owned, wire, broken>>

(* flush makes no codec call: it ends with inner.flush(), which may fail.  *)
FlushReturns ==
    /\ Drained("flush")
    /\ \E ok \in BOOLEAN : Return(ok)
    /\ UNCHANGED <<supply, dec, staged, finished, owned, wire, broken>>

Finishing == \E op \in {"finish", "drop"} : Drained(op)

(* The decoder's own error and the "decoder stalled" guard end the call.   *)
Finish ==
    /\ Finishing
    /\ ~finished
    /\ call.status # "StreamEnd"
    /\ ~broken
    /\ \E r \in FinishOutcomes(dec, SCRATCH) :
         IF r.ok
         THEN /\ dec' = r.dec
              /\ staged' = r.out
              /\ call' = [call EXCEPT !.status = r.status]
              /\ UNCHANGED <<reported, broken, last>>
         ELSE /\ broken' = TRUE
              /\ Return(FALSE)
              /\ UNCHANGED <<dec, staged>>
    /\ UNCHANGED <<supply, finished, owned, wire>>

FinishReturns ==
    /\ Finishing
    /\ call.status = "StreamEnd"
    /\ finished' = TRUE
    /\ Return(TRUE)
    /\ UNCHANGED <<supply, dec, staged, owned, wire, broken>>

(* The codec finds its input corrupt and is poisoned: every later call of  *)
(* it fails too.                                                           *)
CodecFails ==
    /\ \/ Drained("write") /\ WriteMore
       \/ Finishing /\ ~finished /\ call.status # "StreamEnd"
    /\ broken' = TRUE
    /\ Return(FALSE)
    /\ UNCHANGED <<supply, dec, staged, finished, owned, wire>>

-----------------------------------------------------------------------------
Caller == (\E n \in 0..supply : CallWrite(n)) \/ CallFlush \/ CallFinish \/ CallDrop

Adapter ==
    \/ \E n \in 1..Len(staged) : InnerAccepts(n)
    \/ InnerFails
    \/ Decode \/ WriteReturns
    \/ FlushReturns
    \/ Finish \/ FinishReturns
    \/ CodecFails

Next == Caller \/ Adapter

Spec == Init /\ [][Next]_vars

-----------------------------------------------------------------------------
(* The type invariant.                                                     *)
TypeOK ==
    /\ supply \in Nat
    /\ dec \in DecState
    /\ staged \in Seq(Nat)
    /\ finished \in BOOLEAN
    /\ owned \in BOOLEAN
    /\ call \in CallState
    /\ call.consumed <= call.len
    /\ wire \in Seq(Nat)
    /\ reported \in 0..supply
    /\ broken \in BOOLEAN
    /\ last \in [op : Ops, ok : BOOLEAN]

(* Between calls the caller has been told of every unit the decoder took,  *)
(* so that write returns Err only when nothing of `buf` was taken.         *)
NothingFedTwice ==
    call.op = "none" /\ ~broken => reported = dec.taken

(* finish() returns Ok exactly for a complete stream, all of whose         *)
(* plaintext is then at the inner writer: a truncated one is an error.     *)
FinishIsComplete ==
    last = [op |-> "finish", ok |-> TRUE] =>
        /\ reported = StreamLen
        /\ wire = BytesFrom(0, Expansion(StreamLen))

(* finish() is not refused for output the decoder still owes: with the     *)
(* whole stream written, only the inner writer or the codec's own error    *)
(* can keep it from completing.                                            *)
WholeStreamFinishes ==
    [][ Finish /\ dec.taken = StreamLen => ~broken' ]_vars

(* The plaintext the inner writer has accepted, as the far end of a pipe.  *)
Pipeline == INSTANCE Pipe WITH
    taken     <- Expansion(dec.taken),
    delivered <- wire,
    closed    <- dec.ended /\ staged = << >>

(* The adapter is a pipe of plaintext to the inner writer, which closes    *)
(* only with all the plaintext of a whole stream.                          *)
ImplementsPipe == Pipeline!Spec
=============================================================================
