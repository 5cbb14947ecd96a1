--------------------------- MODULE DecoderAdapters --------------------------
(***************************************************************************)
(* The four ways the crate drives a decoder for a caller: the blocking and *)
(* the tokio writer, the reader, and the one-shot call into a Vec.  A run  *)
(* picks one; all of them owe their caller the same, stated once here.     *)
(***************************************************************************)
EXTENDS DecoderCodec

CONSTANTS
    WriterHold,  \* StrictHold of the decoders given to io.rs's DecoderWriter
    SCRATCH,     \* size of the writers' and of vec.rs's scratch buffer
    IN_BUF,      \* size of the reader's in_buf
    Limits,      \* budgets of the one-shot call
    USIZE,       \* 2^w, for a usize of w bits
    MaxExtra,    \* bound: units that follow the stream in the input
    MaxRoom      \* bound: size of the buffers the caller reads into

ASSUME AdaptersAssumption ==
    /\ SCRATCH \in Nat \ {0} /\ IN_BUF \in Nat \ {0} /\ USIZE \in Nat \ {0}
    /\ WriterHold \in 0..SCRATCH
    /\ Limits \subseteq Nat /\ MaxExtra \in Nat /\ MaxRoom \in Nat

VARIABLES
    adapter,   \* "writer", "async_writer", "reader" or "vec"
    supply, dec, staged, out, finished, owned, closing, call, wire, reported, broken, last,
    size, pulled, in_filled, in_consumed, inner_eof, room, got, drained,
    lim, consumed, phase, error

vars == <<adapter, supply, dec, staged, out, finished, owned, closing, call, wire, reported,
          broken, last, size, pulled, in_filled, in_consumed, inner_eof, room, got, drained,
          lim, consumed, phase, error>>

W == INSTANCE DecoderWriter WITH StrictHold <- WriterHold
A == INSTANCE AsyncDecoderWriter
R == INSTANCE DecoderReader
V == INSTANCE VecDecode

(* The variables each adapter leaves alone.                                *)
NotOfW == <<adapter, out, closing, size, pulled, in_filled, in_consumed, inner_eof, room,
            got, drained, lim, consumed, phase, error>>
NotOfA == <<adapter, staged, owned, size, pulled, in_filled, in_consumed, inner_eof, room,
            got, drained, lim, consumed, phase, error>>
NotOfR == <<adapter, supply, staged, out, owned, closing, call, wire, reported, lim,
            consumed, phase, error>>
NotOfV == <<adapter, supply, dec, staged, finished, owned, closing, call, wire, reported,
            broken, last, pulled, in_filled, in_consumed, inner_eof, room, got, drained>>

(* What an adapter does not have keeps its first value.                     *)
Init ==
    \/ /\ adapter = "writer" /\ W!Init
       /\ out = 0 /\ closing = 0 /\ size = 0 /\ pulled = 0 /\ in_filled = 0
       /\ in_consumed = 0 /\ inner_eof = 0 /\ room = 0 /\ got = 0 /\ drained = 0
       /\ lim = 0 /\ consumed = 0 /\ phase = 0 /\ error = 0
    \/ /\ adapter = "async_writer" /\ A!Init
       /\ staged = 0 /\ owned = 0 /\ size = 0 /\ pulled = 0 /\ in_filled = 0
       /\ in_consumed = 0 /\ inner_eof = 0 /\ room = 0 /\ got = 0 /\ drained = 0
       /\ lim = 0 /\ consumed = 0 /\ phase = 0 /\ error = 0
    \/ /\ adapter = "reader" /\ R!Init
       /\ supply = 0 /\ staged = 0 /\ out = 0 /\ owned = 0 /\ closing = 0
       /\ call = 0 /\ wire = 0 /\ reported = 0 /\ lim = 0 /\ consumed = 0
       /\ phase = 0 /\ error = 0
    \/ /\ adapter = "vec" /\ V!Init
       /\ supply = 0 /\ dec = 0 /\ staged = 0 /\ finished = 0 /\ owned = 0
       /\ closing = 0 /\ call = 0 /\ wire = 0 /\ reported = 0 /\ broken = 0
       /\ last = 0 /\ pulled = 0 /\ in_filled = 0 /\ in_consumed = 0 /\ inner_eof = 0
       /\ room = 0 /\ got = 0 /\ drained = 0

OfW(Action) == adapter = "writer" /\ Action /\ UNCHANGED NotOfW
OfA(Action) == adapter = "async_writer" /\ Action /\ UNCHANGED NotOfA
OfR(Action) == adapter = "reader" /\ Action /\ UNCHANGED NotOfR
OfV(Action) == adapter = "vec" /\ Action /\ UNCHANGED NotOfV

(* The caller is done with the adapter.                                    *)
Over ==
    /\ CASE adapter = "writer" -> ~owned /\ call.op = "none"
         [] adapter = "async_writer" -> last = [op |-> "shutdown", how |-> "ready"]
         [] adapter = "reader" -> FALSE
         [] adapter = "vec" -> phase \in {"ok", "err"}
    /\ UNCHANGED vars

Next ==
    \/ Over
    \/ OfW(W!Next)
    \/ OfA(A!Next)
    \/ OfR(R!Next)
    \/ OfV(V!Next)

(* As in the modules of the adapters: what has been called runs, and a     *)
(* caller that has begun to shut down polls until that is done, over an    *)
(* inner writer that does not refuse for ever.                             *)
Spec ==
    /\ Init /\ [][Next]_vars
    /\ WF_vars(OfV(V!Next))
    /\ WF_vars(OfA(A!Progress))
    /\ WF_vars(OfA(closing /\ A!PollShutdown))
    /\ SF_vars(OfA(\E n \in 1..Len(out) : A!InnerAccepts(n)))
    /\ SF_vars(OfA(A!ShutdownReturns("ready")))

-----------------------------------------------------------------------------
(* write returns Err only when nothing of `buf` was taken.                 *)
NothingFedTwice == adapter = "writer" => W!NothingFedTwice

(* No adapter reports the end of a stream that was cut short, or before    *)
(* its plaintext is all handed over: not finish or poll_shutdown by Ok,    *)
(* not read by 0, not decompress_to_vec by returning a Vec.                *)
EndIsComplete ==
    CASE adapter = "writer" -> W!FinishIsComplete
      [] adapter = "async_writer" -> A!ShutdownIsComplete
      [] adapter = "reader" -> R!EofIsComplete
      [] adapter = "vec" -> V!OkIsComplete

(* None refuses a whole stream, although a strict decoder's finish fails   *)
(* while it owes output, and each calls it at a different point.           *)
WholeStreamNotRefused ==
    [][ /\ adapter = "writer" /\ W!Finish /\ dec.taken = StreamLen => ~broken'
        /\ adapter = "async_writer" /\ A!Finish /\ dec.taken = StreamLen => ~broken'
        /\ adapter = "reader" => R!WholeStreamNotRefused'
        /\ adapter = "vec" => V!WholeStreamDecodes' ]_vars

(* The reader hands over all it can before it asks for more input.         *)
NothingHeldBack ==
    [][ adapter = "reader" /\ (pulled' # pulled \/ R!RefillFails) /\ dec.eager =>
            dec.emitted = Expansion(dec.taken) ]_vars

(* OutputLimitExceeded is reported only of a stream beyond the budget.     *)
LimitErrorIsTrue == adapter = "vec" => V!LimitErrorIsTrue

(* poll_shutdown, polled on, and the one-shot calls come to an answer.     *)
Answered ==
    CASE adapter = "vec" -> phase \in {"ok", "err"}
      [] adapter = "async_writer" ->
             \/ broken
             \/ last = [op |-> "shutdown", how |-> "ready"]
             \/ last.how = "error" /\ dec.taken < StreamLen
      [] OTHER -> FALSE

Asked == adapter = "vec" \/ (adapter = "async_writer" /\ closing)

CallsAnswer == Asked ~> Answered

(* The plaintext handed over, as the far end of a pipe.                    *)
Pipeline == INSTANCE Pipe WITH
    taken     <- Expansion(IF adapter = "vec" THEN lim.dec.taken ELSE dec.taken),
    delivered <- CASE adapter = "reader" -> got
                   [] adapter = "vec" -> out
                   [] OTHER -> wire,
    closed    <- CASE adapter = "writer" -> dec.ended /\ staged = << >>
                   [] adapter = "async_writer" -> dec.ended /\ out = << >>
                   [] adapter = "reader" -> finished
                   [] adapter = "vec" -> phase = "ok"

(* Each is a pipe of plaintext that closes only with all the plaintext of  *)
(* a whole stream, whatever its peer refuses and its caller abandons.      *)
ImplementsPipe == Pipeline!Spec
=============================================================================
