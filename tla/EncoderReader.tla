---------------------------- MODULE EncoderReader ---------------------------
(***************************************************************************)
(* io.rs, EncoderReader: a std::io::Read that pulls plaintext from an      *)
(* inner reader, which may give any part of what was asked for or fail and *)
(* work again later, and hands out the compressed stream.  The tokio       *)
(* EncoderReader runs the same loop; there a Pending inner reader returns  *)
(* to the caller as a failing one does here.                               *)
(*                                                                         *)
(* One step is one call out of the adapter: to the inner reader, or to the *)
(* codec, which writes straight into the caller's buffer.                  *)
(***************************************************************************)
EXTENDS EncoderCodec

CONSTANTS
    IN_BUF,    \* size of in_buf
    MaxBytes,  \* bound: plaintext bytes the inner reader has
    MaxRoom    \* bound: size of the buffers the caller reads into

VARIABLES
    enc,          \* the codec (its contract state)
    size,         \* plaintext bytes the inner reader has
    pulled,       \* of these, bytes it has handed over
    in_buf,       \* in_buf[..in_filled]: plaintext bytes, by position
    in_consumed,  \* of these, bytes the codec has taken
    inner_eof,    \* the inner reader has returned 0
    finished,     \* the codec's finish has reported StreamEnd
    room,         \* size of the caller's buffer; 0 between reads
    fed,          \* history: the plaintext bytes the codec was given
    got,          \* the tokens handed to the caller
    broken,       \* the codec returned an error
    last          \* how the last read returned

vars == <<enc, size, pulled, in_buf, in_consumed, inner_eof, finished, room, fed,
          got, broken, last>>

Init ==
    /\ enc = NewEncoder
    /\ size \in 0..MaxBytes
    /\ pulled = 0
    /\ in_buf = << >>
    /\ in_consumed = 0
    /\ inner_eof = FALSE
    /\ finished = FALSE
    /\ room = 0
    /\ fed = << >>
    /\ got = << >>
    /\ broken = FALSE
    /\ last = "none"

Reading == room > 0

(* A read into an empty buffer returns 0 at once and is left out.          *)
CallRead(n) ==
    /\ ~Reading
    /\ room' = n
    /\ last' = "none"
    /\ UNCHANGED <<enc, size, pulled, in_buf, in_consumed, inner_eof, finished, fed,
                   got, broken>>

Return(how) == room' = 0 /\ last' = how

FinishedRead ==
    /\ Reading
    /\ finished
    /\ Return("eof")
    /\ UNCHANGED <<enc, size, pulled, in_buf, in_consumed, inner_eof, finished, fed,
                   got, broken>>

-----------------------------------------------------------------------------
(* The codec, over what the buffer holds.                                  *)

Buffered == SubSeq(in_buf, in_consumed + 1, Len(in_buf))

(* A call without output ends the read (as 0 bytes, which is what an end   *)
(* of file looks like) only for want of room.                              *)
Encode ==
    /\ Reading
    /\ ~finished
    /\ ~broken
    /\ in_consumed < Len(in_buf)
    /\ \E r \in EncodeOutcomes(enc, Len(Buffered), room) :
         /\ enc' = r.enc
         /\ in_consumed' = in_consumed + r.consumed
         /\ fed' = fed \o SubSeq(Buffered, 1, r.consumed)
         /\ got' = got \o r.out
         /\ IF r.out # << >> THEN Return("data")
            ELSE IF r.status = "OutputFull" THEN Return("eof")
            ELSE UNCHANGED <<room, last>>
    /\ UNCHANGED <<size, pulled, in_buf, inner_eof, finished, broken>>

(* Bug: one finish call, whatever its status.                              *)
FinishOnce(r) == TRUE

StreamEnded(r) == r.status = "StreamEnd"

Exhausted == Reading /\ ~finished /\ in_consumed = Len(in_buf)

Finish ==
    /\ Exhausted
    /\ inner_eof
    /\ ~broken
    /\ \E r \in FinishOutcomes(enc, room) :
         /\ enc' = r.enc
         /\ finished' = StreamEnded(r)
         /\ got' = got \o r.out
         /\ Return(IF r.out # << >> THEN "data" ELSE "eof")
    /\ UNCHANGED <<size, pulled, in_buf, in_consumed, inner_eof, fed, broken>>

CodecFails ==
    /\ Reading
    /\ ~finished
    /\ in_consumed < Len(in_buf) \/ inner_eof
    /\ broken' = TRUE
    /\ Return("error")
    /\ UNCHANGED <<enc, size, pulled, in_buf, in_consumed, inner_eof, finished, fed, got>>

-----------------------------------------------------------------------------
(* The inner reader.                                                       *)

(* It gives some of what it has, and 0 bytes only at its end.              *)
Refill(n) ==
    /\ Exhausted
    /\ ~inner_eof
    /\ n \in 0..(size - pulled)
    /\ n = 0 <=> pulled = size
    /\ pulled' = pulled + n
    /\ in_buf' = [i \in 1..n |-> pulled + i]
    /\ in_consumed' = 0
    /\ inner_eof' = (n = 0)
    /\ UNCHANGED <<enc, size, finished, room, fed, got, broken, last>>

(* Bug: the cursor is set before the read it is for has succeeded.         *)
CursorReset == 0

CursorAfterFailure == in_consumed

RefillFails ==
    /\ Exhausted
    /\ ~inner_eof
    /\ in_consumed' = CursorAfterFailure
    /\ Return("error")
    /\ UNCHANGED <<enc, size, pulled, in_buf, inner_eof, finished, fed, got, broken>>

-----------------------------------------------------------------------------
Adapter ==
    \/ FinishedRead
    \/ Encode
    \/ Finish
    \/ CodecFails
    \/ \E n \in 0..IN_BUF : Refill(n)
    \/ RefillFails

Next == (\E n \in 1..MaxRoom : CallRead(n)) \/ Adapter

Spec == Init /\ [][Next]_vars

-----------------------------------------------------------------------------
(* The codec is fed the inner reader's bytes each once and in order, and   *)
(* what it was not fed is still in the buffer: an inner reader that fails  *)
(* and is retried neither loses a byte nor replays the old buffer (io.rs,  *)
(* "the retry would replay stale bytes").                                  *)
FedInOrder ==
    /\ \A i \in DOMAIN fed : fed[i] = i
    /\ Len(fed) = enc.taken
    /\ pulled = Len(fed) + Len(Buffered)

(* A read returns 0 only when the inner reader is exhausted and the whole  *)
(* stream, trailer included, has been handed over (the doc of              *)
(* EncoderReader: "the natural EOF signal").                               *)
EofIsComplete ==
    last = "eof" => got = BytesFrom(0, size) \o <<EndMark>>
=============================================================================
