---------------------------- MODULE DecoderReader ---------------------------
(***************************************************************************)
(* io.rs, DecoderReader: a std::io::Read that pulls a compressed stream    *)
(* from an inner reader, which may give any part of what was asked for or  *)
(* fail and work again later, and hands out the plaintext.  The tokio      *)
(* DecoderReader runs the same loop; there a Pending inner reader returns  *)
(* to the caller as a failing one does here.                               *)
(*                                                                         *)
(* The inner reader has `size` units: a whole stream, one cut short, or    *)
(* one with units of something else after it.                              *)
(***************************************************************************)
EXTENDS DecoderCodec

CONSTANTS
    IN_BUF,    \* size of in_buf
    MaxExtra,  \* bound: units that follow the stream
    MaxRoom    \* bound: size of the buffers the caller reads into

VARIABLES
    dec,          \* the codec (its contract state)
    size,         \* units the inner reader has
    pulled,       \* of these, units it has handed over
    in_filled,    \* units in in_buf
    in_consumed,  \* of these, units the codec has taken
    inner_eof,    \* the inner reader has returned 0
    finished,     \* the codec has reported StreamEnd
    room,         \* size of the caller's buffer; 0 between reads
    got,          \* the plaintext bytes handed to the caller
    drained,      \* this round's decode call is made and gave no output
    broken,       \* the codec returned an error
    last          \* how the last read returned

vars == <<dec, size, pulled, in_filled, in_consumed, inner_eof, finished, room,
          got, drained, broken, last>>

Init ==
    /\ dec \in NewDecoders
    /\ size \in 0..(StreamLen + MaxExtra)
    /\ pulled = 0
    /\ in_filled = 0
    /\ in_consumed = 0
    /\ inner_eof = FALSE
    /\ finished = FALSE
    /\ room = 0
    /\ got = << >>
    /\ drained = FALSE
    /\ broken = FALSE
    /\ last = "none"

Reading == room > 0

(* A read into an empty buffer returns 0 at once and is left out.          *)
CallRead(n) ==
    /\ ~Reading
    /\ room' = n
    /\ last' = "none"
    /\ UNCHANGED <<dec, size, pulled, in_filled, in_consumed, inner_eof, finished,
                   got, drained, broken>>

(* Every read starts with a round of its own.                              *)
Return(how) == room' = 0 /\ last' = how /\ drained' = FALSE

FinishedRead ==
    /\ Reading
    /\ finished
    /\ Return("eof")
    /\ UNCHANGED <<dec, size, pulled, in_filled, in_consumed, inner_eof, finished,
                   got, broken>>

-----------------------------------------------------------------------------
(* The codec, over what the buffer holds.                                  *)

Buffered == in_filled - in_consumed

(* Bug: the codec is not called when the buffer holds nothing for it.      *)
OnlyWithInput == Reading /\ ~finished /\ ~drained /\ ~broken /\ Buffered > 0

(* decode is called in every round, even with nothing to give it.          *)
MayDecode == Reading /\ ~finished /\ ~drained /\ ~broken

Decode ==
    /\ MayDecode
    /\ \E r \in DecodeOutcomes(dec, Buffered, room) :
         LET pending == in_consumed + r.consumed < in_filled IN
         /\ dec' = r.dec
         /\ in_consumed' = in_consumed + r.consumed
         /\ got' = got \o r.out
         /\ finished' = (r.status = "StreamEnd")
         /\ IF r.out # << >> THEN Return("data")
            ELSE IF r.status = "StreamEnd" THEN Return("eof")
            ELSE IF ~pending THEN drained' = TRUE /\ UNCHANGED <<room, last>>
            ELSE IF r.consumed > 0 THEN UNCHANGED <<room, last, drained>>
            ELSE Return("error")
    /\ UNCHANGED <<size, pulled, in_filled, inner_eof, broken>>

(* The round has come to the end of the buffered input.                    *)
Wanting == Reading /\ ~finished /\ ~broken /\ ~MayDecode

(* Bug: a stream that ends early looks like the end of the file.           *)
SilentEnd == "eof"

(* How a read ends when finish neither writes nor reports StreamEnd.       *)
Truncated == "truncated"

Finish ==
    /\ Wanting
    /\ inner_eof
    /\ \E r \in FinishOutcomes(dec, room) :
         IF r.ok
         THEN /\ dec' = r.dec
              /\ got' = got \o r.out
              /\ finished' = (r.status = "StreamEnd")
              /\ Return(IF r.out # << >> THEN "data" ELSE "eof")
              /\ UNCHANGED broken
         ELSE /\ Return(Truncated)
              /\ broken' = dec.strict
              /\ UNCHANGED <<dec, got, finished>>
    /\ UNCHANGED <<size, pulled, in_filled, in_consumed, inner_eof>>

(* The codec finds its input corrupt and is poisoned: every later call of  *)
(* it fails too.                                                           *)
CodecFails ==
    /\ Reading
    /\ ~finished
    /\ broken' = TRUE
    /\ Return("error")
    /\ UNCHANGED <<dec, size, pulled, in_filled, in_consumed, inner_eof, finished, got>>

-----------------------------------------------------------------------------
(* The inner reader.                                                       *)

(* It gives some of what it has, and 0 bytes only at its end; a new round  *)
(* follows.                                                                *)
Refill(n) ==
    /\ Wanting
    /\ ~inner_eof
    /\ n \in 0..(size - pulled)
    /\ n = 0 <=> pulled = size
    /\ pulled' = pulled + n
    /\ in_filled' = n
    /\ in_consumed' = 0
    /\ inner_eof' = (n = 0)
    /\ drained' = FALSE
    /\ UNCHANGED <<dec, size, finished, room, got, broken, last>>

RefillFails ==
    /\ Wanting
    /\ ~inner_eof
    /\ Return("error")
    /\ UNCHANGED <<dec, size, pulled, in_filled, in_consumed, inner_eof, finished, got,
                   broken>>

-----------------------------------------------------------------------------
Adapter ==
    \/ FinishedRead
    \/ Decode
    \/ Finish
    \/ CodecFails
    \/ \E n \in 0..IN_BUF : Refill(n)
    \/ RefillFails

Next == (\E n \in 1..MaxRoom : CallRead(n)) \/ Adapter

Spec == Init /\ [][Next]_vars

-----------------------------------------------------------------------------
(* A read returns 0 only when the whole stream was decoded and handed      *)
(* over: a stream cut short ends in UnexpectedEnd, never in a clean end    *)
(* of file (io.rs, "would look like a clean EOF").                         *)
EofIsComplete ==
    last = "eof" =>
        /\ dec.taken = StreamLen
        /\ got = BytesFrom(0, Expansion(StreamLen))

(* A whole stream is never refused as truncated, in whatever pieces it     *)
(* comes and however little of it fits the caller's buffer, although a     *)
(* strict decoder's finish fails when it still owes output.                *)
WholeStreamNotRefused == size >= StreamLen => last # "truncated"

(* The inner reader is asked for more only when the codec has handed over  *)
(* all it can: output is not kept from the caller until more input comes,  *)
(* which it may not while the peer waits for an answer (tokio_io.rs,       *)
(* DecoderReader::poll_read).                                              *)
NothingHeldBack ==
    [][ (pulled' # pulled \/ RefillFails) /\ dec.eager =>
          dec.emitted = Expansion(dec.taken) ]_vars
=============================================================================
