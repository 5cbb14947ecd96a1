----------------------------- MODULE CodecCall ------------------------------
(***************************************************************************)
(* One run of a streaming codec, as io.rs and the tests drive it: encode   *)
(* calls with input chunks of any size and output buffers of any size,     *)
(* finish calls until done, then the same with a decoder over the encoded  *)
(* bytes or over a prefix of them; or a decoder alone over any bytes.  A   *)
(* codec module says what one turn of the loop inside a call does; the     *)
(* modules of the formats share the variables below.                       *)
(***************************************************************************)
EXTENDS Naturals, SequencesExt

CONSTANTS
    Chunks,     \* bound: sizes of a call's input, beside all there is
    Rooms,      \* bound: sizes of its output buffer
    Truncated,  \* bound: the formats whose encoded streams are also cut short
    ByteBits    \* bits of a byte: 8

ASSUME CallAssumption == Chunks \subseteq Nat /\ Rooms \subseteq Nat /\ ByteBits \in Nat \ {0}

VARIABLES
    format,   \* the codec of this run
    plain,    \* the plaintext
    given,    \* the decoder's input: the whole encoded stream, a prefix, or any bytes
    phase,    \* what the caller is at
    state,    \* the codec's own state
    src,      \* input of the phase: plaintext, then encoded bytes
    pos,      \* bytes of it consumed
    avail,    \* end of the input slice of the current call
    room,     \* output room the current call has left
    out,      \* output of the phase
    calling   \* the caller is inside a call

vars == <<format, plain, given, phase, state, src, pos, avail, room, out, calling>>

Smaller(a, b) == IF a < b THEN a ELSE b
Larger(a, b) == IF a < b THEN b ELSE a
After(s, n) == SubSeq(s, n + 1, Len(s))
LastBytes(s, n) == After(s, IF Len(s) > n THEN Len(s) - n ELSE 0)

(* A turn of the loop: consume `take` bytes, produce `put`.                *)
Turn(s, take, put) ==
    /\ Len(put) <= room
    /\ state' = s
    /\ pos' = pos + take
    /\ out' = out \o put
    /\ room' = room - Len(put)
    /\ UNCHANGED <<format, plain, given, phase, src, avail, calling>>

Continue(s) == Turn(s, 0, << >>)

(* The call returns with done = false.                                     *)
Return(s, put) ==
    /\ Len(put) <= room
    /\ state' = s
    /\ out' = out \o put
    /\ room' = room - Len(put)
    /\ calling' = FALSE
    /\ UNCHANGED <<format, plain, given, phase, src, pos, avail>>

(* finish returns done = true: on with decoding, of all or part of it.     *)
EncodeDone(s, newDecoder) ==
    \E cut \in (IF format \in Truncated THEN 0 ELSE Len(out))..Len(out) :
        /\ state' = newDecoder
        /\ src' = SubSeq(out, 1, cut)
        /\ given' = IF cut = Len(out) THEN "whole" ELSE "prefix"
        /\ phase' = "decode"
        /\ out' = << >>
        /\ pos' = 0 /\ avail' = 0 /\ room' = 0
        /\ calling' = FALSE
        /\ UNCHANGED <<format, plain>>

DecodeDone ==
    /\ phase' = "ok"
    /\ calling' = FALSE
    /\ UNCHANGED <<format, plain, given, state, src, pos, avail, room, out>>

(* raw_decode returns with done = true and its last output.                *)
End(s, put) ==
    /\ Len(put) <= room
    /\ state' = s
    /\ out' = out \o put
    /\ room' = room - Len(put)
    /\ phase' = "ok"
    /\ calling' = FALSE
    /\ UNCHANGED <<format, plain, given, src, pos, avail>>

(* The call returns an error.                                              *)
Fail ==
    /\ phase' = "failed"
    /\ calling' = FALSE
    /\ UNCHANGED <<format, plain, given, state, src, pos, avail, room, out>>

NoInput == pos = avail
NoRoom == room = 0
NextByte == src[pos + 1]

Copies(b, n) == [i \in 1..n |-> b]

(* Emit what fits of n copies of b; `after[k]` is the state with k of them *)
(* left.                                                                   *)
EmitCopies(b, n, after) ==
    Turn(after[n - Smaller(n, room)], 0, Copies(b, Smaller(n, room)))

-----------------------------------------------------------------------------
(* The caller: it passes a chunk of any size, the empty one included when  *)
(* draining a decoder, and goes to finish once a call leaves no input and  *)
(* room to spare.                                                          *)
Call(n, cap) ==
    /\ ~calling
    /\ phase \in {"encode", "decode"}
    /\ pos + n <= Len(src)
    /\ calling' = TRUE
    /\ avail' = pos + n
    /\ room' = cap
    /\ UNCHANGED <<format, plain, given, phase, state, src, pos, out>>

(* The bridge's InputEmpty at the end of the input: an encoder took it     *)
(* all, a decoder also left some of the buffer unused.                     *)
InputEmpty ==
    /\ pos = Len(src)
    /\ phase = "encode" \/ room > 0

CallFinish(cap) ==
    /\ ~calling
    /\ \/ phase \in {"encode", "decode"} /\ InputEmpty
       \/ phase \in {"encode_finish", "decode_finish"}
    /\ phase' = (CASE phase = "encode" -> "encode_finish"
                   [] phase = "decode" -> "decode_finish"
                   [] OTHER -> phase)
    /\ calling' = TRUE
    /\ avail' = pos
    /\ room' = cap
    /\ UNCHANGED <<format, plain, given, state, src, pos, out>>

(* A flush is called with the same kind until it is done; an encoder is    *)
(* asked for `most` of them.                                               *)
CallFlush(kind, cap, most) ==
    /\ ~calling
    /\ \/ phase = "encode" /\ state.asked < most
       \/ phase = "flush" /\ state.kind = kind
    /\ state' = [state EXCEPT !.kind = kind, !.asked = IF phase = "encode" THEN @ + 1 ELSE @]
    /\ phase' = "flush"
    /\ calling' = TRUE
    /\ avail' = pos
    /\ room' = cap
    /\ UNCHANGED <<format, plain, given, src, pos, out>>

(* The flush returns with done = true: back to encoding.                   *)
FlushDone(s, put) ==
    /\ Len(put) <= room
    /\ state' = s
    /\ out' = out \o put
    /\ room' = room - Len(put)
    /\ phase' = "encode"
    /\ calling' = FALSE
    /\ UNCHANGED <<format, plain, given, src, pos, avail>>

FlushEnds == calling /\ phase = "flush" /\ phase' = "encode"

Encoding == given = "plain"

(* raw_reset, between two calls and after an error or the end: the caller  *)
(* starts over with the same input.                                        *)
Reset(fresh) ==
    /\ ~calling
    /\ state' = fresh
    /\ phase' = IF Encoding THEN "encode" ELSE "decode"
    /\ out' = << >>
    /\ pos' = 0 /\ avail' = 0 /\ room' = 0
    /\ UNCHANGED <<format, plain, given, src, calling>>

CallerWith(rooms) ==
    \E cap \in rooms :
        \/ \E n \in Chunks \cup {Len(src) - pos} : Call(n, cap)
        \/ CallFinish(cap)

Caller == CallerWith(Rooms)

-----------------------------------------------------------------------------
(* The encoders that keep encoded bytes in a queue (`pending` from `head`  *)
(* on) drain it before anything else, and take a byte only when it is      *)
(* empty; `fed` is the state that byte leads to.                           *)
DrainPending ==
    /\ state.pending # << >> /\ ~NoRoom
    /\ LET n == Smaller(Len(state.pending), room) IN
       Turn([state EXCEPT !.pending = SubSeq(@, n + 1, Len(@))], 0, SubSeq(state.pending, 1, n))

QueueEncode(fed) ==
    \/ DrainPending
    \/ state.pending # << >> /\ NoRoom /\ Return(state, << >>)
    \/ state.pending = << >> /\ NoInput /\ Return(state, << >>)
    \/ state.pending = << >> /\ ~NoInput /\ Turn(fed, 1, << >>)

QueueFinish(final, newDecoder) ==
    \/ ~state.finished /\ Turn([final EXCEPT !.finished = TRUE], 0, << >>)
    \/ state.finished /\ DrainPending
    \/ state.finished /\ state.pending # << >> /\ NoRoom /\ Return(state, << >>)
    \/ state.finished /\ state.pending = << >> /\ EncodeDone(state, newDecoder)

-----------------------------------------------------------------------------
(* Encoders and decoders that only collect until finish, and work then.    *)
Take(n) == SubSeq(src, pos + 1, pos + n)

Collect ==
    \/ NoInput /\ Return(state, << >>)
    \/ ~NoInput /\ Turn([state EXCEPT !.raw = @ \o Take(avail - pos)], avail - pos, << >>)

HandOut(Finished) ==
    \/ DrainPending
    \/ state.pending # << >> /\ NoRoom /\ Return(state, << >>)
    \/ state.pending = << >> /\ Finished

CollectedFinish(Built(_), newDecoder) ==
    \/ ~state.finished /\ \E b \in Built(state) : Turn([b EXCEPT !.finished = TRUE], 0, << >>)
    \/ state.finished /\ HandOut(EncodeDone(state, newDecoder))

(* Of the bytes collected, `Meant` is the result.                          *)
CollectedDecodeFinish(Meant(_)) ==
    \/ /\ ~state.finished
       /\ LET r == Meant(state.raw) IN
          IF r.ok THEN Turn([state EXCEPT !.finished = TRUE, !.pending = r.out], 0, << >>) ELSE Fail
    \/ state.finished /\ HandOut(DecodeDone)

-----------------------------------------------------------------------------
(* Bytes as bits and the fields packed into them, low bits first (bits.rs  *)
(* and the codecs' own readers and writers).                               *)
Bits(v, n) == [i \in 1..n |-> (v \div 2^(i - 1)) % 2]
Value(bits) == FoldRight(LAMBDA b, v : b + 2 * v, bits, 0)
Chunk(bits, i) == Value(SubSeq(bits, (i - 1) * ByteBits + 1, i * ByteBits))

BitsOf(bytes) ==
    [i \in 1..(Len(bytes) * ByteBits) |->
        Bits(bytes[((i - 1) \div ByteBits) + 1], ByteBits)[((i - 1) % ByteBits) + 1]]

(* The whole bytes of a string of bits, and the bits left over.            *)
WholeBytes(bits) == [i \in 1..(Len(bits) \div ByteBits) |-> Chunk(bits, i)]
LeftOver(bits) == SubSeq(bits, (Len(bits) \div ByteBits) * ByteBits + 1, Len(bits))

(* Zeros up to the next byte.                                              *)
Aligned(bits) == bits \o [i \in 1..((ByteBits - (Len(bits) % ByteBits)) % ByteBits) |-> 0]

-----------------------------------------------------------------------------
(* What the runs state of every codec.                                     *)
Decoding == phase \in {"decode", "decode_finish", "ok", "failed"}

(* What was encoded comes back, and nothing else, however the calls are    *)
(* cut; a stream cut short gives a prefix of the plaintext and never an    *)
(* error unless it was cut.                                                *)
RoundTrip ==
    Decoding /\ given # "any" =>
        /\ IsPrefix(out, plain)
        /\ phase = "ok" /\ given = "whole" => out = plain
        /\ phase = "failed" => given = "prefix"

(* The decoder hands over what the format's description says of its input, *)
(* in order, and fails exactly for what is malformed or ends early.        *)
Follows(meaning) ==
    Decoding =>
        /\ IsPrefix(out, meaning.bytes)
        /\ phase = "ok" => meaning.ok /\ out = meaning.bytes
        /\ phase = "failed" => ~meaning.ok

(* A call that returns without an error or an end has no output room left, *)
(* unless it took all of its input and, decoding, owes nothing either.     *)
StopsOnlyForRoom(owes) ==
    calling /\ ~calling' /\ phase' = phase =>
        \/ room' = 0
        \/ phase = "encode" /\ pos' = avail
        \/ phase = "decode" /\ pos' = avail /\ ~owes'
=============================================================================
