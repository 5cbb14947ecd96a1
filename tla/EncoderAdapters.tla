--------------------------- MODULE EncoderAdapters --------------------------
(***************************************************************************)
(* The tokio writer and the reader over one encoder; io.rs's EncoderWriter *)
(* has a run of its own.  A run picks one of them.                         *)
(***************************************************************************)
EXTENDS EncoderCodec, FiniteSets

CONSTANTS
    SCRATCH,   \* size of the writer's scratch buffer
    IN_BUF,    \* size of the reader's in_buf
    MaxBytes,  \* bound: plaintext bytes the writer's caller has
    MaxInput,  \* bound: plaintext bytes the reader's inner reader has
    MaxRoom    \* bound: size of the buffers the reader's caller reads into

ASSUME AdaptersAssumption ==
    /\ SCRATCH \in Nat /\ IN_BUF \in Nat \ {0}
    /\ MaxBytes \in Nat /\ MaxInput \in Nat /\ MaxRoom \in Nat
(* io.rs takes an encoder that can do nothing with the caller's buffer to  *)
(* be impossible ("buf is the caller's slice, which they sized").          *)
ASSUME AnyRoomAssumption == Atom = 1

VARIABLES
    adapter,   \* "async_writer" or "reader"
    enc, out, finished, sync_flushed, closing, call, wire, reported, broken, last,
    size, pulled, in_buf, in_consumed, inner_eof, room, fed, got

vars == <<adapter, enc, out, finished, sync_flushed, closing, call, wire, reported, broken,
          last, size, pulled, in_buf, in_consumed, inner_eof, room, fed, got>>

A == INSTANCE AsyncEncoderWriter
R == INSTANCE EncoderReader WITH MaxBytes <- MaxInput

(* The variables each adapter leaves alone.                                *)
NotOfA == <<adapter, size, pulled, in_buf, in_consumed, inner_eof, room, fed, got>>
NotOfR == <<adapter, out, sync_flushed, closing, call, wire, reported>>

Init ==
    \/ /\ adapter = "async_writer" /\ A!Init
       /\ size = 0 /\ pulled = 0 /\ in_buf = 0 /\ in_consumed = 0
       /\ inner_eof = 0 /\ room = 0 /\ fed = 0 /\ got = 0
    \/ /\ adapter = "reader" /\ R!Init
       /\ out = 0 /\ sync_flushed = 0 /\ closing = 0 /\ call = 0 /\ wire = 0 /\ reported = 0

OfA(Action) == adapter = "async_writer" /\ Action /\ UNCHANGED NotOfA
OfR(Action) == adapter = "reader" /\ Action /\ UNCHANGED NotOfR

(* The writer's caller is done with it; a reader can be read for ever.     *)
IsShutDown == adapter = "async_writer" /\ last = [op |-> "shutdown", how |-> "ready"]

Over == IsShutDown /\ UNCHANGED vars

Next ==
    \/ Over
    \/ OfA(A!Next)
    \/ OfR(R!Next)

(* As in AsyncEncoderWriter: a poll runs, a caller that shuts down polls   *)
(* on, and the inner writer does not refuse for ever.                      *)
Spec ==
    /\ Init /\ [][Next]_vars
    /\ WF_vars(OfA(A!Progress))
    /\ WF_vars(OfA(closing /\ A!PollShutdown))
    /\ SF_vars(OfA(\E n \in 1..Len(out) : A!InnerAccepts(n)))
    /\ SF_vars(OfA(A!ShutdownReturns("ready")))

-----------------------------------------------------------------------------
(* A poll_write that is Pending or fails has taken nothing of its buffer.  *)
PendingTakesNothing == adapter = "async_writer" => A!PendingTakesNothing

(* One flush of the caller, however often polled, leaves one sync marker.  *)
OneMarkerPerFlush == adapter = "async_writer" => A!OneMarkerPerFlush

(* An inner reader that fails and is retried neither loses nor repeats a   *)
(* byte on its way to the codec.                                           *)
FedInOrder == adapter = "reader" => R!FedInOrder

(* poll_shutdown's Ready(Ok), and a read of 0 bytes, come only with the    *)
(* whole stream and its trailer handed over.                               *)
EndIsComplete ==
    /\ adapter = "async_writer" => A!ShutdownIsComplete
    /\ adapter = "reader" => R!EofIsComplete

(* A caller that keeps polling shutdown gets there, however often the      *)
(* inner writer is not ready or fails on the way.                          *)
ShutdownCompletes ==
    adapter = "async_writer" /\ closing ~>
        broken \/ IsShutDown

(* What was handed over, marks and all.                                    *)
Stream == IF adapter = "reader" THEN got ELSE wire

(* The bytes of s without its marks: the j-th is the byte at which there   *)
(* are j of them.                                                          *)
ByteAt(s, m) == {i \in 1..m : s[i].kind = "byte"}
Number(s, m) == Cardinality(ByteAt(s, m))
BytesOf(s) ==
    [j \in 1..Number(s, Len(s)) |->
        s[CHOOSE i \in ByteAt(s, Len(s)) : Number(s, i) = j].n]

Pipeline == INSTANCE Pipe WITH
    taken     <- enc.taken,
    delivered <- BytesOf(Stream),
    closed    <- \E i \in DOMAIN Stream : Stream[i] = EndMark

(* Both are pipes: the trailer follows every byte the codec took, and ends *)
(* the stream, whatever peers refuse and callers abandon.                  *)
ImplementsPipe == Pipeline!Spec
=============================================================================
