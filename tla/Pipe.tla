-------------------------------- MODULE Pipe --------------------------------
(***************************************************************************)
(* What every streaming adapter promises, whatever its codec buffers, its  *)
(* peers refuse and its caller retries: it hands over the bytes it took,   *)
(* each once and in order, none before it was taken, and it closes only    *)
(* with all of them handed over.                                           *)
(***************************************************************************)
EXTENDS Naturals, Sequences

VARIABLES
    taken,      \* bytes the adapter has taken: bytes 1..taken
    delivered,  \* the bytes it has handed over
    closed      \* the end of the stream has been handed over

Init == taken = 0 /\ delivered = << >> /\ closed = FALSE

Following(n) == [i \in 1..n |-> Len(delivered) + i]

Move ==
    /\ ~closed
    /\ taken' \in Nat /\ taken' >= taken
    /\ \E n \in 0..(taken' - Len(delivered)) : delivered' = delivered \o Following(n)
    /\ closed' \in BOOLEAN /\ (closed' => Len(delivered') = taken')

Spec == Init /\ [][Move]_<<taken, delivered, closed>>
=============================================================================
