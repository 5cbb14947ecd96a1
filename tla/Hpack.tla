-------------------------------- MODULE Hpack -------------------------------
(***************************************************************************)
(* hpack/: the HpackEncoder and the HpackDecoder of an HTTP/2 connection,  *)
(* each with a dynamic table that only stays useful while the two agree.   *)
(* One step is one turn of the loop of encode or of decode: one header     *)
(* field, or one representation of the block.  The connection is ordered   *)
(* and reliable, and the encoder may be any number of blocks ahead.        *)
(*                                                                         *)
(* Names and values are numbers; a value is also its length and a name is  *)
(* one byte long.                                                          *)
(***************************************************************************)
EXTENDS Naturals, Sequences, SequencesExt, FiniteSetsExt

CONSTANTS
    Fields,       \* header fields the application sends
    StaticTable,  \* the static table, a sequence of entries
    DefaultSize,  \* DEFAULT_TABLE_SIZE
    Sizes,        \* max of with_max_table_size that may be used
    DecoderSize,  \* max_table_size of the decoder
    MaxList,      \* max_header_list_size of the decoder
    MaxFields,    \* bound: fields encoded
    MaxBlocks     \* bound: blocks begun

ASSUME FieldAssumption == Fields \subseteq [name : Nat, value : Nat, sensitive : BOOLEAN]
ASSUME StaticAssumption == StaticTable \in Seq([name : Nat, value : Nat])
ASSUME SizeAssumption ==
    DefaultSize \in Nat /\ DecoderSize \in Nat /\ Sizes \subseteq 0..DecoderSize
ASSUME BoundAssumption == MaxList \in Nat /\ MaxFields \in Nat /\ MaxBlocks \in Nat

VARIABLES
    enc,      \* the encoder's dynamic table
    update,   \* pending_size_update
    inBlock,  \* encode is between its first and last field
    wire,     \* representations sent and not yet decoded
    dec,      \* the decoder's dynamic table
    used,     \* what decode has charged for the block so far
    failed,   \* decode returned an error: the connection is over
    fields,   \* fields encoded so far
    blocks    \* blocks begun so far

vars == <<enc, update, inBlock, wire, dec, used, failed, fields, blocks>>

EntryOverhead == 32

EntrySize(e) == 1 + e.value + EntryOverhead

Entry(f) == [name |-> f.name, value |-> f.value]

TotalSize(entries) == FoldLeft(LAMBDA sum, e : sum + EntrySize(e), 0, entries)

(* The newest entries that fit, with `incoming` bytes kept free.           *)
EvictToFit(entries, max, incoming) ==
    LET fits == {k \in 0..Len(entries) : TotalSize(SubSeq(entries, 1, k)) + incoming <= max}
    IN SubSeq(entries, 1, Max({0} \cup fits))

SetMaxSize(t, max) == [max |-> max, entries |-> EvictToFit(t.entries, max, 0)]

(* An entry larger than the whole table leaves it empty.                   *)
Insert(t, e) ==
    LET room == EvictToFit(t.entries, t.max, EntrySize(e)) IN
    [t EXCEPT !.entries = IF EntrySize(e) <= t.max THEN <<e>> \o room ELSE room]

(* The combined index space: static entries, then dynamic, newest first.   *)
Indexed(t) == StaticTable \o t.entries

(* The lowest index with this entry, or with this name; 0 for none.        *)
Lowest(indices) == IF indices = {} THEN 0 ELSE Min(indices)

FullMatch(t, f) == Lowest({i \in DOMAIN Indexed(t) : Indexed(t)[i] = Entry(f)})

NameMatch(t, f) == Lowest({i \in DOMAIN Indexed(t) : Indexed(t)[i].name = f.name})

(* An encoder made by `new` announces no size: it is for a decoder of the  *)
(* default size.                                                           *)
Init ==
    /\ \/ /\ DecoderSize = DefaultSize
          /\ enc = [max |-> DefaultSize, entries |-> << >>]
          /\ update = {}
       \/ \E max \in Sizes : enc = [max |-> max, entries |-> << >>] /\ update = {max}
    /\ inBlock = FALSE
    /\ wire = << >>
    /\ dec = [max |-> DecoderSize, entries |-> << >>]
    /\ used = 0
    /\ failed = "none"
    /\ fields = 0
    /\ blocks = 0

-----------------------------------------------------------------------------
(* HpackEncoder::encode.  A representation has its pattern, an index (0    *)
(* for none), a name that counts only without an index, and a value; `of`  *)
(* is the field it was made from.                                          *)

Rep(op, i, f) ==
    [op |-> op, index |-> i, name |-> f.name, value |-> f.value, of |-> f]

NoField == [name |-> 0, value |-> 0, sensitive |-> FALSE]

(* Bug: the encoder bounds its table and does not tell the peer.           *)
Unannounced == << >>

SizeUpdate ==
    IF update = {} THEN << >>
    ELSE <<[Rep("size", 0, NoField) EXCEPT !.value = CHOOSE max \in update : TRUE]>>

BeginBlock ==
    /\ ~inBlock
    /\ blocks < MaxBlocks
    /\ blocks' = blocks + 1
    /\ inBlock' = TRUE
    /\ wire' = wire \o SizeUpdate
    /\ update' = {}
    /\ UNCHANGED <<enc, dec, used, failed, fields>>

(* Bug: a field whose name has an index is not stored.                     *)
OnlyNewNames(f) == ~f.sensitive /\ FullMatch(enc, f) = 0 /\ NameMatch(enc, f) = 0

Stored(f) == ~f.sensitive /\ FullMatch(enc, f) = 0

(* A sensitive field takes the index of the entry if there is one, and     *)
(* only its name; any other field is indexed whole when it can be.         *)
Represent(f) ==
    IF f.sensitive
    THEN Rep("never", IF FullMatch(enc, f) # 0 THEN FullMatch(enc, f) ELSE NameMatch(enc, f), f)
    ELSE IF FullMatch(enc, f) # 0
    THEN Rep("indexed", FullMatch(enc, f), f)
    ELSE Rep("literal", NameMatch(enc, f), f)

EncodeField(f) ==
    /\ inBlock
    /\ fields < MaxFields
    /\ fields' = fields + 1
    /\ wire' = Append(wire, Represent(f))
    /\ enc' = IF Stored(f) THEN Insert(enc, Entry(f)) ELSE enc
    /\ UNCHANGED <<update, inBlock, dec, used, failed, blocks>>

EndBlock ==
    /\ inBlock
    /\ inBlock' = FALSE
    /\ wire' = Append(wire, Rep("end", 0, NoField))
    /\ UNCHANGED <<enc, update, dec, used, failed, fields, blocks>>

-----------------------------------------------------------------------------
(* HpackDecoder::decode.                                                   *)

Fails(error) == failed' = error /\ UNCHANGED <<dec, used>>

(* The field a representation stands for at the decoder; no field when it  *)
(* has an index that is not there.                                         *)
Known(r) == r.index \in DOMAIN Indexed(dec)

Meaning(r) ==
    CASE r.op = "indexed" ->
           IF Known(r)
           THEN {[name |-> Indexed(dec)[r.index].name, value |-> Indexed(dec)[r.index].value,
                  sensitive |-> FALSE]}
           ELSE {}
      [] r.op \in {"literal", "never"} ->
           IF r.index = 0
           THEN {[name |-> r.name, value |-> r.value, sensitive |-> r.op = "never"]}
           ELSE IF Known(r)
           THEN {[name |-> Indexed(dec)[r.index].name, value |-> r.value,
                  sensitive |-> r.op = "never"]}
           ELSE {}

(* Each field is charged against the cap before it is stored.              *)
Charge(f) == used + EntrySize(Entry(f))

DecodeField(r) ==
    \/ Meaning(r) = {} /\ Fails("corrupt")
    \/ \E f \in Meaning(r) : Charge(f) > MaxList /\ Fails("limit")
    \/ \E f \in Meaning(r) :
         /\ Charge(f) <= MaxList
         /\ used' = Charge(f)
         /\ dec' = IF r.op = "literal" THEN Insert(dec, Entry(f)) ELSE dec
         /\ UNCHANGED failed

DecodeSize(r) ==
    IF r.value > DecoderSize
    THEN Fails("corrupt")
    ELSE dec' = SetMaxSize(dec, r.value) /\ UNCHANGED <<used, failed>>

(* The end of the block ends the call; the next one starts a new budget.   *)
DecodeEnd == used' = 0 /\ UNCHANGED <<dec, failed>>

(* An error is fatal to the connection's compression context.              *)
Decode ==
    /\ wire # << >>
    /\ failed = "none"
    /\ wire' = Tail(wire)
    /\ \/ Head(wire).op \in {"indexed", "literal", "never"} /\ DecodeField(Head(wire))
       \/ Head(wire).op = "size" /\ DecodeSize(Head(wire))
       \/ Head(wire).op = "end" /\ DecodeEnd
    /\ UNCHANGED <<enc, update, inBlock, fields, blocks>>

-----------------------------------------------------------------------------
Next ==
    \/ BeginBlock
    \/ \E f \in Fields : EncodeField(f)
    \/ EndBlock
    \/ Decode

Spec == Init /\ [][Next]_vars

-----------------------------------------------------------------------------
(* However far the encoder is ahead, the decoder reads every field as it   *)
(* was encoded, the never-indexed flag included.                           *)
FieldsArrive ==
    wire # << >> /\ failed = "none" /\ Head(wire).op \in {"indexed", "literal", "never"} =>
        Meaning(Head(wire)) = {Head(wire).of}

(* With nothing in flight, and the size it was given announced, the two    *)
(* dynamic tables are the same: same bound, same entries, same order, even *)
(* across evictions, updates and entries too large to store.               *)
TablesInSync ==
    wire = << >> /\ failed = "none" /\ update = {} => dec = enc
=============================================================================
