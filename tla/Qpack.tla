-------------------------------- MODULE Qpack -------------------------------
(***************************************************************************)
(* qpack/mod.rs: a QpackEncoder with a dynamic table and the QpackDecoder  *)
(* of its peer.  Encoding a field section yields a chunk of the encoder    *)
(* stream, which builds the peer's table, and the section, which refers to *)
(* it.  The encoder stream is ordered and reliable; sections travel on     *)
(* streams of their own and reach the decoder early, late, in any order or *)
(* never.  There is no channel back: the encoder evicts without waiting.   *)
(***************************************************************************)
EXTENDS Naturals, Sequences, SequencesExt, FiniteSetsExt

CONSTANTS
    Fields,        \* header fields the application sends
    StaticNames,   \* names the static table has
    StaticFields,  \* entries the static table has in full
    Capacity,      \* SETTINGS_QPACK_MAX_TABLE_CAPACITY, at both ends
    MaxSection,    \* max_field_section_size of the decoder
    MaxFields,     \* bound: fields of a section
    MaxSections    \* bound: sections encoded

ASSUME FieldAssumption == Fields \subseteq [name : Nat, value : Nat, sensitive : BOOLEAN]
ASSUME CapacityAssumption == Capacity \in Nat /\ MaxSection \in Nat
ASSUME BoundAssumption == MaxFields \in Nat /\ MaxSections \in Nat

-----------------------------------------------------------------------------
(* dynamic_table.rs: the FIFO of header fields that both ends keep.  An    *)
(* entry has an absolute index for life; the oldest entries go first when  *)
(* room is needed.  A name is a number standing for a one-byte name, a     *)
(* value a number that is also its length, so that entries differ in size. *)
EntryOverhead == 32

EntrySize(name, value) == 1 + value + EntryOverhead

Entry(f) == [name |-> f.name, value |-> f.value]

NewTable(capacity) == [entries |-> << >>, capacity |-> capacity, inserts |-> 0, dropped |-> 0]

(* The size of the first so many of a sequence of entries or fields.       *)
Sizes(items) ==
    LET sum[i \in 0..Len(items)] ==
            IF i = 0 THEN 0 ELSE sum[i - 1] + EntrySize(items[i].name, items[i].value)
    IN sum

TotalSize(items) == Sizes(items)[Len(items)]

(* How many of the oldest entries make way for `incoming` more bytes.      *)
Evictions(t, incoming) ==
    LET n == Len(t.entries) IN
    Min({n} \cup {k \in 0..n : TotalSize(SubSeq(t.entries, k + 1, n)) + incoming <= t.capacity})

EvictToFit(t, incoming) ==
    LET k == Evictions(t, incoming) IN
    [t EXCEPT !.entries = SubSeq(@, k + 1, Len(@)), !.dropped = @ + k]

(* The oldest absolute index that survives the insertion.                  *)
EvictFloor(t, incoming) == t.dropped + Evictions(t, incoming)

SetCapacity(t, capacity) == EvictToFit([t EXCEPT !.capacity = capacity], 0)

CanInsert(t, name, value) == EntrySize(name, value) <= t.capacity

Insert(t, name, value) ==
    LET room == EvictToFit(t, EntrySize(name, value)) IN
    [room EXCEPT !.entries = Append(@, [name |-> name, value |-> value]), !.inserts = @ + 1]

Live(t) == { abs \in 0..t.inserts : t.dropped <= abs /\ abs < t.inserts }

GetAbsolute(t, abs) == t.entries[abs - t.dropped + 1]

(* The newest entry with this name and value, or with this name.           *)
Full(t, name, value) ==
    { abs \in Live(t) : GetAbsolute(t, abs) = [name |-> name, value |-> value] }

Named(t, name) == { abs \in Live(t) : GetAbsolute(t, abs).name = name }

(* Bug: the index is taken relative to the entry about to be inserted.     *)
RelativeToNext(t, abs) == t.inserts - abs

(* Relative indices of the encoder stream count back from the newest       *)
(* entry.                                                                  *)
ToRelative(t, abs) == t.inserts - 1 - abs

FromRelative(t, rel) == t.inserts - 1 - rel

-----------------------------------------------------------------------------
VARIABLES
    enc,       \* encoder: its mirror of the peer's table, capacity_announced
    dec,       \* decoder: its dynamic table, and whether a feed failed
    estream,   \* encoder-stream chunks not yet fed
    sections,  \* field sections not yet decoded
    sent,      \* sections encoded so far
    fed        \* chunks fed so far

vars == <<enc, dec, estream, sections, sent, fed>>

MaxEntries == Capacity \div 32

FullRange == 2 * MaxEntries

Init ==
    /\ enc = [table |-> NewTable(Capacity), announced |-> FALSE]
    /\ dec = [table |-> NewTable(0), failed |-> FALSE]
    /\ estream = << >>
    /\ sections = {}
    /\ sent = 0
    /\ fed = 0

-----------------------------------------------------------------------------
(* The encoder, first pass: one field at a time picks its representation   *)
(* and may insert an entry.  A pass is the mirror table, whether its       *)
(* capacity was announced, the chunk, the representations and the absolute *)
(* indices the section refers to.                                          *)

Static(f) == Entry(f) \in StaticFields

(* Bug: an insert may push out what this section already refers to.        *)
AnyInsert(p, f) == ~f.sensitive /\ CanInsert(p.table, f.name, f.value)

MayInsert(p, f) ==
    /\ ~f.sensitive
    /\ CanInsert(p.table, f.name, f.value)
    /\ \A abs \in p.referenced : abs >= EvictFloor(p.table, EntrySize(f.name, f.value))

Announce(p) ==
    IF p.announced THEN p.chunk ELSE Append(p.chunk, [op |-> "capacity", n |-> Capacity])

(* The name goes as a static reference, a reference to the newest entry of *)
(* that name, or in full.                                                  *)
InsertInstruction(t, f) ==
    IF f.name \in StaticNames
    THEN [op |-> "static", n |-> f.name, value |-> f.value]
    ELSE IF Named(t, f.name) # {}
    THEN [op |-> "dynamic", n |-> ToRelative(t, Max(Named(t, f.name))), value |-> f.value]
    ELSE [op |-> "literal", n |-> f.name, value |-> f.value]

(* A representation: an absolute index, or the entry itself for what does  *)
(* not involve the dynamic table.                                          *)
Refer(p, kind, abs, f) ==
    [p EXCEPT !.reps = Append(@, [kind |-> kind, n |-> abs, value |-> f.value,
                                  sensitive |-> f.sensitive]),
              !.referenced = @ \cup {abs}]

Spell(p, f) ==
    [p EXCEPT !.reps = Append(@, [kind |-> "plain", n |-> f.name, value |-> f.value,
                                  sensitive |-> f.sensitive])]

InsertField(p, f) ==
    Refer([p EXCEPT !.table = Insert(@, f.name, f.value), !.announced = TRUE,
                    !.chunk = Append(Announce(p), InsertInstruction(p.table, f))],
          "indexed", p.table.inserts, f)

EncodeField(p, f) ==
    CASE Static(f) /\ ~f.sensitive -> Spell(p, f)
      [] ~Static(f) /\ ~f.sensitive /\ Full(p.table, f.name, f.value) # {} ->
           Refer(p, "indexed", Max(Full(p.table, f.name, f.value)), f)
      [] ~Static(f) /\ Full(p.table, f.name, f.value) = {} /\ MayInsert(p, f) -> InsertField(p, f)
      [] ~Static(f) /\ Full(p.table, f.name, f.value) = {} /\ ~MayInsert(p, f)
           /\ ~f.sensitive /\ f.name \notin StaticNames /\ Named(p.table, f.name) # {} ->
           Refer(p, "name", Max(Named(p.table, f.name)), f)
      [] OTHER -> Spell(p, f)

(* Second pass: the prefix, and each reference relative to Base, which is  *)
(* the Required Insert Count.  A section is what is on the wire (`enc`,    *)
(* `reps`), its number, and the fields and the count it was made from.     *)
Required(p) == IF p.referenced = {} THEN 0 ELSE Max(p.referenced) + 1

(* Bug: the wrapped count is not told apart from "none".                   *)
WithoutOffset(required) == required % FullRange

EncodeRequired(required) == IF required = 0 THEN 0 ELSE (required % FullRange) + 1

Based(rep, base) == IF rep.kind = "plain" THEN rep ELSE [rep EXCEPT !.n = base - 1 - @]

(* The pass before the first field, and after each one.                    *)
NewPass(e) ==
    [table |-> e.table, announced |-> e.announced, chunk |-> << >>, reps |-> << >>,
     referenced |-> {}]

Passes(e, fields) ==
    LET pass[i \in 0..Len(fields)] ==
            IF i = 0 THEN NewPass(e) ELSE EncodeField(pass[i - 1], fields[i])
    IN pass

Encode(fields) ==
    LET p == Passes(enc, fields)[Len(fields)]
    IN /\ sent < MaxSections
       /\ enc' = [table |-> p.table, announced |-> p.announced]
       /\ estream' = Append(estream, p.chunk)
       /\ sections' = sections \cup
            {[id |-> sent + 1, enc |-> EncodeRequired(Required(p)),
              reps |-> [i \in DOMAIN p.reps |-> Based(p.reps[i], Required(p))],
              fields |-> fields, required |-> Required(p)]}
       /\ sent' = sent + 1
       /\ UNCHANGED <<dec, fed>>

-----------------------------------------------------------------------------
(* The decoder.                                                            *)

(* One encoder-stream instruction.  The name of an insert is resolved      *)
(* before anything is evicted for it; an entry that cannot fit, a name     *)
(* that is not there and a capacity above the limit end the feed.          *)
Acceptable(t, instr) ==
    CASE instr.op = "capacity" -> instr.n <= Capacity
      [] instr.op \in {"static", "literal"} -> CanInsert(t, instr.n, instr.value)
      [] instr.op = "dynamic" ->
           instr.n < t.inserts /\ FromRelative(t, instr.n) \in Live(t)
             /\ CanInsert(t, GetAbsolute(t, FromRelative(t, instr.n)).name, instr.value)

Instruct(t, instr) ==
    CASE instr.op = "capacity" -> SetCapacity(t, instr.n)
      [] instr.op \in {"static", "literal"} -> Insert(t, instr.n, instr.value)
      [] instr.op = "dynamic" ->
           Insert(t, GetAbsolute(t, FromRelative(t, instr.n)).name, instr.value)

Apply(d, instr) ==
    IF ~d.failed /\ Acceptable(d.table, instr)
    THEN [d EXCEPT !.table = Instruct(@, instr)]
    ELSE [d EXCEPT !.failed = TRUE]

(* The decoder before the first instruction of a chunk, and after each.    *)
Applied(d, chunk) ==
    LET after[i \in 0..Len(chunk)] ==
            IF i = 0 THEN d ELSE Apply(after[i - 1], chunk[i])
    IN after

ApplyAll(d, chunk) == Applied(d, chunk)[Len(chunk)]

(* feed_encoder_stream over one whole chunk, in the order of the stream.   *)
Feed ==
    /\ estream # << >>
    /\ ~dec.failed
    /\ dec' = ApplyAll(dec, Head(estream))
    /\ estream' = Tail(estream)
    /\ fed' = fed + 1
    /\ UNCHANGED <<enc, sections, sent>>

(* The Required Insert Count is the one value of its residue class within  *)
(* MaxEntries of the decoder's own Insert Count.                           *)
DecodeRequired(code) ==
    LET maxValue == dec.table.inserts + MaxEntries
        value    == (maxValue \div FullRange) * FullRange + code - 1
    IN IF code = 0 THEN 0
       ELSE IF value > maxValue /\ value > FullRange THEN value - FullRange ELSE value

RequiredOK(code) ==
    \/ code = 0
    \/ /\ code <= FullRange
       /\ DecodeRequired(code) \in 1..dec.table.inserts

(* A reference is to a live entry below the Required Insert Count.         *)
Resolvable(rep, base) ==
    rep.kind = "plain" \/ (rep.n < base /\ (base - 1 - rep.n) \in Live(dec.table))

Resolve(rep, base) ==
    CASE rep.kind = "plain" ->
           [name |-> rep.n, value |-> rep.value, sensitive |-> rep.sensitive]
      [] rep.kind = "indexed" ->
           [name |-> GetAbsolute(dec.table, base - 1 - rep.n).name,
            value |-> GetAbsolute(dec.table, base - 1 - rep.n).value, sensitive |-> FALSE]
      [] rep.kind = "name" ->
           [name |-> GetAbsolute(dec.table, base - 1 - rep.n).name,
            value |-> rep.value, sensitive |-> rep.sensitive]

(* Representations are resolved and charged one by one: the first failure  *)
(* is the one reported.                                                    *)
DecodeRep(d, rep, base) ==
    LET f    == Resolve(rep, base)
        used == d.used + EntrySize(f.name, f.value)
    IN CASE d.status # "ok" -> d
         [] d.status = "ok" /\ ~Resolvable(rep, base) -> [d EXCEPT !.status = "corrupt"]
         [] d.status = "ok" /\ Resolvable(rep, base) /\ used > MaxSection ->
              [d EXCEPT !.status = "limit"]
         [] OTHER -> [d EXCEPT !.used = used, !.got = Append(@, f)]

DecodeReps(reps, base) ==
    LET done[i \in 0..Len(reps)] ==
            IF i = 0 THEN [status |-> "ok", used |-> 0, got |-> << >>]
            ELSE DecodeRep(done[i - 1], reps[i], base)
    IN done

DecodeResult(s) ==
    IF RequiredOK(s.enc) THEN DecodeReps(s.reps, DecodeRequired(s.enc))[Len(s.reps)]
    ELSE [status |-> "corrupt", used |-> 0, got |-> << >>]

(* decode_field_section leaves the decoder as it was, whatever it returns; *)
(* a section may also never arrive.                                        *)
DecodeSection(s) ==
    /\ sections' = sections \ {s}
    /\ UNCHANGED <<enc, dec, estream, sent, fed>>

-----------------------------------------------------------------------------
Next ==
    \/ \E fields \in SeqOf(Fields, MaxFields) : Encode(fields)
    \/ Feed
    \/ \E s \in sections : DecodeSection(s)

Spec == Init /\ [][Next]_vars

-----------------------------------------------------------------------------
(* The documented contract: a section decoded right after its own chunk    *)
(* was fed yields the fields that were encoded, flags included, or the     *)
(* size error, exactly when they exceed the cap.  Evictions by the same    *)
(* batch or by earlier ones never take an entry the section needs.         *)
OwnChunkDecodes ==
    \A s \in sections :
        fed = s.id =>
            IF TotalSize(s.fields) > MaxSection
            THEN DecodeResult(s).status = "limit"
            ELSE DecodeResult(s).status = "ok" /\ DecodeResult(s).got = s.fields

(* Out of order, a section is refused or right, never wrong, as long as it *)
(* is at most MaxEntries inserts early and fewer than twice that late.     *)
(* Beyond, the Required Insert Count has wrapped (a peer that waited for   *)
(* acknowledgements could not be so far ahead; this encoder can).          *)
AcceptedIsRight ==
    \A s \in sections :
        /\ s.required <= dec.table.inserts + MaxEntries
        /\ dec.table.inserts < s.required + 2 * MaxEntries
        /\ DecodeResult(s).status = "ok"
        => DecodeResult(s).got = s.fields

(* The encoder stream is never refused, and once all of it has been fed    *)
(* the decoder's table is the encoder's mirror of it: the same entries at  *)
(* the same absolute indices.                                              *)
MirrorsAgree ==
    /\ ~dec.failed
    /\ estream = << >> => /\ dec.table.entries = enc.table.entries
                          /\ dec.table.inserts = enc.table.inserts
                          /\ dec.table.dropped = enc.table.dropped

(* What the module documentation says of a section whose Required Insert   *)
(* Count exceeds the decoder's Insert Count: decoding returns Corrupt.     *)
EarlySectionRefused ==
    \A s \in sections :
        s.required > dec.table.inserts => DecodeResult(s).status = "corrupt"
=============================================================================
