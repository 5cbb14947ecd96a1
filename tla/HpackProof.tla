----------------------------- MODULE HpackProof ------------------------------
(***************************************************************************)
(* Proofs about Hpack, for every set of fields, static table, table sizes  *)
(* and list cap: however far the encoder is ahead, the decoder reads every *)
(* field as it was encoded, and the two tables meet again.                 *)
(***************************************************************************)
EXTENDS Hpack, WellFoundedInduction, TLAPS

Entries == [name : Nat, value : Nat]
Tables == [max : Nat, entries : Seq(Entries)]
FieldOps == {"indexed", "literal", "never"}
Ops == FieldOps \cup {"size", "end"}

(* The table a decoder that reads r over t is left with.                   *)
After(t, r) ==
    CASE r.op = "literal" -> Insert(t, Entry(r.of))
      [] r.op = "size" -> SetMaxSize(t, r.value)
      [] OTHER -> t

(* What r means to a decoder whose table is t.                             *)
Reads(t, r) ==
    IF r.op = "indexed" \/ r.index # 0
    THEN IF r.index \in DOMAIN Indexed(t)
         THEN {[name |-> Indexed(t)[r.index].name,
                value |-> IF r.op = "indexed" THEN Indexed(t)[r.index].value ELSE r.value,
                sensitive |-> r.op = "never"]}
         ELSE {}
    ELSE {[name |-> r.name, value |-> r.value, sensitive |-> r.op = "never"]}

(* A decoder whose table is t reads r as it was meant.                     *)
Faithful(t, r) ==
    \/ r.op \in FieldOps /\ r.of \in Fields /\ Reads(t, r) = {r.of}
    \/ r.op = "size" /\ r.value \in 0..DecoderSize
    \/ r.op = "end"

(* T are the tables on the way from a to b along the representations w,    *)
(* one before each of them.                                                *)
Linked(T, w, a, b) ==
    /\ T \in Seq(Tables) /\ Len(T) = Len(w) + 1
    /\ T[1] = a /\ T[Len(w) + 1] = b
    /\ \A i \in 1..Len(w) : Faithful(T[i], w[i]) /\ T[i + 1] = After(T[i], w[i])

Reps == [op : Ops, index : Nat, name : Nat, value : Nat, of : Fields \cup {NoField}]

(* Before its first block an encoder has not said what size it was given.  *)
Unsaid ==
    update # {} =>
        /\ ~inBlock /\ wire = << >> /\ dec.entries = << >>
        /\ \E max \in Sizes : update = {max} /\ enc = [max |-> max, entries |-> << >>]

IInv ==
    /\ enc \in Tables /\ dec \in Tables /\ wire \in Seq(Reps) /\ inBlock \in BOOLEAN
    /\ Unsaid
    /\ failed = "none" /\ update = {} => \E T : Linked(T, wire, dec, enc)

-----------------------------------------------------------------------------
(* The least of a set of numbers, and the greatest of a bounded one.       *)

Less == {ss \in Nat \X Nat : ss[1] < ss[2]}

LEMMA LessWF == IsWellFoundedOn(Less, Nat)
BY NatLessThanWellFounded DEF OpToRel, Less

LEMMA LeastNatural ==
    ASSUME NEW S, S \subseteq Nat, S # {}
    PROVE  \E n \in S : \A m \in S : n <= m
<1>1. PICK x \in S : \A y \in S : <<y, x>> \notin Less
  BY LessWF, WFMin
<1>2. \A y \in S : <<y, x>> \in Nat \X Nat /\ <<y, x>>[1] = y /\ <<y, x>>[2] = x
  OBVIOUS
<1>3. \A y \in S : ~(y < x)
  BY <1>1, <1>2 DEF Less
<1> QED BY <1>3

LEMMA MinIsIn ==
    ASSUME NEW S, S \subseteq Nat, S # {}
    PROVE  Min(S) \in S
BY LeastNatural DEF Min

LEMMA MaxIsIn ==
    ASSUME NEW n \in Nat, NEW S, S \subseteq 0..n, S # {}
    PROVE  Max(S) \in S
<1> DEFINE below == {n - x : x \in S}
<1>1a. below \subseteq Nat
  OBVIOUS
<1>1b. below # {}
  <2>1. PICK x : x \in S
    OBVIOUS
  <2>2. n - x \in below
    BY <2>1
  <2> QED BY <2>2
<1>1. below \subseteq Nat /\ below # {}
  BY <1>1a, <1>1b
<1>2. PICK d \in below : \A m \in below : d <= m
  BY <1>1, LeastNatural
<1>3. PICK x \in S : d = n - x
  OBVIOUS
<1>4. \A y \in S : x >= y
  <2> TAKE y \in S
  <2>1. n - x <= n - y
    BY <1>2, <1>3
  <2>2. x \in Int /\ y \in Int /\ n \in Int
    OBVIOUS
  <2> QED BY ONLY <2>1, <2>2
<1> QED BY <1>4 DEF Max

-----------------------------------------------------------------------------
(* Tables.                                                                 *)

LEMMA EvictType ==
    ASSUME NEW entries \in Seq(Entries), NEW max, NEW incoming
    PROVE  EvictToFit(entries, max, incoming) \in Seq(Entries)
<1> DEFINE fits == {k \in 0..Len(entries) : TotalSize(SubSeq(entries, 1, k)) + incoming <= max}
           kept == Max({0} \cup fits)
<1>1. {0} \cup fits \subseteq 0..Len(entries) /\ {0} \cup fits # {} /\ Len(entries) \in Nat
  OBVIOUS
<1>2. kept \in 0..Len(entries)
  BY <1>1, MaxIsIn
<1> HIDE DEF kept
<1>3. SubSeq(entries, 1, kept) \in Seq(Entries)
  BY <1>2
<1> QED BY <1>3 DEF EvictToFit, kept

LEMMA EvictNothing ==
    ASSUME NEW max, NEW incoming
    PROVE  EvictToFit(<< >>, max, incoming) = << >>
<1> DEFINE fits == {k \in 0..Len(<< >>) : TotalSize(SubSeq(<< >>, 1, k)) + incoming <= max}
           kept == Max({0} \cup fits)
<1>1. {0} \cup fits \subseteq 0..0 /\ {0} \cup fits # {}
  OBVIOUS
<1>2. kept \in 0..0
  BY <1>1, MaxIsIn
<1> HIDE DEF kept
<1>3. SubSeq(<< >>, 1, kept) = << >>
  BY <1>2
<1> QED BY <1>3 DEF EvictToFit, kept

LEMMA SetMaxSizeType ==
    ASSUME NEW t \in Tables, NEW max \in Nat
    PROVE  SetMaxSize(t, max) \in Tables
BY EvictType DEF SetMaxSize, Tables

LEMMA InsertType ==
    ASSUME NEW t \in Tables, NEW e \in Entries
    PROVE  Insert(t, e) \in Tables
<1> DEFINE room == EvictToFit(t.entries, t.max, EntrySize(e))
<1>1. room \in Seq(Entries)
  BY EvictType DEF Tables
<1> HIDE DEF room
<1>2. <<e>> \o room \in Seq(Entries)
  BY <1>1
<1>3. Insert(t, e) = [t EXCEPT !.entries = IF EntrySize(e) <= t.max THEN <<e>> \o room ELSE room]
  BY DEF Insert, room
<1> QED BY <1>1, <1>2, <1>3 DEF Tables

LEMMA IndexedType ==
    ASSUME NEW t \in Tables
    PROVE  /\ Indexed(t) \in Seq(Entries)
           /\ DOMAIN Indexed(t) \subseteq Nat \ {0}
           /\ \A i \in DOMAIN Indexed(t) : Indexed(t)[i] \in Entries
<1>1. StaticTable \in Seq(Entries) /\ t.entries \in Seq(Entries)
  BY StaticAssumption DEF Tables, Entries
<1>2. Indexed(t) \in Seq(Entries)
  BY <1>1 DEF Indexed
<1> QED BY <1>2

LEMMA LowestIsIn ==
    ASSUME NEW S, S \subseteq Nat \ {0}
    PROVE  Lowest(S) \in Nat /\ (Lowest(S) # 0 => Lowest(S) \in S)
<1>1. S # {} => Min(S) \in S
  BY MinIsIn
<1> QED BY <1>1 DEF Lowest

LEMMA RepFields ==
    ASSUME NEW op, NEW i, NEW f
    PROVE  /\ Rep(op, i, f).op = op /\ Rep(op, i, f).index = i /\ Rep(op, i, f).of = f
           /\ Rep(op, i, f).name = f.name /\ Rep(op, i, f).value = f.value
BY DEF Rep

(* What the encoder makes of a field a decoder with the same table reads   *)
(* as that field.                                                          *)
LEMMA RepresentIsRead ==
    ASSUME enc \in Tables, NEW f \in Fields
    PROVE  /\ Faithful(enc, Represent(f))
           /\ (Represent(f).op = "literal") <=> Stored(f)
           /\ Represent(f).of = f /\ Represent(f).op \in FieldOps
<1> DEFINE full == {i \in DOMAIN Indexed(enc) : Indexed(enc)[i] = Entry(f)}
           names == {i \in DOMAIN Indexed(enc) : Indexed(enc)[i].name = f.name}
<1>1. /\ f = [name |-> f.name, value |-> f.value, sensitive |-> f.sensitive]
      /\ f.name \in Nat /\ f.value \in Nat /\ f.sensitive \in BOOLEAN
  BY FieldAssumption
<1>2. full \subseteq Nat \ {0} /\ names \subseteq Nat \ {0}
  BY IndexedType
<1>3. FullMatch(enc, f) = Lowest(full) /\ NameMatch(enc, f) = Lowest(names)
  BY DEF FullMatch, NameMatch
<1>4. FullMatch(enc, f) # 0 => FullMatch(enc, f) \in full
  BY <1>2, <1>3, LowestIsIn
<1>5. NameMatch(enc, f) # 0 => NameMatch(enc, f) \in names
  BY <1>2, <1>3, LowestIsIn
<1>6. FullMatch(enc, f) # 0 =>
         /\ FullMatch(enc, f) \in DOMAIN Indexed(enc)
         /\ Indexed(enc)[FullMatch(enc, f)].name = f.name
         /\ Indexed(enc)[FullMatch(enc, f)].value = f.value
  BY <1>4 DEF Entry
<1>7. NameMatch(enc, f) # 0 =>
         /\ NameMatch(enc, f) \in DOMAIN Indexed(enc)
         /\ Indexed(enc)[NameMatch(enc, f)].name = f.name
  BY <1>5
<1> HIDE DEF full, names
<1>8. CASE f.sensitive
  <2> DEFINE r == Represent(f)
  <2>1. PICK i : r = Rep("never", i, f) /\ (i # 0 => i \in DOMAIN Indexed(enc) /\ Indexed(enc)[i].name = f.name)
    BY <1>6, <1>7, <1>8 DEF Represent
  <2>2. /\ r.op = "never" /\ r.index = i /\ r.of = f
        /\ r.name = f.name /\ r.value = f.value
    BY <2>1, RepFields
  <2> HIDE DEF r
  <2>3. i = 0 => Reads(enc, r) = {[name |-> f.name, value |-> f.value, sensitive |-> TRUE]}
    BY <2>2 DEF Reads
  <2>4. i # 0 => Reads(enc, r) = {[name |-> f.name, value |-> f.value, sensitive |-> TRUE]}
    BY <2>1, <2>2 DEF Reads
  <2>5. Reads(enc, r) = {[name |-> f.name, value |-> f.value, sensitive |-> TRUE]}
    BY <2>3, <2>4
  <2>6. f = [name |-> f.name, value |-> f.value, sensitive |-> TRUE]
    BY <1>1, <1>8
  <2>7. Faithful(enc, r)
    BY <2>2, <2>5, <2>6 DEF Faithful, FieldOps
  <2>8. (r.op = "literal") <=> Stored(f)
    BY <2>2, <1>8 DEF Stored
  <2> QED BY <2>2, <2>7, <2>8 DEF r, FieldOps
<1>9. CASE ~f.sensitive /\ FullMatch(enc, f) # 0
  <2> DEFINE r == Represent(f)
  <2>1. PICK i : r = Rep("indexed", i, f) /\ i \in DOMAIN Indexed(enc)
                       /\ Indexed(enc)[i].name = f.name /\ Indexed(enc)[i].value = f.value
    BY <1>6, <1>9 DEF Represent
  <2>2. /\ r.op = "indexed" /\ r.index = i /\ r.of = f
        /\ r.name = f.name /\ r.value = f.value
    BY <2>1, RepFields
  <2> HIDE DEF r
  <2>3. Reads(enc, r) = {[name |-> f.name, value |-> f.value, sensitive |-> FALSE]}
    BY <2>1, <2>2 DEF Reads
  <2>4. f = [name |-> f.name, value |-> f.value, sensitive |-> FALSE]
    BY <1>1, <1>9
  <2>5. Faithful(enc, r)
    BY <2>2, <2>3, <2>4 DEF Faithful, FieldOps
  <2>6. (r.op = "literal") <=> Stored(f)
    BY <2>2, <1>9 DEF Stored
  <2> QED BY <2>2, <2>5, <2>6 DEF r, FieldOps
<1>10. CASE ~f.sensitive /\ FullMatch(enc, f) = 0
  <2> DEFINE r == Represent(f)
  <2>1. PICK i : r = Rep("literal", i, f) /\ (i # 0 => i \in DOMAIN Indexed(enc) /\ Indexed(enc)[i].name = f.name)
    BY <1>7, <1>10 DEF Represent
  <2>2. /\ r.op = "literal" /\ r.index = i /\ r.of = f
        /\ r.name = f.name /\ r.value = f.value
    BY <2>1, RepFields
  <2> HIDE DEF r
  <2>3. i = 0 => Reads(enc, r) = {[name |-> f.name, value |-> f.value, sensitive |-> FALSE]}
    BY <2>2 DEF Reads
  <2>4. i # 0 => Reads(enc, r) = {[name |-> f.name, value |-> f.value, sensitive |-> FALSE]}
    BY <2>1, <2>2 DEF Reads
  <2>5. Reads(enc, r) = {[name |-> f.name, value |-> f.value, sensitive |-> FALSE]}
    BY <2>3, <2>4
  <2>6. f = [name |-> f.name, value |-> f.value, sensitive |-> FALSE]
    BY <1>1, <1>10
  <2>7. Faithful(enc, r)
    BY <2>2, <2>5, <2>6 DEF Faithful, FieldOps
  <2>8. (r.op = "literal") <=> Stored(f)
    BY <2>2, <1>10 DEF Stored
  <2> QED BY <2>2, <2>7, <2>8 DEF r, FieldOps
<1> QED BY <1>8, <1>9, <1>10

(* The decoder reads what is at the head of the wire over its table.       *)
LEMMA MeaningIsRead ==
    ASSUME NEW r, r.op \in FieldOps
    PROVE  Meaning(r) = Reads(dec, r)
BY DEF Meaning, Reads, Known, FieldOps

LEMMA AfterType ==
    ASSUME NEW t \in Tables, NEW r, Faithful(t, r)
    PROVE  After(t, r) \in Tables
<1>1. CASE r.op = "literal"
  <2>1. Entry(r.of) \in Entries
    BY <1>1, FieldAssumption DEF Faithful, Entry, Entries
  <2> QED BY <1>1, <2>1, InsertType DEF After
<1>2. CASE r.op = "size"
  <2>1. r.value \in Nat
    BY <1>2, SizeAssumption DEF Faithful, FieldOps
  <2> QED BY <1>2, <2>1, SetMaxSizeType DEF After
<1>3. CASE r.op \notin {"literal", "size"}
  BY <1>3 DEF After
<1> QED BY <1>1, <1>2, <1>3


-----------------------------------------------------------------------------
(* Chains of tables.                                                       *)

LEMMA LinkedEmpty ==
    ASSUME NEW t \in Tables
    PROVE  Linked(<<t>>, << >>, t, t)
BY DEF Linked

LEMMA LinkedEnds ==
    ASSUME NEW T, NEW a, NEW b, Linked(T, << >>, a, b)
    PROVE  a = b
BY DEF Linked

(* One more is sent.                                                       *)
LEMMA LinkedPush ==
    ASSUME NEW T, NEW w \in Seq(Reps), NEW a, NEW b, Linked(T, w, a, b),
           NEW r \in Reps, Faithful(b, r), NEW c \in Tables, c = After(b, r)
    PROVE  Linked(Append(T, c), Append(w, r), a, c)
<1> DEFINE n == Len(w)
           U == Append(T, c)
           v == Append(w, r)
<1>1. n \in Nat /\ T \in Seq(Tables) /\ Len(T) = n + 1 /\ T[1] = a /\ T[n + 1] = b
  BY DEF Linked
<1>2. /\ U \in Seq(Tables) /\ Len(U) = n + 2 /\ U[n + 2] = c
      /\ \A i \in 1..(n + 1) : U[i] = T[i]
  BY <1>1
<1>3. Len(v) = n + 1 /\ v[n + 1] = r /\ \A i \in 1..n : v[i] = w[i]
  OBVIOUS
<1>4. \A i \in 1..n : Faithful(T[i], w[i]) /\ T[i + 1] = After(T[i], w[i])
  BY DEF Linked
<1> HIDE DEF n, U, v
<1>5. ASSUME NEW i \in 1..(n + 1)
      PROVE  Faithful(U[i], v[i]) /\ U[i + 1] = After(U[i], v[i])
  <2>1. CASE i = n + 1
    BY <1>1, <1>2, <1>3, <2>1
  <2>2. CASE i \in 1..n
    <3>1. U[i] = T[i] /\ U[i + 1] = T[i + 1] /\ v[i] = w[i]
      BY <1>1, <1>2, <1>3, <2>2
    <3> QED BY <3>1, <1>4, <2>2
  <2> QED BY <1>1, <2>1, <2>2
<1>6. U[1] = a
  BY <1>1, <1>2
<1>7. Linked(U, v, a, c)
  BY <1>1, <1>2, <1>3, <1>5, <1>6 DEF Linked
<1> QED BY <1>7 DEF U, v

(* The first is read.                                                      *)
LEMMA LinkedPop ==
    ASSUME NEW T, NEW w \in Seq(Reps), w # << >>, NEW a, NEW b, Linked(T, w, a, b)
    PROVE  /\ Faithful(a, Head(w))
           /\ Linked(Tail(T), Tail(w), After(a, Head(w)), b)
<1> DEFINE n == Len(w)
           U == Tail(T)
           v == Tail(w)
<1>1. /\ n \in Nat /\ n >= 1 /\ T \in Seq(Tables) /\ Len(T) = n + 1
      /\ T[1] = a /\ T[n + 1] = b /\ T # << >>
  BY DEF Linked
<1>2. U \in Seq(Tables) /\ Len(U) = n /\ \A i \in 1..n : U[i] = T[i + 1]
  BY <1>1
<1>3. v \in Seq(Reps) /\ Len(v) = n - 1 /\ \A i \in 1..(n - 1) : v[i] = w[i + 1]
  BY <1>1
<1>4. \A i \in 1..n : Faithful(T[i], w[i]) /\ T[i + 1] = After(T[i], w[i])
  BY DEF Linked
<1>5. Head(w) = w[1]
  OBVIOUS
<1> HIDE DEF n, U, v
<1>6. Faithful(a, Head(w)) /\ U[1] = After(a, Head(w))
  BY <1>1, <1>2, <1>4, <1>5
<1>7. ASSUME NEW i \in 1..(n - 1)
      PROVE  Faithful(U[i], v[i]) /\ U[i + 1] = After(U[i], v[i])
  <2>1. i + 1 \in 1..n /\ i \in 1..n
    BY <1>1
  <2>2. Faithful(T[i + 1], w[i + 1]) /\ T[i + 1 + 1] = After(T[i + 1], w[i + 1])
    BY <1>4, <2>1
  <2> QED BY <1>2, <1>3, <2>1, <2>2
<1>8. U[n] = b
  BY <1>1, <1>2
<1>9. Linked(U, v, After(a, Head(w)), b)
  BY <1>1, <1>2, <1>3, <1>6, <1>7, <1>8 DEF Linked
<1> QED BY <1>6, <1>9 DEF U, v


-----------------------------------------------------------------------------
(* The invariant.                                                          *)

LEMMA RepInReps ==
    ASSUME enc \in Tables, NEW f \in Fields
    PROVE  Represent(f) \in Reps
<1> DEFINE full == {i \in DOMAIN Indexed(enc) : Indexed(enc)[i] = Entry(f)}
           names == {i \in DOMAIN Indexed(enc) : Indexed(enc)[i].name = f.name}
<1>1. f.name \in Nat /\ f.value \in Nat
  BY FieldAssumption
<1>2. full \subseteq Nat \ {0} /\ names \subseteq Nat \ {0}
  BY IndexedType
<1>3. Lowest(full) \in Nat /\ Lowest(names) \in Nat
  BY <1>2, LowestIsIn
<1>4. FullMatch(enc, f) \in Nat /\ NameMatch(enc, f) \in Nat
  BY <1>3 DEF FullMatch, NameMatch
<1>5. ASSUME NEW op \in Ops, NEW i \in Nat
      PROVE  Rep(op, i, f) \in Reps
  BY <1>1 DEF Rep, Reps
<1>6. Represent(f) \in {Rep("never", FullMatch(enc, f), f), Rep("never", NameMatch(enc, f), f),
                        Rep("indexed", FullMatch(enc, f), f), Rep("literal", NameMatch(enc, f), f)}
  BY DEF Represent
<1>7. /\ Rep("never", FullMatch(enc, f), f) \in Reps /\ Rep("never", NameMatch(enc, f), f) \in Reps
      /\ Rep("indexed", FullMatch(enc, f), f) \in Reps /\ Rep("literal", NameMatch(enc, f), f) \in Reps
  <2>1. {"never", "indexed", "literal"} \subseteq Ops
    BY DEF Ops, FieldOps
  <2> QED BY <1>4, <1>5, <2>1
<1> QED BY <1>6, <1>7

LEMMA OtherReps ==
    ASSUME NEW op \in Ops, NEW max \in Nat
    PROVE  /\ Rep(op, 0, NoField) \in Reps
           /\ [Rep(op, 0, NoField) EXCEPT !.value = max] \in Reps
           /\ [Rep(op, 0, NoField) EXCEPT !.value = max].op = op
           /\ [Rep(op, 0, NoField) EXCEPT !.value = max].value = max
BY DEF Rep, Reps, NoField

LEMMA InitIInv == Init => IInv
<1> SUFFICES ASSUME Init
             PROVE  IInv
  OBVIOUS
<1>1. dec \in Tables /\ wire = << >> /\ inBlock = FALSE /\ dec.entries = << >>
  BY SizeAssumption DEF Init, Tables
<1>2. CASE /\ DecoderSize = DefaultSize
           /\ enc = [max |-> DefaultSize, entries |-> << >>]
           /\ update = {}
  <2>1. enc = dec
    BY <1>2 DEF Init
  <2>2. Linked(<<dec>>, wire, dec, enc)
    BY <1>1, <2>1, LinkedEmpty
  <2>3. Unsaid
    BY <1>2 DEF Unsaid
  <2>4. wire \in Seq(Reps)
    BY <1>1
  <2> QED BY <1>1, <2>1, <2>2, <2>3, <2>4 DEF IInv
<1>3. CASE \E max \in Sizes : enc = [max |-> max, entries |-> << >>] /\ update = {max}
  <2>1. PICK max \in Sizes : enc = [max |-> max, entries |-> << >>] /\ update = {max}
    BY <1>3
  <2>2. max \in Nat
    BY SizeAssumption
  <2>3. enc \in Tables
    BY <2>1, <2>2 DEF Tables
  <2>4. Unsaid
    BY <1>1, <2>1 DEF Unsaid
  <2>5. wire \in Seq(Reps) /\ update # {}
    BY <1>1, <2>1
  <2> QED BY <1>1, <2>3, <2>4, <2>5 DEF IInv
<1> QED BY <1>2, <1>3 DEF Init

LEMMA BeginKeeps == IInv /\ BeginBlock => IInv'
<1> SUFFICES ASSUME IInv, BeginBlock
             PROVE  IInv'
  OBVIOUS
<1>1. /\ enc' = enc /\ dec' = dec /\ failed' = failed /\ inBlock' = TRUE /\ update' = {}
      /\ wire' = wire \o SizeUpdate
  BY DEF BeginBlock
<1>2. Unsaid'
  BY <1>1 DEF Unsaid
<1>3. CASE update = {}
  <2>1. wire' = wire
    BY <1>1, <1>3 DEF SizeUpdate, IInv
  <2>2. failed' = "none" => \E T : Linked(T, wire', dec', enc')
    BY <1>1, <1>3, <2>1 DEF IInv
  <2> QED BY <1>1, <1>2, <2>1, <2>2 DEF IInv
<1>4. CASE update # {}
  <2>1. PICK max \in Sizes : update = {max} /\ enc = [max |-> max, entries |-> << >>]
    BY <1>4 DEF IInv, Unsaid
  <2>2. wire = << >> /\ dec.entries = << >>
    BY <1>4 DEF IInv, Unsaid
  <2>3. max \in Nat /\ max \in 0..DecoderSize
    BY SizeAssumption
  <2> DEFINE r == [Rep("size", 0, NoField) EXCEPT !.value = max]
  <2>4. (CHOOSE m \in update : TRUE) = max
    BY <2>1
  <2>5. wire' = Append(wire, r)
    <3>1. SizeUpdate = <<r>>
      BY <1>4, <2>4 DEF SizeUpdate
    <3> QED BY <1>1, <2>2, <3>1
  <2>6. r \in Reps /\ r.op = "size" /\ r.value = max
    <3>1. "size" \in Ops
      BY DEF Ops
    <3> QED BY ONLY <2>3, <3>1, OtherReps
  <2> HIDE DEF r
  <2>7. SetMaxSize(dec, max) = enc
    BY <2>1, <2>2, EvictNothing DEF SetMaxSize
  <2>8. Faithful(dec, r) /\ enc = After(dec, r)
    BY <2>3, <2>6, <2>7 DEF Faithful, After
  <2>9. Linked(<<dec>>, wire, dec, dec)
    BY <2>2, LinkedEmpty DEF IInv
  <2>10. Linked(Append(<<dec>>, enc), Append(wire, r), dec, enc)
    BY <2>6, <2>8, <2>9, LinkedPush DEF IInv
  <2>11. wire' \in Seq(Reps)
    BY <2>5, <2>6 DEF IInv
  <2> QED BY <1>1, <1>2, <2>5, <2>10, <2>11 DEF IInv
<1> QED BY <1>3, <1>4

LEMMA FieldKeeps == ASSUME NEW f \in Fields PROVE IInv /\ EncodeField(f) => IInv'
<1> SUFFICES ASSUME IInv, EncodeField(f)
             PROVE  IInv'
  OBVIOUS
<1> DEFINE r == Represent(f)
<1>1. /\ dec' = dec /\ failed' = failed /\ update' = update /\ inBlock' = inBlock /\ inBlock
      /\ wire' = Append(wire, r)
      /\ enc' = IF Stored(f) THEN Insert(enc, Entry(f)) ELSE enc
  BY DEF EncodeField
<1>2. update = {}
  BY <1>1 DEF IInv, Unsaid
<1>3. r \in Reps /\ enc \in Tables /\ wire \in Seq(Reps)
  BY RepInReps DEF IInv
<1>4. Faithful(enc, r) /\ ((r.op = "literal") <=> Stored(f)) /\ r.of = f /\ r.op \in FieldOps
  BY <1>3, RepresentIsRead
<1> HIDE DEF r
<1>5. enc' = After(enc, r)
  BY <1>1, <1>4 DEF After, FieldOps
<1>6. enc' \in Tables
  BY <1>3, <1>4, <1>5, AfterType
<1>7. ASSUME NEW T, Linked(T, wire, dec, enc)
      PROVE  Linked(Append(T, enc'), Append(wire, r), dec, enc')
  BY <1>3, <1>4, <1>5, <1>6, <1>7, LinkedPush
<1>8. wire' \in Seq(Reps)
  BY <1>1, <1>3
<1>9. Unsaid'
  BY <1>1, <1>2 DEF Unsaid
<1>10. failed' = "none" => \E T : Linked(T, wire', dec', enc')
  BY <1>1, <1>2, <1>7 DEF IInv
<1> QED BY <1>1, <1>6, <1>8, <1>9, <1>10 DEF IInv

LEMMA EndKeeps == IInv /\ EndBlock => IInv'
<1> SUFFICES ASSUME IInv, EndBlock
             PROVE  IInv'
  OBVIOUS
<1> DEFINE r == Rep("end", 0, NoField)
<1>1. /\ enc' = enc /\ dec' = dec /\ failed' = failed /\ update' = update
      /\ inBlock' = FALSE /\ inBlock /\ wire' = Append(wire, r)
  BY DEF EndBlock
<1>2. update = {}
  BY <1>1 DEF IInv, Unsaid
<1>3. r \in Reps /\ enc \in Tables /\ wire \in Seq(Reps) /\ r.op = "end"
  <2>1. "end" \in Ops /\ 0 \in Nat
    BY DEF Ops
  <2>2. r \in Reps
    BY ONLY <2>1, OtherReps
  <2> QED BY <2>2, RepFields DEF IInv
<1> HIDE DEF r
<1>4. Faithful(enc, r) /\ enc = After(enc, r)
  BY <1>3 DEF Faithful, After
<1>5. ASSUME NEW T, Linked(T, wire, dec, enc)
      PROVE  Linked(Append(T, enc), Append(wire, r), dec, enc)
  BY <1>3, <1>4, <1>5, LinkedPush
<1>6. wire' \in Seq(Reps)
  BY <1>1, <1>3
<1>7. Unsaid'
  BY <1>1, <1>2 DEF Unsaid
<1>8. failed' = "none" => \E T : Linked(T, wire', dec', enc')
  BY <1>1, <1>2, <1>5 DEF IInv
<1> QED BY <1>1, <1>3, <1>6, <1>7, <1>8 DEF IInv

(* Unless it fails, a turn of decode leaves the table After names.         *)
LEMMA DecodeIsAfter ==
    ASSUME IInv, Decode, update = {}
    PROVE  /\ Faithful(dec, Head(wire))
           /\ dec' \in Tables
           /\ failed' = "none" => dec' = After(dec, Head(wire))
<1> DEFINE r == Head(wire)
<1>1. PICK T : Linked(T, wire, dec, enc)
  BY DEF IInv, Decode
<1>2. wire # << >> /\ wire \in Seq(Reps) /\ dec \in Tables
  BY DEF IInv, Decode
<1>3. Faithful(dec, r)
  BY <1>1, <1>2, LinkedPop
<1>4. After(dec, r) \in Tables
  BY <1>2, <1>3, AfterType
<1>5. CASE r.op \in FieldOps /\ DecodeField(r)
  <2>1. Meaning(r) = {r.of}
    BY <1>3, <1>5, MeaningIsRead DEF Faithful, FieldOps
  <2>2. failed' \in {"corrupt", "limit"} => dec' = dec
    BY <1>5 DEF DecodeField, Fails, Decode
  <2>3. \/ Fails("corrupt") \/ Fails("limit")
        \/ dec' = IF r.op = "literal" THEN Insert(dec, Entry(r.of)) ELSE dec
    BY <1>5, <2>1 DEF DecodeField
  <2>4. CASE Fails("corrupt") \/ Fails("limit")
    BY <1>2, <1>3, <2>4 DEF Fails
  <2>5. CASE dec' = IF r.op = "literal" THEN Insert(dec, Entry(r.of)) ELSE dec
    <3>1. dec' = After(dec, r)
      BY <1>5, <2>5 DEF After, FieldOps
    <3> QED BY <1>3, <1>4, <3>1
  <2> QED BY <2>3, <2>4, <2>5
<1>6. CASE r.op = "size" /\ DecodeSize(r)
  <2>1. CASE Fails("corrupt")
    BY <1>2, <1>3, <2>1 DEF Fails
  <2>2. CASE dec' = SetMaxSize(dec, r.value)
    <3>1. dec' = After(dec, r)
      BY <1>6, <2>2 DEF After
    <3> QED BY <1>3, <1>4, <3>1
  <2> QED BY <1>6, <2>1, <2>2 DEF DecodeSize
<1>7. CASE r.op = "end" /\ DecodeEnd
  <2>1. dec' = After(dec, r)
    BY <1>7 DEF After, DecodeEnd
  <2> QED BY <1>3, <1>4, <2>1
<1> QED BY <1>5, <1>6, <1>7 DEF Decode, FieldOps

LEMMA DecodeKeeps == IInv /\ Decode => IInv'
<1> SUFFICES ASSUME IInv, Decode
             PROVE  IInv'
  OBVIOUS
<1>1. /\ enc' = enc /\ update' = update /\ inBlock' = inBlock /\ wire' = Tail(wire)
      /\ wire # << >> /\ failed = "none" /\ wire \in Seq(Reps)
  BY DEF Decode, IInv
<1>2. update = {}
  BY <1>1 DEF IInv, Unsaid
<1>3. /\ Faithful(dec, Head(wire)) /\ dec' \in Tables
      /\ failed' = "none" => dec' = After(dec, Head(wire))
  BY <1>2, DecodeIsAfter
<1>4. PICK T : Linked(T, wire, dec, enc)
  BY <1>1, <1>2 DEF IInv
<1>5. Linked(Tail(T), Tail(wire), After(dec, Head(wire)), enc)
  BY <1>1, <1>4, LinkedPop
<1>6. failed' = "none" => Linked(Tail(T), wire', dec', enc')
  BY <1>1, <1>3, <1>5
<1>7. wire' \in Seq(Reps)
  BY <1>1
<1>8. Unsaid'
  BY <1>1, <1>2 DEF Unsaid
<1> QED BY <1>1, <1>3, <1>6, <1>7, <1>8 DEF IInv

LEMMA NextKeepsIInv == IInv /\ [Next]_vars => IInv'
<1> SUFFICES ASSUME IInv, [Next]_vars
             PROVE  IInv'
  OBVIOUS
<1>1. CASE BeginBlock
  BY <1>1, BeginKeeps
<1>2. CASE \E f \in Fields : EncodeField(f)
  BY <1>2, FieldKeeps
<1>3. CASE EndBlock
  BY <1>3, EndKeeps
<1>4. CASE Decode
  BY <1>4, DecodeKeeps
<1>5. CASE UNCHANGED vars
  BY <1>5 DEF IInv, Unsaid, vars
<1> QED BY <1>1, <1>2, <1>3, <1>4, <1>5 DEF Next

THEOREM Invariance == Spec => []IInv
BY InitIInv, NextKeepsIInv, PTL DEF Spec

-----------------------------------------------------------------------------
(* However far encode is ahead, decode reads each field as it was encoded, *)
(* with the name, the value and the flag, for every table and entry size.  *)
THEOREM FieldsAsEncoded == Spec => []FieldsArrive
<1>1. IInv => FieldsArrive
  <2> SUFFICES ASSUME IInv, wire # << >>, failed = "none", Head(wire).op \in FieldOps
               PROVE  Meaning(Head(wire)) = {Head(wire).of}
    BY DEF FieldsArrive, FieldOps
  <2>1. update = {} /\ wire \in Seq(Reps)
    BY DEF IInv, Unsaid
  <2>2. PICK T : Linked(T, wire, dec, enc)
    BY <2>1 DEF IInv
  <2>3. Faithful(dec, Head(wire))
    BY <2>1, <2>2, LinkedPop
  <2> QED BY <2>3, MeaningIsRead DEF Faithful, FieldOps
<1> QED BY <1>1, Invariance, PTL

(* With nothing in flight, and the size announced, the dynamic table of    *)
(* the decoder is the one of the encoder.                                  *)
THEOREM TablesAgree == Spec => []TablesInSync
<1>1. IInv => TablesInSync
  <2> SUFFICES ASSUME IInv, wire = << >>, failed = "none", update = {}
               PROVE  dec = enc
    BY DEF TablesInSync
  <2>1. PICK T : Linked(T, << >>, dec, enc)
    BY DEF IInv
  <2> QED BY <2>1, LinkedEnds
<1> QED BY <1>1, Invariance, PTL
=============================================================================
