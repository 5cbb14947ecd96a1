----------------------------- MODULE QpackProof ------------------------------
(***************************************************************************)
(* Proofs about Qpack, for every set of fields, static table, capacity and *)
(* section cap: the decoder's table follows the encoder's mirror of it, a  *)
(* section read right after its own chunk yields its fields, and one read  *)
(* at any other time is refused or right.                                  *)
(***************************************************************************)
EXTENDS Qpack, WellFoundedInduction, TLAPS

-----------------------------------------------------------------------------
(* Numbers, and what is defined step by step along a sequence.             *)

Less == {ss \in Nat \X Nat : ss[1] < ss[2]}

(* The numbers are well founded, stated of a relation.                     *)
LEMMA LessWF == IsWellFoundedOn(Less, Nat)
BY NatLessThanWellFounded DEF OpToRel, Less

(* A set of numbers has a least one.                                       *)
LEMMA LeastNatural ==
    ASSUME NEW S, S \subseteq Nat, S # {}
    PROVE  \E n \in S : \A m \in S : n <= m
<1>1. PICK x \in S : \A y \in S : <<y, x>> \notin Less
  BY LessWF, WFMin
<1>2. \A y \in S : <<y, x>> \in Nat \X Nat /\ <<y, x>>[1] = y /\ <<y, x>>[2] = x
  OBVIOUS
<1>3. \A y \in S : ~(y < x)
  BY <1>1, <1>2 DEF Less
<1> QED BY <1>3

(* A property of numbers that passes from each to the next.                *)
LEMMA NoneFails ==
    ASSUME NEW Bad, Bad \subseteq Nat, 0 \notin Bad,
           \A m \in Nat \ {0} : m - 1 \notin Bad => m \notin Bad
    PROVE  Bad = {}
<1> SUFFICES ASSUME Bad # {} PROVE FALSE
  OBVIOUS
<1>1. PICK m \in Bad : \A k \in Bad : m <= k
  BY LeastNatural
<1>2. m \in Nat \ {0} /\ ~(m <= m - 1)
  BY <1>1
<1>3. m - 1 \notin Bad
  BY <1>1, <1>2
<1> QED BY <1>2, <1>3

(* Min and Max of FiniteSetsExt are in the set.                            *)
LEMMA MinIsIn ==
    ASSUME NEW S, S \subseteq Nat, S # {}
    PROVE  Min(S) \in S
BY LeastNatural DEF Min

LEMMA MaxIsIn ==
    ASSUME NEW n \in Nat, NEW S, S \subseteq 0..n, S # {}
    PROVE  Max(S) \in S /\ \A y \in S : y <= Max(S)
<1> DEFINE below == {n - x : x \in S}
<1>1a. below \subseteq Nat
  OBVIOUS
<1>1b. below # {}
  <2>1. PICK x : x \in S
    OBVIOUS
  <2>2. n - x \in below
    BY <2>1
  <2> QED BY <2>2
<1>1. below \subseteq Nat /\ below # {}
  BY <1>1a, <1>1b
<1>2. PICK d \in below : \A m \in below : d <= m
  BY <1>1, LeastNatural
<1>3. PICK x \in S : d = n - x
  OBVIOUS
<1>4. \A y \in S : x >= y
  <2> TAKE y \in S
  <2>1. n - x <= n - y
    BY <1>2, <1>3
  <2>2. x \in Int /\ y \in Int /\ n \in Int
    OBVIOUS
  <2> QED BY ONLY <2>1, <2>2
<1>5. Max(S) \in S /\ \A y \in S : Max(S) >= y
  BY <1>4 DEF Max
<1> DEFINE most == Max(S)
<1>6. most \in S /\ \A y \in S : most >= y
  BY <1>5
<1> HIDE DEF most
<1>7. most \in S /\ \A y \in S : y <= most
  <2>1. \A y \in S : y \in Int
    OBVIOUS
  <2> QED BY <2>1, <1>6
<1> QED BY <1>7 DEF most

(* Induction over the places of a sequence, the set being those at which   *)
(* what is to be shown holds.                                              *)
LEMMA ByPlace ==
    ASSUME NEW n \in Nat, NEW S, 0 \in S,
           \A i \in 1..n : i - 1 \in S => i \in S
    PROVE  \A i \in 0..n : i \in S
<1> DEFINE Bad == {i \in 0..n : i \notin S}
<1>1. Bad \subseteq Nat /\ 0 \notin Bad
  OBVIOUS
<1>2. \A m \in Nat \ {0} : m - 1 \notin Bad => m \notin Bad
  <2> SUFFICES ASSUME NEW m \in Nat \ {0}, m - 1 \notin Bad, m \in Bad PROVE FALSE
    OBVIOUS
  <2>1. m \in 1..n /\ m - 1 \in 0..n
    OBVIOUS
  <2> QED BY <2>1
<1> HIDE DEF Bad
<1>3. Bad = {}
  BY ONLY <1>1, <1>2, NoneFails
<1> QED BY <1>3 DEF Bad

(* The recursive functions of the model meet their equations: for a least  *)
(* length without such a function the next shorter one has one, and it can *)
(* be continued.                                                           *)
LEMMA SizesAre ==
    ASSUME NEW es, Len(es) \in Nat
    PROVE  /\ Sizes(es)[0] = 0
           /\ \A i \in 1..Len(es) :
                Sizes(es)[i] = Sizes(es)[i - 1] + EntrySize(es[i].name, es[i].value)
<1> DEFINE Z(i) == EntrySize(es[i].name, es[i].value)
           Good(g, m) == g = [i \in 0..m |-> IF i = 0 THEN 0 ELSE g[i - 1] + Z(i)]
           Bad == {m \in Nat : ~\E g : Good(g, m)}
<1> HIDE DEF Z
<1>1. Bad = {}
  <2>1. Bad \subseteq Nat
    OBVIOUS
  <2>2. 0 \notin Bad
    <3>1. Good([i \in 0..0 |-> 0], 0)
      OBVIOUS
    <3> QED BY <3>1
  <2>3. ASSUME NEW m \in Nat \ {0}, m - 1 \notin Bad PROVE m \notin Bad
    <3>1. m - 1 \in Nat
      OBVIOUS
    <3>2. PICK g : Good(g, m - 1)
      BY <2>3, <3>1
    <3> DEFINE h == [i \in 0..m |-> IF i = m THEN g[m - 1] + Z(m) ELSE g[i]]
    <3>3. Good(h, m)
      <4>1. ASSUME NEW i \in 0..m
            PROVE  h[i] = IF i = 0 THEN 0 ELSE h[i - 1] + Z(i)
        BY <3>1, <3>2
      <4> QED BY <4>1
    <3> QED BY <3>3
  <2> HIDE DEF Bad
  <2> QED BY ONLY <2>1, <2>2, <2>3, NoneFails
<1>2. \E g : Good(g, Len(es))
  BY <1>1
<1>3. Good(Sizes(es), Len(es))
  BY <1>2 DEF Sizes, Z
<1> QED BY <1>3 DEF Z

(* The pass over a section, field by field.                                *)
LEMMA PassesAre ==
    ASSUME NEW e, NEW fields, Len(fields) \in Nat
    PROVE  /\ Passes(e, fields)[0] = NewPass(e)
           /\ \A i \in 1..Len(fields) :
                Passes(e, fields)[i] = EncodeField(Passes(e, fields)[i - 1], fields[i])
<1> DEFINE Step(x, i) == EncodeField(x, fields[i])
           Start == NewPass(e)
           Good(g, m) == g = [i \in 0..m |-> IF i = 0 THEN Start ELSE Step(g[i - 1], i)]
           Bad == {m \in Nat : ~\E g : Good(g, m)}
<1> HIDE DEF Step, Start
<1>1. Bad = {}
  <2>1. Bad \subseteq Nat
    OBVIOUS
  <2>2. 0 \notin Bad
    <3>1. Good([i \in 0..0 |-> Start], 0)
      OBVIOUS
    <3> QED BY <3>1
  <2>3. ASSUME NEW m \in Nat \ {0}, m - 1 \notin Bad PROVE m \notin Bad
    <3>1. m - 1 \in Nat
      OBVIOUS
    <3>2. PICK g : Good(g, m - 1)
      BY <2>3, <3>1
    <3> DEFINE h == [i \in 0..m |-> IF i = m THEN Step(g[m - 1], m) ELSE g[i]]
    <3>3. Good(h, m)
      <4>1. ASSUME NEW i \in 0..m
            PROVE  h[i] = IF i = 0 THEN Start ELSE Step(h[i - 1], i)
        BY <3>1, <3>2
      <4> QED BY <4>1
    <3> QED BY <3>3
  <2> HIDE DEF Bad
  <2> QED BY ONLY <2>1, <2>2, <2>3, NoneFails
<1>2. \E g : Good(g, Len(fields))
  BY <1>1
<1>3. Good(Passes(e, fields), Len(fields))
  BY <1>2 DEF Passes, Step, Start
<1> QED BY <1>3 DEF Step, Start

(* The decoder along a chunk, instruction by instruction.                  *)
LEMMA AppliedAre ==
    ASSUME NEW d, NEW chunk, Len(chunk) \in Nat
    PROVE  /\ Applied(d, chunk)[0] = d
           /\ \A i \in 1..Len(chunk) :
                Applied(d, chunk)[i] = Apply(Applied(d, chunk)[i - 1], chunk[i])
<1> DEFINE Step(x, i) == Apply(x, chunk[i])
           Good(g, m) == g = [i \in 0..m |-> IF i = 0 THEN d ELSE Step(g[i - 1], i)]
           Bad == {m \in Nat : ~\E g : Good(g, m)}
<1> HIDE DEF Step
<1>1. Bad = {}
  <2>1. Bad \subseteq Nat
    OBVIOUS
  <2>2. 0 \notin Bad
    <3>1. Good([i \in 0..0 |-> d], 0)
      OBVIOUS
    <3> QED BY <3>1
  <2>3. ASSUME NEW m \in Nat \ {0}, m - 1 \notin Bad PROVE m \notin Bad
    <3>1. m - 1 \in Nat
      OBVIOUS
    <3>2. PICK g : Good(g, m - 1)
      BY <2>3, <3>1
    <3> DEFINE h == [i \in 0..m |-> IF i = m THEN Step(g[m - 1], m) ELSE g[i]]
    <3>3. Good(h, m)
      <4>1. ASSUME NEW i \in 0..m
            PROVE  h[i] = IF i = 0 THEN d ELSE Step(h[i - 1], i)
        BY <3>1, <3>2
      <4> QED BY <4>1
    <3> QED BY <3>3
  <2> HIDE DEF Bad
  <2> QED BY ONLY <2>1, <2>2, <2>3, NoneFails
<1>2. \E g : Good(g, Len(chunk))
  BY <1>1
<1>3. Good(Applied(d, chunk), Len(chunk))
  BY <1>2 DEF Applied, Step
<1> QED BY <1>3 DEF Step

(* What a section has given, representation by representation.             *)
LEMMA DecodedAre ==
    ASSUME NEW reps, NEW base, Len(reps) \in Nat
    PROVE  /\ DecodeReps(reps, base)[0] = [status |-> "ok", used |-> 0, got |-> << >>]
           /\ \A i \in 1..Len(reps) :
                DecodeReps(reps, base)[i] = DecodeRep(DecodeReps(reps, base)[i - 1], reps[i], base)
<1> DEFINE Step(x, i) == DecodeRep(x, reps[i], base)
           Start == [status |-> "ok", used |-> 0, got |-> << >>]
           Good(g, m) == g = [i \in 0..m |-> IF i = 0 THEN Start ELSE Step(g[i - 1], i)]
           Bad == {m \in Nat : ~\E g : Good(g, m)}
<1> HIDE DEF Step, Start
<1>1. Bad = {}
  <2>1. Bad \subseteq Nat
    OBVIOUS
  <2>2. 0 \notin Bad
    <3>1. Good([i \in 0..0 |-> Start], 0)
      OBVIOUS
    <3> QED BY <3>1
  <2>3. ASSUME NEW m \in Nat \ {0}, m - 1 \notin Bad PROVE m \notin Bad
    <3>1. m - 1 \in Nat
      OBVIOUS
    <3>2. PICK g : Good(g, m - 1)
      BY <2>3, <3>1
    <3> DEFINE h == [i \in 0..m |-> IF i = m THEN Step(g[m - 1], m) ELSE g[i]]
    <3>3. Good(h, m)
      <4>1. ASSUME NEW i \in 0..m
            PROVE  h[i] = IF i = 0 THEN Start ELSE Step(h[i - 1], i)
        BY <3>1, <3>2
      <4> QED BY <4>1
    <3> QED BY <3>3
  <2> HIDE DEF Bad
  <2> QED BY ONLY <2>1, <2>2, <2>3, NoneFails
<1>2. \E g : Good(g, Len(reps))
  BY <1>1
<1>3. Good(DecodeReps(reps, base), Len(reps))
  BY <1>2 DEF DecodeReps, Step, Start
<1> QED BY <1>3 DEF Step, Start

-----------------------------------------------------------------------------
(* Sizes.                                                                  *)

LEMMA EntrySizeIs ==
    ASSUME NEW name, NEW value \in Nat
    PROVE  EntrySize(name, value) = 33 + value /\ EntrySize(name, value) \in Nat
BY DEF EntrySize, EntryOverhead

(* Every item takes the overhead and a byte at least, and with what is     *)
(* behind it more.                                                         *)
LEMMA SizesGrow ==
    ASSUME NEW es, Len(es) \in Nat, \A i \in 1..Len(es) : es[i].value \in Nat
    PROVE  /\ \A i \in 0..Len(es) : Sizes(es)[i] \in Nat /\ 33 * i <= Sizes(es)[i]
           /\ \A i \in 1..Len(es) : Sizes(es)[i - 1] <= Sizes(es)[i]
<1> DEFINE S == {i \in 0..Len(es) : Sizes(es)[i] \in Nat /\ 33 * i <= Sizes(es)[i]}
           n == Len(es)
<1>1. 0 \in S
  BY SizesAre
<1>2. \A i \in 1..n : i - 1 \in S => i \in S
  <2> SUFFICES ASSUME NEW i \in 1..n, i - 1 \in S PROVE i \in S
    OBVIOUS
  <2>1. Sizes(es)[i] = Sizes(es)[i - 1] + EntrySize(es[i].name, es[i].value)
    BY SizesAre
  <2>2. es[i].value \in Nat
    OBVIOUS
  <2>3. EntrySize(es[i].name, es[i].value) = 33 + es[i].value
    BY <2>2, EntrySizeIs
  <2>4. Sizes(es)[i - 1] \in Nat /\ 33 * (i - 1) <= Sizes(es)[i - 1]
    OBVIOUS
  <2> QED BY <2>1, <2>2, <2>3, <2>4
<1>3. n \in Nat
  OBVIOUS
<1> HIDE DEF S, n
<1>4. \A i \in 0..n : i \in S
  BY ONLY <1>1, <1>2, <1>3, ByPlace
<1>5. \A i \in 0..Len(es) : Sizes(es)[i] \in Nat /\ 33 * i <= Sizes(es)[i]
  BY <1>4 DEF S, n
<1>6. ASSUME NEW i \in 1..Len(es) PROVE Sizes(es)[i - 1] <= Sizes(es)[i]
  <2>1. Sizes(es)[i] = Sizes(es)[i - 1] + EntrySize(es[i].name, es[i].value)
    BY SizesAre
  <2>2. es[i].value \in Nat
    OBVIOUS
  <2>3. EntrySize(es[i].name, es[i].value) = 33 + es[i].value
    BY <2>2, EntrySizeIs
  <2>4. i - 1 \in 0..Len(es)
    OBVIOUS
  <2>5. Sizes(es)[i - 1] \in Nat
    BY <1>5, <2>4
  <2> QED BY <2>1, <2>2, <2>3, <2>5
<1> QED BY <1>5, <1>6

LEMMA TotalEmpty == TotalSize(<< >>) = 0
<1>1. Len(<< >>) = 0 /\ Len(<< >>) \in Nat
  OBVIOUS
<1> QED BY <1>1, SizesAre DEF TotalSize

LEMMA TotalAppend ==
    ASSUME NEW D, NEW es \in Seq(D), NEW e \in D
    PROVE  TotalSize(Append(es, e)) = TotalSize(es) + EntrySize(e.name, e.value)
<1> DEFINE all == Append(es, e)
           S == {i \in 0..Len(es) : Sizes(all)[i] = Sizes(es)[i]}
           n == Len(es)
<1>1. /\ Len(all) = n + 1 /\ n \in Nat /\ all[n + 1] = e
      /\ \A i \in 1..n : all[i] = es[i]
  OBVIOUS
<1> HIDE DEF all
<1>2. \A i \in 1..(n + 1) :
        Sizes(all)[i] = Sizes(all)[i - 1] + EntrySize(all[i].name, all[i].value)
  BY <1>1, SizesAre
<1>3. \A i \in 1..n :
        Sizes(es)[i] = Sizes(es)[i - 1] + EntrySize(es[i].name, es[i].value)
  BY <1>1, SizesAre
<1>4. 0 \in S
  BY <1>1, SizesAre
<1>5. \A i \in 1..n : i - 1 \in S => i \in S
  <2> SUFFICES ASSUME NEW i \in 1..n, i - 1 \in S PROVE i \in S
    OBVIOUS
  <2>1. Sizes(all)[i - 1] = Sizes(es)[i - 1] /\ i \in 0..n /\ i \in 1..(n + 1) /\ all[i] = es[i]
    BY <1>1
  <2>2. Sizes(all)[i] = Sizes(es)[i]
    BY <1>2, <1>3, <2>1
  <2> QED BY <2>1, <2>2
<1> HIDE DEF S, n
<1>6. \A i \in 0..n : i \in S
  BY ONLY <1>1, <1>4, <1>5, ByPlace
<1>7. Sizes(all)[n] = Sizes(es)[n]
  BY <1>1, <1>6 DEF S, n
<1>8. Sizes(all)[n + 1] = Sizes(all)[(n + 1) - 1] + EntrySize(e.name, e.value)
  BY <1>1, <1>2
<1>9. (n + 1) - 1 = n
  BY <1>1
<1> QED BY <1>1, <1>7, <1>8, <1>9 DEF TotalSize, n, all

LEMMA TotalBounds ==
    ASSUME NEW es, Len(es) \in Nat, \A i \in 1..Len(es) : es[i].value \in Nat
    PROVE  TotalSize(es) \in Nat /\ 33 * Len(es) <= TotalSize(es)
<1>1. Len(es) \in 0..Len(es)
  OBVIOUS
<1> QED BY <1>1, SizesGrow DEF TotalSize

-----------------------------------------------------------------------------
(* Tables.                                                                 *)

(* Any entries and any table, of any numbers.                              *)
Entries == [name : Nat, value : Nat]
Tables == [entries : Seq(Entries), capacity : Nat, inserts : Nat, dropped : Nat]

(* t holds what is left of the entries h that were ever inserted, up to    *)
(* its own Insert Count, and no more than fits.                            *)
Window(t, h) ==
    /\ t \in Tables
    /\ t.dropped + Len(t.entries) = t.inserts
    /\ t.inserts <= Len(h)
    /\ \A i \in 1..Len(t.entries) : t.entries[i] = h[t.dropped + i]
    /\ TotalSize(t.entries) <= t.capacity
    /\ t.capacity <= Capacity

(* h is g and perhaps more behind it.                                      *)
Extends(g, h) == h \in Seq(Entries) /\ Len(g) <= Len(h) /\ \A i \in 1..Len(g) : h[i] = g[i]

LEMMA TableParts ==
    ASSUME NEW t \in Tables
    PROVE  /\ t.entries \in Seq(Entries) /\ t.capacity \in Nat
           /\ t.inserts \in Nat /\ t.dropped \in Nat /\ Len(t.entries) \in Nat
           /\ t = [entries |-> t.entries, capacity |-> t.capacity,
                   inserts |-> t.inserts, dropped |-> t.dropped]
BY DEF Tables

LEMMA ExtendsTrans ==
    ASSUME NEW f \in Seq(Entries), NEW g, NEW h, Extends(f, g), Extends(g, h)
    PROVE  Extends(f, h)
<1>1. Len(f) \in Nat /\ Len(g) \in Nat /\ Len(h) \in Nat
  BY DEF Extends
<1>2. \A i \in 1..Len(f) : i \in 1..Len(g)
  BY <1>1 DEF Extends
<1> QED BY <1>1, <1>2 DEF Extends

(* Entries inserted later leave a table what it is.                        *)
LEMMA WindowGrows ==
    ASSUME NEW g \in Seq(Entries), NEW h, Extends(g, h), NEW t, Window(t, g)
    PROVE  Window(t, h)
<1>1. /\ Len(g) \in Nat /\ Len(h) \in Nat /\ Len(t.entries) \in Nat
      /\ t.dropped \in Nat /\ t.inserts \in Nat
  BY TableParts DEF Extends, Window
<1>2. \A i \in 1..Len(t.entries) : t.dropped + i \in 1..Len(g)
  BY <1>1 DEF Window
<1> QED BY <1>1, <1>2 DEF Window, Extends

(* An entry at an absolute index is the one that was inserted there.       *)
LEMMA LiveIs ==
    ASSUME NEW h \in Seq(Entries), NEW t, Window(t, h), NEW abs \in Live(t)
    PROVE  /\ abs \in Nat /\ abs + 1 \in 1..t.inserts /\ abs + 1 \in 1..Len(h)
           /\ t.dropped <= abs /\ abs < t.inserts
           /\ GetAbsolute(t, abs) = h[abs + 1] /\ h[abs + 1] \in Entries
<1>1. /\ t.dropped \in Nat /\ t.inserts \in Nat /\ Len(h) \in Nat /\ Len(t.entries) \in Nat
      /\ t.dropped + Len(t.entries) = t.inserts /\ t.inserts <= Len(h)
  BY TableParts DEF Window
<1>2. abs \in Nat /\ t.dropped <= abs /\ abs < t.inserts
  BY <1>1 DEF Live
<1>3. abs - t.dropped + 1 \in 1..Len(t.entries)
  BY <1>1, <1>2
<1>4. t.entries[abs - t.dropped + 1] = h[t.dropped + (abs - t.dropped + 1)]
  BY <1>3 DEF Window
<1>5. t.dropped + (abs - t.dropped + 1) = abs + 1
  BY <1>1, <1>2
<1>6. abs + 1 \in 1..Len(h) /\ abs + 1 \in 1..t.inserts
  BY <1>1, <1>2
<1>7. h[abs + 1] \in Entries
  BY <1>6
<1> QED BY <1>2, <1>4, <1>5, <1>6, <1>7 DEF GetAbsolute

LEMMA EvictionsAre ==
    ASSUME NEW t \in Tables, NEW incoming \in Nat, incoming <= t.capacity
    PROVE  /\ Evictions(t, incoming) \in 0..Len(t.entries)
           /\ LET rest == SubSeq(t.entries, Evictions(t, incoming) + 1, Len(t.entries))
              IN TotalSize(rest) + incoming <= t.capacity
<1> DEFINE n == Len(t.entries)
           fits == {k \in 0..n : TotalSize(SubSeq(t.entries, k + 1, n)) + incoming <= t.capacity}
           k == Evictions(t, incoming)
<1>1. n \in Nat /\ t.entries \in Seq(Entries)
  BY TableParts
<1>2. SubSeq(t.entries, n + 1, n) = << >>
  BY <1>1
<1>3. n \in fits
  <2> DEFINE none == SubSeq(t.entries, n + 1, n)
  <2>1. none = << >>
    BY <1>2
  <2> HIDE DEF none
  <2>2. TotalSize(none) = 0
    BY <2>1, TotalEmpty
  <2>3. TotalSize(none) + incoming <= t.capacity
    BY <2>2
  <2> QED BY <1>1, <2>3 DEF none
<1>4. {n} \cup fits = fits
  BY <1>3
<1>5. k = Min(fits)
  BY <1>4 DEF Evictions
<1>6. fits \subseteq Nat /\ fits # {}
  BY <1>3
<1>7. k \in fits
  BY <1>5, <1>6, MinIsIn
<1> QED BY <1>7

(* An entry that fits goes in behind, and what makes way for it is what    *)
(* EvictFloor says.                                                        *)
LEMMA InsertIs ==
    ASSUME NEW h \in Seq(Entries), NEW t, Window(t, h), t.inserts = Len(h),
           NEW name \in Nat, NEW value \in Nat, CanInsert(t, name, value)
    PROVE  LET u == Insert(t, name, value)
               g == Append(h, [name |-> name, value |-> value]) IN
           /\ Extends(h, g) /\ Window(u, g)
           /\ u.inserts = Len(h) + 1 /\ Len(g) = Len(h) + 1 /\ u.capacity = t.capacity
           /\ u.dropped = EvictFloor(t, EntrySize(name, value))
           /\ Len(h) \in Live(u)
<1> DEFINE e == [name |-> name, value |-> value]
           size == EntrySize(name, value)
           k == Evictions(t, size)
           n == Len(t.entries)
           rest == SubSeq(t.entries, k + 1, n)
           u == Insert(t, name, value)
           g == Append(h, e)
<1>1. e \in Entries /\ size \in Nat /\ size <= t.capacity
  BY EntrySizeIs DEF Entries, CanInsert
<1>2. t \in Tables /\ t.entries \in Seq(Entries) /\ n \in Nat /\ t.dropped \in Nat
      /\ t.inserts \in Nat /\ t.capacity \in Nat
  BY TableParts DEF Window
<1>3. k \in 0..n /\ TotalSize(rest) + size <= t.capacity
  BY <1>1, <1>2, EvictionsAre
<1> HIDE DEF k, size, e
<1>4. rest \in Seq(Entries) /\ Len(rest) = n - k /\ \A i \in 1..(n - k) : rest[i] = t.entries[k + i]
  BY <1>2, <1>3
<1> HIDE DEF rest, n
<1> DEFINE room == EvictToFit(t, size)
<1>5a. room = [entries |-> rest, capacity |-> t.capacity, inserts |-> t.inserts,
               dropped |-> t.dropped + k]
  <2>1. room = [t EXCEPT !.entries = rest, !.dropped = t.dropped + k]
    BY DEF EvictToFit, k, rest, n
  <2> QED BY <2>1, <1>2 DEF Tables
<1>5b. u = [room EXCEPT !.entries = Append(room.entries, e), !.inserts = room.inserts + 1]
  BY DEF Insert, e, size
<1> HIDE DEF room
<1> DEFINE more == Append(rest, e)
<1>5c. Append(room.entries, e) = more
  BY <1>5a
<1> HIDE DEF more
<1>5d. u = [entries |-> more, capacity |-> t.capacity,
            inserts |-> t.inserts + 1, dropped |-> t.dropped + k]
  BY <1>5a, <1>5b, <1>5c
<1>5. u = [entries |-> Append(rest, e), capacity |-> t.capacity,
           inserts |-> t.inserts + 1, dropped |-> t.dropped + k]
  BY <1>5d DEF more
<1> HIDE DEF u
<1>6a. Append(rest, e) \in Seq(Entries) /\ Len(Append(rest, e)) = Len(rest) + 1
       /\ (\A i \in 1..Len(rest) : Append(rest, e)[i] = rest[i])
       /\ Append(rest, e)[Len(rest) + 1] = e
  BY <1>1, <1>4
<1>6. Append(rest, e) \in Seq(Entries) /\ Len(Append(rest, e)) = n - k + 1
      /\ (\A i \in 1..(n - k) : Append(rest, e)[i] = rest[i])
      /\ Append(rest, e)[n - k + 1] = e
  BY <1>4, <1>6a
<1>7. g \in Seq(Entries) /\ Len(g) = Len(h) + 1 /\ g[Len(h) + 1] = e
      /\ \A i \in 1..Len(h) : g[i] = h[i]
  BY <1>1
<1> HIDE DEF g
<1>8. Extends(h, g)
  BY <1>7 DEF Extends
<1>9. u \in Tables
  BY <1>2, <1>3, <1>5, <1>6 DEF Tables
<1>10. u.dropped + Len(u.entries) = u.inserts /\ u.inserts = Len(h) + 1 /\ u.inserts <= Len(g)
  <2>1. t.dropped + n = t.inserts
    BY DEF Window, n
  <2>2. u.dropped = t.dropped + k /\ Len(u.entries) = n - k + 1 /\ u.inserts = t.inserts + 1
    BY <1>5, <1>6
  <2>3. k \in Nat /\ k <= n
    BY <1>2, <1>3
  <2>4. u.dropped + Len(u.entries) = u.inserts
    <3>1. \A a, b, c \in Int : (a + b) + (c - b + 1) = (a + c) + 1
      OBVIOUS
    <3>2. (t.dropped + k) + (n - k + 1) = (t.dropped + n) + 1
      BY <1>2, <2>3, <3>1
    <3> QED BY <2>1, <2>2, <3>2
  <2> QED BY <1>7, <2>1, <2>2, <2>4 DEF Window
<1>11. TotalSize(u.entries) <= u.capacity /\ u.capacity <= Capacity
  <2>1. TotalSize(u.entries) = TotalSize(rest) + EntrySize(e.name, e.value)
    BY <1>1, <1>4, <1>5, TotalAppend
  <2>2. EntrySize(e.name, e.value) = size
    BY DEF e, size
  <2> QED BY <1>3, <1>5, <2>1, <2>2 DEF Window
<1>12. ASSUME NEW i \in 1..Len(u.entries) PROVE u.entries[i] = g[u.dropped + i]
  <2>1. i \in 1..(n - k + 1) /\ u.dropped = t.dropped + k /\ Len(h) = t.dropped + n
    BY <1>5, <1>6 DEF Window, n
  <2>2. CASE i = n - k + 1
    <3>1. u.dropped + i = Len(h) + 1
      BY <1>2, <1>3, <2>1, <2>2
    <3> QED BY <1>5, <1>6, <1>7, <2>2, <3>1
  <2>3. CASE i # n - k + 1
    <3>1. i \in 1..(n - k) /\ k + i \in 1..n /\ t.dropped + (k + i) \in 1..Len(h)
      <4>1. k \in Nat /\ k <= n /\ i \in Nat /\ 1 <= i /\ i <= n - k + 1
        BY <1>2, <1>3, <2>1
      <4>2. i <= n - k
        BY <1>2, <2>3, <4>1
      <4>3. 1 <= k + i /\ k + i <= n /\ k + i \in Nat
        BY <1>2, <4>1, <4>2
      <4>4. t.dropped + (k + i) \in 1..(t.dropped + n)
        BY <1>2, <4>3
      <4> QED BY <1>2, <2>1, <4>1, <4>2, <4>3, <4>4
    <3>2. u.entries[i] = h[t.dropped + (k + i)]
      <4>1. u.entries[i] = t.entries[k + i]
        BY <1>4, <1>5, <1>6, <3>1
      <4> QED BY <3>1, <4>1 DEF Window, n
    <3>3. t.dropped + (k + i) = u.dropped + i
      BY <1>2, <1>3, <2>1
    <3> QED BY <1>7, <3>1, <3>2, <3>3
  <2> QED BY <2>2, <2>3
<1>13. Window(u, g)
  BY <1>9, <1>10, <1>11, <1>12 DEF Window
<1>14. Len(h) \in Live(u)
  <2>1. Len(h) = t.dropped + n /\ u.dropped = t.dropped + k /\ u.inserts = Len(h) + 1
    BY <1>5, <1>10 DEF Window, n
  <2>2. k \in Nat /\ k <= n /\ Len(h) \in Nat
    BY <1>2, <1>3
  <2>3. u.dropped <= Len(h) /\ Len(h) < u.inserts /\ Len(h) \in 0..u.inserts
    BY <1>2, <2>1, <2>2
  <2> QED BY <2>3 DEF Live
<1>15. u.dropped = EvictFloor(t, size)
  BY <1>5 DEF EvictFloor, k
<1> QED BY <1>5, <1>7, <1>8, <1>10, <1>13, <1>14, <1>15 DEF u, g, e, size

(* The Set Dynamic Table Capacity of a new decoder makes its table the     *)
(* encoder's.                                                              *)
LEMMA NewTableIs ==
    /\ Window(NewTable(0), << >>) /\ Window(NewTable(Capacity), << >>)
    /\ SetCapacity(NewTable(0), Capacity) = NewTable(Capacity)
<1>1. << >> \in Seq(Entries) /\ Len(<< >>) = 0
  OBVIOUS
<1>2. TotalSize(<< >>) = 0
  BY TotalEmpty
<1>3. ASSUME NEW c \in Nat, c <= Capacity PROVE Window(NewTable(c), << >>)
  BY <1>1, <1>2, <1>3, CapacityAssumption DEF Window, NewTable, Tables
<1>4. SetCapacity(NewTable(0), Capacity) = NewTable(Capacity)
  <2> DEFINE t == [NewTable(0) EXCEPT !.capacity = Capacity]
             k == Evictions(t, 0)
  <2>1. t = NewTable(Capacity)
    BY DEF NewTable
  <2>2. t \in Tables /\ Len(t.entries) = 0 /\ t.entries = << >> /\ t.dropped = 0
        /\ t.capacity \in Nat /\ 0 <= t.capacity
    <3>1. NewTable(Capacity) \in Tables
      BY <1>1, CapacityAssumption DEF NewTable, Tables
    <3>2. NewTable(Capacity).entries = << >> /\ NewTable(Capacity).dropped = 0
          /\ NewTable(Capacity).capacity = Capacity
      BY DEF NewTable
    <3>3. Capacity \in Nat /\ 0 <= Capacity
      BY CapacityAssumption
    <3> QED BY <1>1, <2>1, <3>1, <3>2, <3>3
  <2> HIDE DEF t
  <2>3. PICK z \in Nat : z = 0
    OBVIOUS
  <2>4. Evictions(t, z) \in 0..Len(t.entries)
    BY <2>2, <2>3, EvictionsAre
  <2>5. k = 0
    BY <2>2, <2>3, <2>4
  <2> HIDE DEF k
  <2>6. EvictToFit(t, 0) = [t EXCEPT !.entries = SubSeq(t.entries, k + 1, Len(t.entries)),
                                     !.dropped = t.dropped + k]
    BY DEF EvictToFit, k
  <2>7. SubSeq(t.entries, k + 1, Len(t.entries)) = << >>
    BY <2>2, <2>5
  <2>8. EvictToFit(t, 0) = t
    <3>1. EvictToFit(t, 0) = [t EXCEPT !.entries = << >>, !.dropped = 0]
      <4>1. t.dropped + k = 0
        BY <2>2, <2>5
      <4> QED BY <2>6, <2>7, <4>1
    <3> QED BY <2>2, <3>1 DEF Tables
  <2> QED BY <2>1, <2>8 DEF SetCapacity, t
<1> QED BY <1>3, <1>4, CapacityAssumption

-----------------------------------------------------------------------------
(* Instructions.                                                           *)

Instructions ==
    [op : {"capacity"}, n : Nat] \cup [op : {"static", "dynamic", "literal"}, n : Nat, value : Nat]

Whole(table) == [table |-> table, failed |-> FALSE]

LEMMA ApplyNone ==
    ASSUME NEW d
    PROVE  ApplyAll(d, << >>) = d
<1>1. Len(<< >>) = 0 /\ Len(<< >>) \in Nat
  OBVIOUS
<1> QED BY <1>1, AppliedAre DEF ApplyAll

(* One more instruction at the end of a chunk is applied last.             *)
LEMMA ApplyAppend ==
    ASSUME NEW d, NEW D, NEW es \in Seq(D), NEW e \in D
    PROVE  ApplyAll(d, Append(es, e)) = Apply(ApplyAll(d, es), e)
<1> DEFINE all == Append(es, e)
           S == {i \in 0..Len(es) : Applied(d, all)[i] = Applied(d, es)[i]}
           n == Len(es)
<1>1. /\ Len(all) = n + 1 /\ n \in Nat /\ all[n + 1] = e
      /\ \A i \in 1..n : all[i] = es[i]
  OBVIOUS
<1> HIDE DEF all
<1>2. \A i \in 1..(n + 1) : Applied(d, all)[i] = Apply(Applied(d, all)[i - 1], all[i])
  BY <1>1, AppliedAre
<1>3. \A i \in 1..n : Applied(d, es)[i] = Apply(Applied(d, es)[i - 1], es[i])
  BY <1>1, AppliedAre
<1>4. 0 \in S
  BY <1>1, AppliedAre
<1>5. \A i \in 1..n : i - 1 \in S => i \in S
  <2> SUFFICES ASSUME NEW i \in 1..n, i - 1 \in S PROVE i \in S
    OBVIOUS
  <2>1. Applied(d, all)[i - 1] = Applied(d, es)[i - 1] /\ i \in 0..n /\ i \in 1..(n + 1)
        /\ all[i] = es[i]
    BY <1>1
  <2>2. Applied(d, all)[i] = Applied(d, es)[i]
    BY <1>2, <1>3, <2>1
  <2> QED BY <2>1, <2>2
<1> HIDE DEF S, n
<1>6. \A i \in 0..n : i \in S
  BY ONLY <1>1, <1>4, <1>5, ByPlace
<1>7. Applied(d, all)[n] = Applied(d, es)[n]
  BY <1>1, <1>6 DEF S, n
<1>8. Applied(d, all)[n + 1] = Apply(Applied(d, all)[(n + 1) - 1], e)
  BY <1>1, <1>2
<1>9. (n + 1) - 1 = n
  BY <1>1
<1> QED BY <1>1, <1>7, <1>8, <1>9 DEF ApplyAll, n, all

LEMMA FieldParts ==
    ASSUME NEW f \in Fields
    PROVE  /\ f.name \in Nat /\ f.value \in Nat /\ f.sensitive \in BOOLEAN
           /\ f = [name |-> f.name, value |-> f.value, sensitive |-> f.sensitive]
           /\ Entry(f) = [name |-> f.name, value |-> f.value]
BY FieldAssumption DEF Entry

(* What the encoder finds in its mirror is there, and as it looked for it. *)
LEMMA NameFound ==
    ASSUME NEW h \in Seq(Entries), NEW t, Window(t, h), NEW name, Named(t, name) # {}
    PROVE  /\ Max(Named(t, name)) \in Live(t)
           /\ GetAbsolute(t, Max(Named(t, name))).name = name
<1> DEFINE S == Named(t, name)
<1>1. t.inserts \in Nat
  BY TableParts DEF Window
<1>2. S \subseteq 0..t.inserts
  BY DEF Live, Named
<1> HIDE DEF S
<1>3. Max(S) \in S
  BY <1>1, <1>2, MaxIsIn DEF S
<1> QED BY <1>3 DEF Named, S

LEMMA FieldFound ==
    ASSUME NEW h \in Seq(Entries), NEW t, Window(t, h), NEW name, NEW value,
           Full(t, name, value) # {}
    PROVE  /\ Max(Full(t, name, value)) \in Live(t)
           /\ GetAbsolute(t, Max(Full(t, name, value))) = [name |-> name, value |-> value]
<1> DEFINE S == Full(t, name, value)
<1>1. t.inserts \in Nat
  BY TableParts DEF Window
<1>2. S \subseteq 0..t.inserts
  BY DEF Live, Full
<1> HIDE DEF S
<1>3. Max(S) \in S
  BY <1>1, <1>2, MaxIsIn DEF S
<1> QED BY <1>3 DEF Full, S

(* An index goes to the decoder and back.                                  *)
LEMMA RelativeIsBack ==
    ASSUME NEW h \in Seq(Entries), NEW t, Window(t, h), NEW abs \in Live(t)
    PROVE  /\ ToRelative(t, abs) \in Nat /\ ToRelative(t, abs) < t.inserts
           /\ FromRelative(t, ToRelative(t, abs)) = abs
<1>1. t.inserts \in Nat /\ abs \in Nat /\ abs < t.inserts
  BY TableParts, LiveIs DEF Window
<1> QED BY <1>1 DEF ToRelative, FromRelative

(* A decoder whose table is the encoder's does with an instruction what    *)
(* the encoder did.                                                        *)
LEMMA InstructionIsInsert ==
    ASSUME NEW h \in Seq(Entries), NEW t, Window(t, h), NEW f \in Fields,
           CanInsert(t, f.name, f.value)
    PROVE  /\ InsertInstruction(t, f) \in Instructions
           /\ Apply(Whole(t), InsertInstruction(t, f)) = Whole(Insert(t, f.name, f.value))
<1> DEFINE instr == InsertInstruction(t, f)
           u == Insert(t, f.name, f.value)
<1>1. f.name \in Nat /\ f.value \in Nat
  BY FieldParts
<1>2. Whole(t).table = t /\ Whole(t).failed = FALSE
  BY DEF Whole
<1>3. /\ instr \in Instructions /\ instr.op # "capacity"
      /\ Acceptable(t, instr) /\ Instruct(t, instr) = u
  <2>1. CASE f.name \in StaticNames
    <3>1. instr = [op |-> "static", n |-> f.name, value |-> f.value]
      BY <2>1 DEF InsertInstruction
    <3> HIDE DEF instr
    <3> QED BY <1>1, <3>1 DEF Instructions, Acceptable, Instruct
  <2>2. CASE f.name \notin StaticNames /\ Named(t, f.name) # {}
    <3> DEFINE abs == Max(Named(t, f.name))
               rel == ToRelative(t, abs)
    <3>1. instr = [op |-> "dynamic", n |-> rel, value |-> f.value]
      BY <2>2 DEF InsertInstruction
    <3>2. abs \in Live(t) /\ GetAbsolute(t, abs).name = f.name
      BY <2>2, NameFound
    <3> HIDE DEF abs
    <3>3. rel \in Nat /\ rel < t.inserts /\ FromRelative(t, rel) = abs
      BY <3>2, RelativeIsBack
    <3> HIDE DEF rel, instr
    <3> QED BY <1>1, <3>1, <3>2, <3>3 DEF Instructions, Acceptable, Instruct
  <2>3. CASE f.name \notin StaticNames /\ ~(Named(t, f.name) # {})
    <3>1. instr = [op |-> "literal", n |-> f.name, value |-> f.value]
      BY <2>3 DEF InsertInstruction
    <3> HIDE DEF instr
    <3> QED BY <1>1, <3>1 DEF Instructions, Acceptable, Instruct
  <2> QED BY <2>1, <2>2, <2>3
<1> HIDE DEF instr, u
<1>4. Apply(Whole(t), instr) = [Whole(t) EXCEPT !.table = Instruct(Whole(t).table, instr)]
  BY <1>2, <1>3 DEF Apply
<1>5. Apply(Whole(t), instr) = Whole(u)
  BY <1>2, <1>3, <1>4 DEF Whole
<1> QED BY <1>3, <1>5 DEF instr, u

(* The announcement takes a fresh table to the encoder's capacity.         *)
LEMMA CapacityIsSet ==
    LET instr == [op |-> "capacity", n |-> Capacity] IN
    /\ instr \in Instructions
    /\ Apply(Whole(NewTable(0)), instr) = Whole(NewTable(Capacity))
<1> DEFINE instr == [op |-> "capacity", n |-> Capacity]
           t == NewTable(0)
<1>1. instr \in Instructions /\ instr.op = "capacity" /\ instr.n = Capacity
  BY CapacityAssumption DEF Instructions
<1> HIDE DEF instr, t
<1>2. Acceptable(t, instr)
  BY <1>1, CapacityAssumption DEF Acceptable
<1>3. Instruct(t, instr) = SetCapacity(t, Capacity)
  BY <1>1 DEF Instruct
<1>4. Instruct(t, instr) = NewTable(Capacity)
  BY <1>3, NewTableIs DEF t
<1>5. Apply(Whole(t), instr) = Whole(NewTable(Capacity))
  BY <1>2, <1>4 DEF Apply, Whole
<1> QED BY <1>1, <1>5 DEF instr, t

-----------------------------------------------------------------------------
(* The encoder's first pass.                                               *)

Reps == [kind : {"plain", "indexed", "name"}, n : Nat, value : Nat, sensitive : BOOLEAN]

(* The records of the first pass.                                          *)
PassSet == [table : Tables, announced : BOOLEAN, chunk : Seq(Instructions), reps : Seq(Reps),
            referenced : SUBSET Nat]

(* The table of a decoder that has been fed all the encoder has said.      *)
Mirror(e) == IF e.announced THEN e.table ELSE NewTable(0)

(* The encoder's mirror holds the last of all entries inserted so far; it  *)
(* is new before its capacity was announced.                               *)
Mirrored(e, h) ==
    /\ h \in Seq(Entries) /\ Window(e.table, h) /\ e.table.inserts = Len(h)
    /\ ~e.announced => e.table = NewTable(Capacity)

(* The entry with absolute index abs has this field's name and value, or   *)
(* this field's name.                                                      *)
Means(kind, abs, rep, f, h) ==
    /\ kind = "plain" => rep.n = f.name /\ rep.value = f.value /\ rep.sensitive = f.sensitive
    /\ kind = "indexed" => abs + 1 \in 1..Len(h) /\ h[abs + 1] = Entry(f) /\ ~f.sensitive
    /\ kind = "name" => /\ abs + 1 \in 1..Len(h) /\ h[abs + 1].name = f.name
                        /\ rep.value = f.value /\ rep.sensitive = f.sensitive

(* A pass that began with a decoder at the table `from` and is k fields    *)
(* on: the chunk leads that decoder to the mirror, and every               *)
(* representation means its field, by way of entries that are live.        *)
PassOK(from, fields, p, k, h) ==
    /\ p \in PassSet
    /\ Mirrored(p, h)
    /\ ApplyAll(Whole(from), p.chunk) = Whole(Mirror(p))
    /\ p.referenced \subseteq Live(p.table)
    /\ Len(p.reps) = k
    /\ \A i \in 1..k :
         /\ Means(p.reps[i].kind, p.reps[i].n, p.reps[i], fields[i], h)
         /\ p.reps[i].kind # "plain" => p.reps[i].n \in p.referenced

LEMMA PassParts ==
    ASSUME NEW p \in PassSet
    PROVE  /\ p = [table |-> p.table, announced |-> p.announced, chunk |-> p.chunk,
                   reps |-> p.reps, referenced |-> p.referenced]
           /\ p.table \in Tables /\ p.announced \in BOOLEAN /\ p.chunk \in Seq(Instructions)
           /\ p.reps \in Seq(Reps) /\ Len(p.reps) \in Nat /\ p.referenced \in SUBSET Nat
BY DEF PassSet

(* What a representation means does not change with later inserts.         *)
LEMMA MeansLonger ==
    ASSUME NEW g \in Seq(Entries), NEW h, Extends(g, h), NEW kind, NEW abs, NEW rep, NEW f,
           Means(kind, abs, rep, f, g)
    PROVE  Means(kind, abs, rep, f, h)
<1>1. Len(g) \in Nat /\ Len(h) \in Nat /\ Len(g) <= Len(h) /\ \A i \in 1..Len(g) : h[i] = g[i]
  BY DEF Extends
<1>2. ASSUME abs + 1 \in 1..Len(g) PROVE abs + 1 \in 1..Len(h) /\ h[abs + 1] = g[abs + 1]
  BY <1>1, <1>2
<1> QED BY <1>2 DEF Means

(* One more representation, whose references are taken note of.            *)
LEMMA OneMoreRep ==
    ASSUME NEW from, NEW fields, NEW k \in Nat, NEW h, NEW p, PassOK(from, fields, p, k, h),
           NEW rep \in Reps, NEW more \in SUBSET Live(p.table),
           Means(rep.kind, rep.n, rep, fields[k + 1], h),
           rep.kind # "plain" => rep.n \in more,
           NEW q, q = [p EXCEPT !.reps = Append(p.reps, rep), !.referenced = p.referenced \cup more]
    PROVE  PassOK(from, fields, q, k + 1, h)
<1>1. p \in PassSet /\ Mirrored(p, h) /\ p.referenced \subseteq Live(p.table) /\ Len(p.reps) = k
  BY DEF PassOK
<1>2. q = [table |-> p.table, announced |-> p.announced, chunk |-> p.chunk,
           reps |-> Append(p.reps, rep), referenced |-> p.referenced \cup more]
  <2> DEFINE reps == Append(p.reps, rep)
             referenced == p.referenced \cup more
  <2>1. q = [p EXCEPT !.reps = reps, !.referenced = referenced]
    OBVIOUS
  <2> HIDE DEF reps, referenced
  <2>2. q = [table |-> p.table, announced |-> p.announced, chunk |-> p.chunk,
             reps |-> reps, referenced |-> referenced]
    BY <1>1, <2>1 DEF PassSet
  <2> QED BY <2>2 DEF reps, referenced
<1>3. Append(p.reps, rep) \in Seq(Reps) /\ Len(Append(p.reps, rep)) = k + 1
      /\ Append(p.reps, rep)[k + 1] = rep /\ \A i \in 1..k : Append(p.reps, rep)[i] = p.reps[i]
  BY <1>1, PassParts
<1>4. Live(p.table) \subseteq Nat
  BY DEF Live
<1>5. q \in PassSet
  BY <1>1, <1>2, <1>3, <1>4, PassParts DEF PassSet
<1>6. Mirrored(q, h) /\ Mirror(q) = Mirror(p) /\ q.chunk = p.chunk /\ q.table = p.table
  BY <1>1, <1>2 DEF Mirrored, Mirror
<1>7. q.referenced = p.referenced \cup more /\ q.reps = Append(p.reps, rep)
  BY <1>2
<1>8. ASSUME NEW i \in 1..(k + 1)
      PROVE  /\ Means(q.reps[i].kind, q.reps[i].n, q.reps[i], fields[i], h)
             /\ q.reps[i].kind # "plain" => q.reps[i].n \in q.referenced
  <2>1. CASE i = k + 1
    <3>1. q.reps[i] = rep
      BY <1>3, <1>7, <2>1
    <3> QED BY <1>7, <2>1, <3>1
  <2>2. CASE i # k + 1
    <3>1. i \in 1..k
      BY <2>2
    <3>2. q.reps[i] = p.reps[i]
      BY <1>3, <1>7, <3>1
    <3>3. /\ Means(p.reps[i].kind, p.reps[i].n, p.reps[i], fields[i], h)
          /\ p.reps[i].kind # "plain" => p.reps[i].n \in p.referenced
      BY <3>1 DEF PassOK
    <3> QED BY <1>7, <3>2, <3>3
  <2> QED BY <2>1, <2>2
<1>9. q.referenced \subseteq Live(q.table) /\ Len(q.reps) = k + 1
  BY <1>1, <1>3, <1>6, <1>7
<1>10. ApplyAll(Whole(from), q.chunk) = Whole(Mirror(q))
  BY <1>6 DEF PassOK
<1> QED BY <1>5, <1>6, <1>8, <1>9, <1>10 DEF PassOK

(* An insert, announced first if it is the first.  MayInsert keeps every   *)
(* entry that the section refers to.                                       *)
Inserted(p, f) ==
    [p EXCEPT !.table = Insert(p.table, f.name, f.value), !.announced = TRUE,
              !.chunk = Append(Announce(p), InsertInstruction(p.table, f))]

(* InsertField keeps the pass right, with the entry it inserts behind the  *)
(* others: what the section refers to stays in the table, because nothing  *)
(* from its floor on is evicted.                                           *)
LEMMA OneMoreEntry ==
    ASSUME NEW from, NEW fields, NEW k \in Nat, NEW h, NEW p, PassOK(from, fields, p, k, h),
           from = NewTable(0) \/ p.announced,
           NEW f \in Fields, MayInsert(p, f)
    PROVE  /\ Extends(h, Append(h, Entry(f)))
           /\ PassOK(from, fields, Inserted(p, f), k, Append(h, Entry(f)))
           /\ Inserted(p, f).announced = TRUE
           /\ p.table.inserts \in Live(Inserted(p, f).table)
           /\ p.table.inserts + 1 \in 1..Len(Append(h, Entry(f)))
<1> DEFINE g == Append(h, Entry(f))
           t == p.table
           u == Insert(t, f.name, f.value)
           instr == InsertInstruction(t, f)
           q == Inserted(p, f)
<1>1. /\ p \in PassSet /\ Mirrored(p, h) /\ p.referenced \subseteq Live(t) /\ Len(p.reps) = k
      /\ ApplyAll(Whole(from), p.chunk) = Whole(Mirror(p))
  BY DEF PassOK
<1>2. h \in Seq(Entries) /\ Window(t, h) /\ t.inserts = Len(h) /\ CanInsert(t, f.name, f.value)
  BY <1>1 DEF Mirrored, MayInsert
<1>3. f.name \in Nat /\ f.value \in Nat /\ Entry(f) = [name |-> f.name, value |-> f.value]
  BY FieldParts
<1>4. /\ Extends(h, g) /\ Window(u, g) /\ u.inserts = Len(h) + 1 /\ Len(g) = Len(h) + 1
      /\ u.dropped = EvictFloor(t, EntrySize(f.name, f.value)) /\ Len(h) \in Live(u)
  <2>1. h \in Seq(Entries) /\ Window(t, h) /\ t.inserts = Len(h) /\ f.name \in Nat
        /\ f.value \in Nat /\ CanInsert(t, f.name, f.value)
    BY <1>2, <1>3
  <2> HIDE DEF t, q
  <2>1a. Window(Insert(t, f.name, f.value), Append(h, [name |-> f.name, value |-> f.value]))
    BY ONLY <2>1, InsertIs
  <2>2. /\ Extends(h, Append(h, [name |-> f.name, value |-> f.value]))
        /\ Window(Insert(t, f.name, f.value), Append(h, [name |-> f.name, value |-> f.value]))
        /\ Insert(t, f.name, f.value).inserts = Len(h) + 1
        /\ Len(Append(h, [name |-> f.name, value |-> f.value])) = Len(h) + 1
        /\ Insert(t, f.name, f.value).capacity = t.capacity
        /\ Insert(t, f.name, f.value).dropped = EvictFloor(t, EntrySize(f.name, f.value))
        /\ Len(h) \in Live(Insert(t, f.name, f.value))
    BY ONLY <2>1, <2>1a, InsertIs
  <2>3. g = Append(h, [name |-> f.name, value |-> f.value])
    BY <1>3
  <2> HIDE DEF g
  <2> QED BY <2>3, <2>2
<1>5. instr \in Instructions /\ Apply(Whole(t), instr) = Whole(u)
  BY <1>2, InstructionIsInsert
<1>6. Entry(f) \in Entries
  BY <1>3 DEF Entries
<1>7. g[Len(h) + 1] = Entry(f) /\ Len(h) \in Nat
  BY <1>2, <1>6
<1> HIDE DEF g, u, instr, q
<1>8. Announce(p) \in Seq(Instructions) /\ ApplyAll(Whole(from), Announce(p)) = Whole(t)
  <2>1. CASE p.announced
    <3>1. Announce(p) = p.chunk /\ Mirror(p) = t
      BY <2>1 DEF Announce, Mirror
    <3> QED BY <1>1, <3>1, PassParts
  <2>2. CASE ~p.announced
    <3> DEFINE first == [op |-> "capacity", n |-> Capacity]
    <3>1. Announce(p) = Append(p.chunk, first) /\ Mirror(p) = NewTable(0)
          /\ t = NewTable(Capacity)
      BY <1>1, <2>2 DEF Announce, Mirror, Mirrored
    <3>2. first \in Instructions /\ Apply(Whole(NewTable(0)), first) = Whole(NewTable(Capacity))
      BY CapacityIsSet
    <3> HIDE DEF first
    <3>3. p.chunk \in Seq(Instructions)
      BY <1>1, PassParts
    <3>4. ApplyAll(Whole(from), Append(p.chunk, first)) = Apply(Whole(Mirror(p)), first)
      BY <1>1, <3>2, <3>3, ApplyAppend
    <3> QED BY <3>1, <3>2, <3>3, <3>4
  <2> QED BY <2>1, <2>2
<1> DEFINE chunk == Append(Announce(p), instr)
<1>9. q = [table |-> u, announced |-> TRUE, chunk |-> chunk,
           reps |-> p.reps, referenced |-> p.referenced]
  <2>1. q = [p EXCEPT !.table = u, !.announced = TRUE, !.chunk = chunk]
    BY DEF Inserted, q, u, instr
  <2> HIDE DEF chunk
  <2>2. q = [table |-> u, announced |-> TRUE, chunk |-> chunk,
             reps |-> p.reps, referenced |-> p.referenced]
    BY <1>1, <2>1 DEF PassSet
  <2> QED BY <2>2
<1>9a. q.table = u /\ q.announced = TRUE /\ q.reps = p.reps /\ q.referenced = p.referenced
       /\ q.chunk = Append(Announce(p), instr)
  <2> HIDE DEF chunk
  <2>1. q.table = u /\ q.announced = TRUE /\ q.reps = p.reps /\ q.referenced = p.referenced
        /\ q.chunk = chunk
    BY ONLY <1>9
  <2> QED BY <2>1 DEF chunk
<1>10. Append(Announce(p), instr) \in Seq(Instructions)
       /\ ApplyAll(Whole(from), Append(Announce(p), instr)) = Whole(u)
  <2>1. ApplyAll(Whole(from), Append(Announce(p), instr))
           = Apply(ApplyAll(Whole(from), Announce(p)), instr)
    BY <1>5, <1>8, ApplyAppend
  <2> QED BY <1>5, <1>8, <2>1
<1>11. q \in PassSet
  BY <1>1, <1>4, <1>9, <1>10, PassParts DEF PassSet, Window
<1>12. Mirrored(q, g) /\ Mirror(q) = u
  <2>1. g \in Seq(Entries) /\ u.inserts = Len(g)
    BY <1>4 DEF Extends
  <2> QED BY <1>4, <1>9a, <2>1 DEF Mirrored, Mirror
<1>13. ASSUME NEW abs \in p.referenced PROVE abs \in Live(u)
  <2>1. abs >= u.dropped
    BY <1>4 DEF MayInsert, t
  <2>2. abs \in Nat /\ abs < t.inserts
    BY <1>1, <1>2, LiveIs
  <2>3. u.inserts \in Nat /\ u.dropped \in Nat
    BY <1>4, TableParts DEF Window
  <2> QED BY <1>2, <1>4, <1>7, <2>1, <2>2, <2>3 DEF Live
<1>14. ASSUME NEW i \in 1..k
       PROVE  /\ Means(q.reps[i].kind, q.reps[i].n, q.reps[i], fields[i], g)
              /\ q.reps[i].kind # "plain" => q.reps[i].n \in q.referenced
  <2>1. q.reps = p.reps /\ q.referenced = p.referenced
    BY <1>9
  <2>2. /\ Means(p.reps[i].kind, p.reps[i].n, p.reps[i], fields[i], h)
        /\ p.reps[i].kind # "plain" => p.reps[i].n \in p.referenced
    BY DEF PassOK
  <2>3. Means(p.reps[i].kind, p.reps[i].n, p.reps[i], fields[i], g)
    BY <1>2, <1>4, <2>2, MeansLonger
  <2> QED BY <2>1, <2>2, <2>3
<1>15. q.referenced \subseteq Live(q.table) /\ Len(q.reps) = k
       /\ ApplyAll(Whole(from), q.chunk) = Whole(Mirror(q))
  BY <1>1, <1>9a, <1>10, <1>12, <1>13
<1>16. PassOK(from, fields, q, k, g)
  BY <1>11, <1>12, <1>14, <1>15 DEF PassOK
<1>17. t.inserts \in Live(q.table) /\ t.inserts + 1 \in 1..Len(g)
  <2>1. Len(h) + 1 \in 1..Len(g)
    BY <1>4, <1>7
  <2> QED BY <1>2, <1>4, <1>7, <1>9a, <2>1
<1> QED BY <1>4, <1>9a, <1>16, <1>17 DEF g, q

(* EncodeField keeps the pass right, whatever it chooses.                  *)
LEMMA EncodeFieldStep ==
    ASSUME NEW from, NEW fields, NEW k \in Nat, NEW h, NEW p, PassOK(from, fields, p, k, h),
           from = NewTable(0) \/ p.announced,
           NEW f \in Fields, f = fields[k + 1]
    PROVE  \E g : /\ Extends(h, g) /\ PassOK(from, fields, EncodeField(p, f), k + 1, g)
                  /\ p.announced => EncodeField(p, f).announced
<1> DEFINE t == p.table
           full == Full(t, f.name, f.value)
           named == Named(t, f.name)
<1>1. p \in PassSet /\ h \in Seq(Entries) /\ Window(t, h) /\ t.inserts = Len(h)
  BY DEF PassOK, Mirrored
<1>2. /\ f.name \in Nat /\ f.value \in Nat /\ f.sensitive \in BOOLEAN
      /\ Entry(f) = [name |-> f.name, value |-> f.value]
  BY FieldParts
<1>3. Extends(h, h)
  BY <1>1 DEF Extends
<1>4. ASSUME EncodeField(p, f) = Spell(p, f)
      PROVE  PassOK(from, fields, EncodeField(p, f), k + 1, h) /\ Spell(p, f).announced = p.announced
  <2> DEFINE rep == [kind |-> "plain", n |-> f.name, value |-> f.value, sensitive |-> f.sensitive]
             none == {abs \in Live(t) : FALSE}
             q == Spell(p, f)
  <2>1. rep \in Reps /\ rep.kind = "plain" /\ Means(rep.kind, rep.n, rep, fields[k + 1], h)
    BY <1>2 DEF Reps, Means
  <2>2. q = [p EXCEPT !.reps = Append(p.reps, rep)]
    BY DEF Spell
  <2> HIDE DEF rep, q
  <2>3. none \in SUBSET Live(t) /\ p.referenced \cup none = p.referenced
    OBVIOUS
  <2> HIDE DEF none
  <2>4. q = [p EXCEPT !.reps = Append(p.reps, rep), !.referenced = p.referenced \cup none]
    <3> DEFINE reps == Append(p.reps, rep)
    <3>1. q = [p EXCEPT !.reps = reps]
      BY <2>2
    <3> HIDE DEF reps
    <3>2. q = [p EXCEPT !.reps = reps, !.referenced = p.referenced \cup none]
      BY <1>1, <2>3, <3>1 DEF PassSet
    <3> QED BY <3>2 DEF reps
  <2>5. PassOK(from, fields, q, k + 1, h)
    BY <2>1, <2>3, <2>4, OneMoreRep
  <2>6. q.announced = p.announced
    <3> DEFINE reps == Append(p.reps, rep)
    <3>1. q = [p EXCEPT !.reps = reps]
      BY <2>2
    <3> HIDE DEF reps
    <3> QED BY <1>1, <3>1 DEF PassSet
  <2> QED BY <1>4, <2>5, <2>6 DEF q
<1>5. ASSUME NEW kind \in {"indexed", "name"}, NEW abs, NEW r, NEW g,
             PassOK(from, fields, r, k, g), abs \in Live(r.table), abs + 1 \in 1..Len(g),
             g[abs + 1].name = f.name,
             kind = "indexed" => ~f.sensitive /\ g[abs + 1] = Entry(f)
      PROVE  PassOK(from, fields, Refer(r, kind, abs, f), k + 1, g)
             /\ Refer(r, kind, abs, f).announced = r.announced
  <2> DEFINE rep == [kind |-> kind, n |-> abs, value |-> f.value, sensitive |-> f.sensitive]
             more == {abs}
             q == Refer(r, kind, abs, f)
             reps == Append(r.reps, rep)
             referenced == r.referenced \cup more
  <2>1. abs \in Nat
    BY <1>5 DEF Live
  <2>2. rep \in Reps /\ rep.kind = kind /\ rep.n = abs
    BY <1>2, <2>1 DEF Reps
  <2>3. rep.value = f.value /\ rep.sensitive = f.sensitive
    OBVIOUS
  <2>4. q = [r EXCEPT !.reps = reps, !.referenced = referenced]
    BY DEF Refer
  <2>5. more \in SUBSET Live(r.table) /\ rep.n \in more
    BY <1>5
  <2> HIDE DEF rep, q, more
  <2>6. Means(rep.kind, rep.n, rep, fields[k + 1], g)
    BY <1>5, <2>2, <2>3 DEF Means
  <2>7. PassOK(from, fields, q, k + 1, g)
    BY <1>5, <2>2, <2>4, <2>5, <2>6, OneMoreRep
  <2>8. r \in PassSet
    BY <1>5 DEF PassOK
  <2> HIDE DEF reps, referenced
  <2>9. q.announced = r.announced
    BY <2>4, <2>8 DEF PassSet
  <2> QED BY <2>7, <2>9 DEF q
<1>6. full # {} => /\ Max(full) \in Live(t) /\ GetAbsolute(t, Max(full)) = Entry(f)
  BY <1>1, <1>2, FieldFound
<1>7. named # {} => /\ Max(named) \in Live(t) /\ GetAbsolute(t, Max(named)).name = f.name
  BY <1>1, NameFound
<1>8. CASE Static(f) /\ ~f.sensitive
  <2>1. EncodeField(p, f) = Spell(p, f)
    BY <1>8 DEF EncodeField
  <2> QED BY <1>3, <1>4, <2>1
<1>9. CASE ~Static(f) /\ ~f.sensitive /\ full # {}
  <2>1. EncodeField(p, f) = Refer(p, "indexed", Max(full), f)
    BY <1>9 DEF EncodeField
  <2> DEFINE abs == Max(full)
  <2>2. abs \in Live(t) /\ GetAbsolute(t, abs) = Entry(f)
    BY <1>6, <1>9
  <2> HIDE DEF abs, full
  <2>3. abs + 1 \in 1..Len(h) /\ h[abs + 1] = Entry(f)
    BY <1>1, <2>2, LiveIs
  <2>4. h[abs + 1].name = f.name
    BY <1>2, <2>3
  <2>5. PassOK(from, fields, Refer(p, "indexed", abs, f), k + 1, h)
        /\ Refer(p, "indexed", abs, f).announced = p.announced
    BY <1>5, <1>9, <2>2, <2>3, <2>4
  <2> QED BY <1>3, <2>1, <2>5 DEF abs
<1>10. CASE ~Static(f) /\ full = {} /\ MayInsert(p, f)
  <2> DEFINE q == Inserted(p, f)
             g == Append(h, Entry(f))
             abs == t.inserts
  <2>1. EncodeField(p, f) = InsertField(p, f)
    BY <1>10 DEF EncodeField, MayInsert
  <2>2. EncodeField(p, f) = Refer(q, "indexed", abs, f)
    BY <2>1 DEF InsertField, Inserted
  <2>4. /\ Extends(h, g) /\ PassOK(from, fields, q, k, g) /\ abs \in Live(q.table)
        /\ abs + 1 \in 1..Len(g) /\ g[abs + 1] = Entry(f) /\ q.announced = TRUE
    <3>1. MayInsert(p, f) /\ f \in Fields /\ k \in Nat /\ PassOK(from, fields, p, k, h)
          /\ (from = NewTable(0) \/ p.announced)
      BY <1>10
    <3>2. /\ Extends(h, Append(h, Entry(f)))
          /\ PassOK(from, fields, Inserted(p, f), k, Append(h, Entry(f)))
          /\ Inserted(p, f).announced = TRUE
          /\ p.table.inserts \in Live(Inserted(p, f).table)
          /\ p.table.inserts + 1 \in 1..Len(Append(h, Entry(f)))
          /\ Append(h, Entry(f))[p.table.inserts + 1] = Entry(f)
      <4>1. PassOK(from, fields, Inserted(p, f), k, Append(h, Entry(f)))
        BY <3>1, OneMoreEntry
      <4>2. Extends(h, Append(h, Entry(f)))
        BY ONLY <3>1, <4>1, OneMoreEntry
      <4>3. Inserted(p, f).announced = TRUE
        BY ONLY <3>1, <4>1, OneMoreEntry
      <4>4. p.table.inserts \in Live(Inserted(p, f).table)
        BY ONLY <3>1, <4>1, OneMoreEntry
      <4>5. p.table.inserts + 1 \in 1..Len(Append(h, Entry(f)))
        BY ONLY <3>1, <4>1, OneMoreEntry
      <4>6. Append(h, Entry(f))[p.table.inserts + 1] = Entry(f)
        <5>1. Entry(f) \in Entries /\ p.table.inserts = Len(h)
          BY <1>1, <1>2 DEF Entries
        <5> QED BY ONLY <1>1, <5>1
      <4> QED BY <4>1, <4>2, <4>3, <4>4, <4>5, <4>6
    <3> QED BY <3>2
  <2> HIDE DEF g, abs, q
  <2>5. g[abs + 1].name = f.name
    BY <1>2, <2>4
  <2>6. ~f.sensitive
    BY <1>10 DEF MayInsert
  <2>7. PassOK(from, fields, Refer(q, "indexed", abs, f), k + 1, g)
        /\ Refer(q, "indexed", abs, f).announced = q.announced
    BY <1>5, <2>4, <2>5, <2>6
  <2> QED BY <2>2, <2>4, <2>7 DEF q
<1>11. CASE ~Static(f) /\ full = {} /\ ~MayInsert(p, f) /\ ~f.sensitive
            /\ f.name \notin StaticNames /\ named # {}
  <2>1. EncodeField(p, f) = Refer(p, "name", Max(named), f)
    BY <1>11 DEF EncodeField
  <2> DEFINE abs == Max(named)
  <2>2. abs \in Live(t) /\ GetAbsolute(t, abs).name = f.name
    BY <1>7, <1>11
  <2> HIDE DEF abs, named
  <2>3. abs + 1 \in 1..Len(h) /\ h[abs + 1].name = f.name
    BY <1>1, <2>2, LiveIs
  <2>4. PassOK(from, fields, Refer(p, "name", abs, f), k + 1, h)
        /\ Refer(p, "name", abs, f).announced = p.announced
    BY <1>5, <2>2, <2>3
  <2> QED BY <1>3, <2>1, <2>4 DEF abs
<1>12. CASE /\ ~(Static(f) /\ ~f.sensitive) /\ ~(~Static(f) /\ ~f.sensitive /\ full # {})
            /\ ~(~Static(f) /\ full = {} /\ MayInsert(p, f))
            /\ ~(~Static(f) /\ full = {} /\ ~MayInsert(p, f) /\ ~f.sensitive
                   /\ f.name \notin StaticNames /\ named # {})
  <2>1. EncodeField(p, f) = Spell(p, f)
    BY <1>12 DEF EncodeField
  <2> QED BY <1>3, <1>4, <2>1
<1> QED BY <1>8, <1>9, <1>10, <1>11, <1>12

(* The pass is right after the last field.                                 *)
LEMMA WholePass ==
    ASSUME NEW e, e.announced \in BOOLEAN, NEW h, Mirrored(e, h), NEW fields \in Seq(Fields)
    PROVE  \E g : /\ Extends(h, g)
                  /\ PassOK(Mirror(e), fields, Passes(e, fields)[Len(fields)], Len(fields), g)
<1> DEFINE n == Len(fields)
           from == Mirror(e)
           P(i) == Passes(e, fields)[i]
           S == {i \in 0..n : \E g : /\ Extends(h, g) /\ PassOK(from, fields, P(i), i, g)
                                     /\ from = NewTable(0) \/ P(i).announced = TRUE}
<1>1. n \in Nat
  OBVIOUS
<1>2. P(0) = NewPass(e) /\ \A i \in 1..n : P(i) = EncodeField(P(i - 1), fields[i])
  BY <1>1, PassesAre
<1>3. h \in Seq(Entries) /\ Window(e.table, h) /\ Extends(h, h)
  BY DEF Mirrored, Extends
<1>4. from = NewTable(0) \/ e.announced = TRUE
  BY DEF Mirror
<1>5. 0 \in S
  <2> DEFINE p == NewPass(e)
  <2>1. p \in PassSet
    <3>1. e.table \in Tables
      BY <1>3 DEF Window
    <3>2. << >> \in Seq(Instructions) /\ << >> \in Seq(Reps)
      OBVIOUS
    <3> QED BY <3>1, <3>2 DEF NewPass, PassSet
  <2>2. p.table = e.table /\ p.announced = e.announced /\ p.chunk = << >> /\ p.reps = << >>
        /\ p.referenced = {}
    BY DEF NewPass
  <2>3. Mirrored(p, h) /\ Mirror(p) = from
    BY <2>2 DEF Mirrored, Mirror
  <2>4. ApplyAll(Whole(from), p.chunk) = Whole(Mirror(p))
    BY <2>2, <2>3, ApplyNone
  <2>5. PassOK(from, fields, p, 0, h)
    BY <2>1, <2>2, <2>3, <2>4 DEF PassOK
  <2> HIDE DEF p, P, from
  <2>6. from = NewTable(0) \/ p.announced = TRUE
    BY <1>4, <2>2
  <2> QED BY <1>1, <1>2, <1>3, <2>5, <2>6 DEF p
<1>6. \A i \in 1..n : i - 1 \in S => i \in S
  <2> SUFFICES ASSUME NEW i \in 1..n, i - 1 \in S PROVE i \in S
    OBVIOUS
  <2> DEFINE k == i - 1
             p == P(k)
             f == fields[i]
  <2>1. PICK g : /\ Extends(h, g) /\ PassOK(from, fields, p, k, g)
                 /\ from = NewTable(0) \/ p.announced = TRUE
    OBVIOUS
  <2>2. k \in Nat /\ k + 1 = i /\ f = fields[k + 1] /\ f \in Fields
    BY <1>1
  <2>3. P(i) = EncodeField(p, f)
    BY <1>2
  <2> HIDE DEF p, P, k, f, from
  <2>4. PICK gg : /\ Extends(g, gg) /\ PassOK(from, fields, EncodeField(p, f), k + 1, gg)
                  /\ p.announced => EncodeField(p, f).announced
    BY <2>1, <2>2, EncodeFieldStep
  <2>5. Extends(h, gg)
    BY <1>3, <2>1, <2>4, ExtendsTrans
  <2>6. EncodeField(p, f) \in PassSet
    BY <2>4 DEF PassOK
  <2>7. EncodeField(p, f).announced \in BOOLEAN
    BY <2>6, PassParts
  <2>8. from = NewTable(0) \/ P(i).announced = TRUE
    BY <2>1, <2>3, <2>4, <2>7
  <2>9. PassOK(from, fields, P(i), i, gg)
    BY <2>2, <2>3, <2>4
  <2> QED BY <2>5, <2>8, <2>9
<1> HIDE DEF S, n
<1>7. \A i \in 0..n : i \in S
  BY ONLY <1>1, <1>5, <1>6, ByPlace
<1>8. n \in S
  BY <1>1, <1>7
<1> QED BY <1>8 DEF S, n

(* A section means its fields over the entries h, and what it refers to is *)
(* below its Required Insert Count.                                        *)
SectionMeans(s, h) ==
    /\ s.fields \in Seq(Fields) /\ s.reps \in Seq(Reps) /\ Len(s.reps) = Len(s.fields)
    /\ s.required \in 0..Len(h) /\ s.enc = EncodeRequired(s.required)
    /\ \A i \in 1..Len(s.fields) :
         /\ Means(s.reps[i].kind, s.required - 1 - s.reps[i].n, s.reps[i], s.fields[i], h)
         /\ s.reps[i].kind # "plain" => s.reps[i].n < s.required

(* All of it is in the table t, and the newest entry is the one that its   *)
(* Required Insert Count tells.                                            *)
UsesLive(s, t) ==
    /\ s.required # 0 => s.required - 1 \in Live(t)
    /\ \A i \in 1..Len(s.fields) :
         s.reps[i].kind # "plain" => s.required - 1 - s.reps[i].n \in Live(t)

(* The section emitted after such a pass means its fields, and the table   *)
(* right after it has all it refers to.                                    *)
LEMMA SectionOK ==
    ASSUME NEW from, NEW fields \in Seq(Fields), NEW p, NEW h,
           PassOK(from, fields, p, Len(fields), h),
           NEW id, NEW s,
           s = [id |-> id, enc |-> EncodeRequired(Required(p)),
                reps |-> [i \in DOMAIN p.reps |-> Based(p.reps[i], Required(p))],
                fields |-> fields, required |-> Required(p)]
    PROVE  s.id = id /\ SectionMeans(s, h) /\ UsesLive(s, p.table)
<1> DEFINE base == Required(p)
           n == Len(fields)
           reps == [i \in DOMAIN p.reps |-> Based(p.reps[i], base)]
<1>1. /\ p \in PassSet /\ h \in Seq(Entries) /\ Window(p.table, h) /\ p.table.inserts = Len(h)
      /\ p.referenced \subseteq Live(p.table) /\ Len(p.reps) = n
  BY DEF PassOK, Mirrored
<1>2. p.reps \in Seq(Reps) /\ n \in Nat /\ DOMAIN p.reps = 1..n
  BY <1>1, PassParts
<1>3. p.table.inserts \in Nat /\ Len(h) \in Nat
  BY <1>1
<1>4. p.referenced \subseteq 0..p.table.inserts
  BY <1>1 DEF Live
<1>5. p.referenced # {} => /\ Max(p.referenced) \in p.referenced
                           /\ \A y \in p.referenced : y <= Max(p.referenced)
  BY <1>3, <1>4, MaxIsIn
<1>6. /\ base \in 0..Len(h) /\ (base # 0 => base - 1 \in Live(p.table))
      /\ \A abs \in p.referenced : abs \in Nat /\ abs < base /\ abs \in Live(p.table)
  <2>1. CASE p.referenced = {}
    BY <1>3, <2>1 DEF Required
  <2>2. CASE p.referenced # {}
    <3> DEFINE m == Max(p.referenced)
    <3>1. base = m + 1
      BY <2>2 DEF Required
    <3>2. m \in p.referenced /\ \A y \in p.referenced : y <= m
      BY <1>5, <2>2
    <3> HIDE DEF m, base
    <3>3. m \in Nat /\ m < Len(h) /\ m \in Live(p.table)
      BY <1>1, <3>2, LiveIs
    <3>4. base \in 0..Len(h) /\ base - 1 = m /\ base # 0
      BY <1>3, <3>1, <3>3
    <3>5. ASSUME NEW abs \in p.referenced PROVE abs \in Nat /\ abs < base /\ abs \in Live(p.table)
      BY <1>1, <1>4, <3>1, <3>2, <3>3
    <3> QED BY <3>3, <3>4, <3>5
  <2> QED BY <2>1, <2>2
<1> HIDE DEF base
<1>7. ASSUME NEW i \in 1..n
      PROVE  /\ reps[i] \in Reps /\ reps[i].kind = p.reps[i].kind
             /\ reps[i].value = p.reps[i].value /\ reps[i].sensitive = p.reps[i].sensitive
             /\ reps[i].kind = "plain" => reps[i] = p.reps[i]
             /\ reps[i].kind # "plain" => /\ base - 1 - reps[i].n = p.reps[i].n
                                          /\ p.reps[i].n \in Live(p.table)
                                          /\ reps[i].n < base
  <2> DEFINE rep == p.reps[i]
             rel == base - 1 - rep.n
  <2>1. rep \in Reps
    BY <1>2
  <2>2. reps[i] = Based(rep, base)
    BY <1>2
  <2>3. CASE rep.kind = "plain"
    <3>1. reps[i] = rep
      BY <2>2, <2>3 DEF Based
    <3> HIDE DEF reps
    <3> QED BY <2>1, <2>3, <3>1
  <2>4. CASE rep.kind # "plain"
    <3>1. rep.n \in p.referenced
      BY <2>4 DEF PassOK
    <3>2. rep.n \in Nat /\ rep.n < base /\ rep.n \in Live(p.table) /\ base \in Nat
      BY <1>6, <3>1
    <3>3. rel \in Nat /\ rel < base /\ base - 1 - rel = rep.n
      BY <3>2
    <3>4. reps[i] = [rep EXCEPT !.n = rel]
      BY <2>2, <2>4 DEF Based
    <3> HIDE DEF rep, rel, reps
    <3>5. reps[i] = [kind |-> rep.kind, n |-> rel, value |-> rep.value, sensitive |-> rep.sensitive]
      BY <2>1, <3>4 DEF Reps
    <3>6. reps[i] \in Reps
      BY <2>1, <3>3, <3>5 DEF Reps
    <3> QED BY <2>4, <3>2, <3>3, <3>5, <3>6 DEF rep
  <2> QED BY <2>3, <2>4
<1>8. DOMAIN reps = 1..n
  BY <1>2
<1>9. s = [id |-> id, enc |-> EncodeRequired(base), reps |-> reps, fields |-> fields,
           required |-> base]
  BY DEF base
<1> HIDE DEF reps
<1>10. s.id = id /\ s.enc = EncodeRequired(base) /\ s.reps = reps /\ s.fields = fields
       /\ s.required = base
  BY ONLY <1>9
<1>11. reps \in Seq(Reps) /\ Len(reps) = n
  <2>1. reps = [i \in 1..n |-> reps[i]]
    BY <1>8 DEF reps
  <2>2. \A i \in 1..n : reps[i] \in Reps
    BY <1>7
  <2>3. reps \in [1..n -> Reps]
    BY ONLY <2>1, <2>2
  <2> QED BY ONLY <1>2, <2>3, <1>8
<1>12. ASSUME NEW i \in 1..n
       PROVE  Means(reps[i].kind, base - 1 - reps[i].n, reps[i], fields[i], h)
  <2>1. Means(p.reps[i].kind, p.reps[i].n, p.reps[i], fields[i], h)
    BY DEF PassOK
  <2> QED BY <1>7, <2>1 DEF Means
<1>13. SectionMeans(s, h)
  BY <1>6, <1>7, <1>10, <1>11, <1>12 DEF SectionMeans
<1>14. UsesLive(s, p.table)
  BY <1>6, <1>7, <1>10 DEF UsesLive
<1> QED BY <1>10, <1>13, <1>14

-----------------------------------------------------------------------------
(* The Required Insert Count on the wire.                                  *)

(* A number by its quotient and its rest.                                  *)
LEMMA Residue ==
    ASSUME NEW F \in Nat \ {0}, NEW x \in Nat
    PROVE  /\ x \div F \in Nat /\ x % F \in 0..(F - 1)
           /\ x = F * (x \div F) + (x % F)
<1>1. x % F \in 0..(F - 1)
  OBVIOUS
<1>2. x = F * (x \div F) + (x % F)
  OBVIOUS
<1>3. x \div F \in Nat
  OBVIOUS
<1> QED BY <1>1, <1>2, <1>3

(* Two multiples of the same number, by how their factors compare.         *)
LEMMA Multiples ==
    ASSUME NEW F \in Nat, NEW q \in Nat, NEW qq \in Nat
    PROVE  /\ F * q - F * qq \in Int
           /\ q = qq => F * q - F * qq = 0
           /\ q = qq + 1 => F * q - F * qq = F
           /\ q = qq + 2 => F * q - F * qq = 2 * F
           /\ q < qq => F * q - F * qq <= 0 - F
           /\ q > qq + 2 => F * q - F * qq >= 3 * F
<1>1. \A a, b, c \in Int : a * (b + c) = a * b + a * c
  OBVIOUS
<1>2. \A a, b \in Nat : a * b \in Nat
  OBVIOUS
<1>3. F * q \in Nat /\ F * qq \in Nat
  BY <1>2
<1>4. ASSUME q < qq PROVE F * q - F * qq <= 0 - F
  <2>1. PICK j \in Nat : j = qq - q - 1
    BY <1>4
  <2>2. qq = q + (1 + j)
    BY <2>1
  <2>3. F * qq = F * q + F * (1 + j) /\ F * (1 + j) = F * 1 + F * j
    BY <1>1, <2>2
  <2>4. F * j \in Nat /\ F * 1 = F
    BY <1>2
  <2> QED BY <1>3, <2>3, <2>4
<1>5. ASSUME q > qq + 2 PROVE F * q - F * qq >= 3 * F
  <2>1. PICK j \in Nat : j = q - qq - 3
    BY <1>5
  <2>2. q = qq + (3 + j)
    BY <2>1
  <2>3. F * q = F * qq + F * (3 + j) /\ F * (3 + j) = F * 3 + F * j
    BY <1>1, <2>2
  <2>4. F * j \in Nat /\ F * 3 = 3 * F
    BY <1>2
  <2> QED BY <1>3, <2>3, <2>4
<1>6. ASSUME q = qq + 1 PROVE F * q - F * qq = F
  <2>1. F * q = F * qq + F * 1 /\ F * 1 = F
    BY <1>1, <1>6
  <2> QED BY <1>3, <2>1
<1>7. ASSUME q = qq + 2 PROVE F * q - F * qq = 2 * F
  <2>1. F * q = F * qq + F * 2 /\ F * 2 = 2 * F
    BY <1>1, <1>7
  <2> QED BY <1>3, <2>1
<1>8. q = qq => F * q - F * qq = 0
  BY <1>3
<1> QED BY <1>3, <1>4, <1>5, <1>6, <1>7, <1>8

(* The code names the count among those less than MaxEntries below the     *)
(* decoder's Insert Count and at most as many above it; from further off   *)
(* comes one that the decoder does not have yet.                           *)
LEMMA RequiredIsBack ==
    ASSUME dec.table.inserts \in Nat, NEW required \in Nat,
           required <= dec.table.inserts + MaxEntries,
           dec.table.inserts < required + 2 * MaxEntries
    PROVE  /\ RequiredOK(EncodeRequired(required)) => DecodeRequired(EncodeRequired(required)) = required
           /\ required <= dec.table.inserts /\ dec.table.inserts < required + MaxEntries
                => /\ RequiredOK(EncodeRequired(required))
                   /\ DecodeRequired(EncodeRequired(required)) = required
<1> DEFINE M == MaxEntries
           F == FullRange
           I == dec.table.inserts
           code == EncodeRequired(required)
           top == I + M
           q == top \div F
           r == top % F
           qq == required \div F
           rr == required % F
           value == (top \div F) * F + code - 1
           decoded == DecodeRequired(code)
<1>1. M \in Nat /\ F = 2 * M /\ I \in Nat
  BY CapacityAssumption DEF MaxEntries, FullRange
<1>2. CASE required = 0
  <2>1. code = 0
    BY <1>2 DEF EncodeRequired
  <2> QED BY <1>2, <2>1 DEF RequiredOK, DecodeRequired
<1>3. CASE required # 0
  <2>0. required <= I + M /\ I < required + 2 * M
    OBVIOUS
  <2> HIDE DEF M, F, I
  <2>1. M # 0
    BY <1>1, <2>0
  <2>2. F \in Nat \ {0} /\ top \in Nat
    BY <1>1, <2>1
  <2>3. q \in Nat /\ r \in 0..(F - 1) /\ top = F * q + r
    BY <2>2, Residue
  <2>4. qq \in Nat /\ rr \in 0..(F - 1) /\ required = F * qq + rr
    BY <2>2, Residue
  <2>5. code = rr + 1
    BY <1>3 DEF EncodeRequired, F
  <2>6. decoded = IF value > top /\ value > F THEN value - F ELSE value
    <3>1. code # 0
      BY <2>2, <2>4, <2>5
    <3> QED BY <3>1 DEF DecodeRequired, M, F, I
  <2> HIDE DEF code, top
  <2>7. value = F * q + rr
    BY <2>2, <2>3, <2>4, <2>5
  <2> DEFINE w == F * q - F * qq
  <2>8. /\ w \in Int
        /\ q = qq => w = 0
        /\ q = qq + 1 => w = F
        /\ q = qq + 2 => w = 2 * F
        /\ q < qq => w <= 0 - F
        /\ q > qq + 2 => w >= 3 * F
    <3> HIDE DEF q, qq
    <3> QED BY <2>2, <2>3, <2>4, Multiples
  <2>9. F * q \in Int /\ F * qq \in Int
    BY <2>2, <2>3, <2>4
  <2>10. value = required + w
    <3> DEFINE a == F * q
               b == F * qq
    <3> HIDE DEF a, b, rr, value
    <3>1. a \in Int /\ b \in Int /\ rr \in Int /\ value = a + rr /\ required = b + rr /\ w = a - b
      BY <2>2, <2>4, <2>7, <2>9 DEF a, b
    <3> HIDE DEF w
    <3> QED BY ONLY <3>1
  <2>11. top - required = w + r - rr
    <3> DEFINE a == F * q
               b == F * qq
    <3> HIDE DEF a, b, rr, r
    <3>1. a \in Int /\ b \in Int /\ rr \in Int /\ r \in Int /\ top = a + r
          /\ required = b + rr /\ w = a - b
      BY <2>2, <2>3, <2>4, <2>9 DEF a, b
    <3> HIDE DEF w
    <3> QED BY ONLY <3>1
  <2>12. code <= F /\ code # 0
    BY <2>2, <2>4, <2>5
  <2> HIDE DEF q, qq, r, rr, value, w, decoded
  <2>13. required <= top /\ top < required + 3 * M /\ top = I + M
    BY <1>1, <2>0 DEF top
  <2>14. q \in {qq, qq + 1, qq + 2}
    <3>1. r - rr > 0 - F /\ r - rr < F
      BY <2>2, <2>3, <2>4
    <3>2. ~(w <= 0 - F)
      BY <1>1, <2>2, <2>3, <2>4, <2>8, <2>11, <2>13, <3>1
    <3>3. ~(w >= 3 * F)
      BY <1>1, <2>2, <2>3, <2>4, <2>8, <2>11, <2>13, <3>1
    <3> QED BY <2>3, <2>4, <2>8, <3>2, <3>3
  <2>15. RequiredOK(code) <=> decoded \in 1..I
    BY <2>12 DEF RequiredOK, F, I, decoded
  <2>16. decoded \in 1..I => decoded = required
    <3>1. CASE q = qq
      BY <1>1, <1>3, <2>6, <2>8, <2>10, <2>13, <3>1
    <3>2. CASE q = qq + 1
      BY <1>1, <1>3, <2>6, <2>8, <2>10, <2>13, <3>2
    <3>3. CASE q = qq + 2
      BY <1>1, <1>3, <2>6, <2>8, <2>10, <2>13, <3>3
    <3> QED BY <2>14, <3>1, <3>2, <3>3
  <2>17. required <= I /\ I < required + M => decoded = required
    <3>1. CASE q = qq
      BY <1>1, <1>3, <2>6, <2>8, <2>10, <2>13, <3>1
    <3>2. CASE q = qq + 1
      BY <1>1, <1>3, <2>6, <2>8, <2>10, <2>13, <3>2
    <3>3. CASE q = qq + 2
      <4>1. r - rr > 0 - F
        BY <2>2, <2>3, <2>4
      <4> QED BY <1>1, <1>3, <2>2, <2>3, <2>4, <2>8, <2>11, <2>13, <3>3, <4>1
    <3> QED BY <2>14, <3>1, <3>2, <3>3
  <2>18. required <= I /\ I < required + M => RequiredOK(code) /\ decoded = required
    BY <1>1, <1>3, <2>15, <2>17
  <2> QED BY <2>15, <2>16, <2>18 DEF code, decoded, I, M
<1> QED BY <1>2, <1>3

-----------------------------------------------------------------------------
(* Decoding a section.                                                     *)

(* A reference is below the base and live where the section's is.          *)
LEMMA ResolvesRight ==
    ASSUME NEW h \in Seq(Entries), Window(dec.table, h), NEW s, SectionMeans(s, h),
           NEW i \in 1..Len(s.fields)
    PROVE  /\ Resolvable(s.reps[i], s.required) => Resolve(s.reps[i], s.required) = s.fields[i]
           /\ UsesLive(s, dec.table) => Resolvable(s.reps[i], s.required)
<1> DEFINE rep == s.reps[i]
           f == s.fields[i]
           base == s.required
           abs == base - 1 - rep.n
           e == GetAbsolute(dec.table, base - 1 - rep.n)
<1>1. /\ s.fields \in Seq(Fields) /\ s.reps \in Seq(Reps) /\ Len(s.reps) = Len(s.fields)
      /\ Means(rep.kind, abs, rep, f, h)
      /\ rep.kind # "plain" => rep.n < base
  BY DEF SectionMeans
<1>2. f \in Fields /\ rep \in Reps
  BY <1>1
<1>3. /\ f = [name |-> f.name, value |-> f.value, sensitive |-> f.sensitive]
      /\ f.sensitive \in BOOLEAN /\ Entry(f) = [name |-> f.name, value |-> f.value]
  BY <1>2, FieldParts
<1>4. rep.kind \in {"plain", "indexed", "name"}
  BY <1>2 DEF Reps
<1>5. UsesLive(s, dec.table) /\ rep.kind # "plain" => abs \in Live(dec.table)
  BY DEF UsesLive
<1>6. UsesLive(s, dec.table) => Resolvable(rep, base)
  BY <1>1, <1>5 DEF Resolvable
<1>7. ASSUME Resolvable(rep, base), rep.kind # "plain" PROVE e = h[abs + 1]
  <2>1. abs \in Live(dec.table)
    BY <1>7 DEF Resolvable
  <2> HIDE DEF abs
  <2>2. GetAbsolute(dec.table, abs) = h[abs + 1]
    BY <2>1, LiveIs
  <2> QED BY <2>2 DEF abs
<1> HIDE DEF rep, f, base
<1>8. ASSUME Resolvable(rep, base) PROVE Resolve(rep, base) = f
  <2>1. CASE rep.kind = "plain"
    BY <1>1, <1>3, <2>1 DEF Means, Resolve
  <2>2. CASE rep.kind = "indexed"
    <3>1. e = Entry(f) /\ ~f.sensitive
      BY <1>1, <1>7, <1>8, <2>2 DEF Means
    <3>2. e.name = f.name /\ e.value = f.value /\ f.sensitive = FALSE
      BY <1>3, <3>1
    <3>3. Resolve(rep, base) = [name |-> e.name, value |-> e.value, sensitive |-> FALSE]
      BY <2>2 DEF Resolve
    <3> HIDE DEF e
    <3> QED BY <1>3, <3>2, <3>3
  <2>3. CASE rep.kind = "name"
    <3>1. e.name = f.name /\ rep.value = f.value /\ rep.sensitive = f.sensitive
      BY <1>1, <1>7, <1>8, <2>3 DEF Means
    <3>2. Resolve(rep, base) = [name |-> e.name, value |-> rep.value, sensitive |-> rep.sensitive]
      BY <2>3 DEF Resolve
    <3> HIDE DEF e
    <3> QED BY <1>3, <3>1, <3>2
  <2> QED BY <1>4, <2>1, <2>2, <2>3
<1> QED BY <1>6, <1>8 DEF rep, f, base

(* Up to field i: right so far, over the cap and known to be, or refused   *)
(* for a reference.                                                        *)
DecodedUpTo(s, d, i) ==
    /\ d = [status |-> d.status, used |-> d.used, got |-> d.got]
    /\ d.status \in {"ok", "corrupt", "limit"}
    /\ d.status = "ok" => /\ d.got = SubSeq(s.fields, 1, i)
                          /\ d.used = Sizes(s.fields)[i] /\ d.used <= MaxSection
    /\ d.status = "limit" => Sizes(s.fields)[i] > MaxSection
    /\ UsesLive(s, dec.table) => d.status # "corrupt"

(* A section whose Required Insert Count has come back decodes, over any   *)
(* table of the history, to its fields, or is refused; with all it refers  *)
(* to in the table it is refused for its size only.                        *)
LEMMA SectionDecodes ==
    ASSUME NEW h \in Seq(Entries), Window(dec.table, h), NEW s, SectionMeans(s, h)
    PROVE  DecodedUpTo(s, DecodeReps(s.reps, s.required)[Len(s.reps)], Len(s.fields))
<1> DEFINE n == Len(s.fields)
           base == s.required
           D(i) == DecodeReps(s.reps, base)[i]
           S == {i \in 0..n : DecodedUpTo(s, D(i), i)}
           sum == Sizes(s.fields)
<1>1. s.fields \in Seq(Fields) /\ n \in Nat /\ Len(s.reps) = n
  BY DEF SectionMeans
<1>2. /\ D(0) = [status |-> "ok", used |-> 0, got |-> << >>]
      /\ \A i \in 1..n : D(i) = DecodeRep(D(i - 1), s.reps[i], base)
  BY <1>1, DecodedAre
<1>3. /\ sum[0] = 0
      /\ \A i \in 1..n : sum[i] = sum[i - 1] + EntrySize(s.fields[i].name, s.fields[i].value)
  BY <1>1, SizesAre
<1>4. \A i \in 1..n : s.fields[i] \in Fields /\ s.fields[i].value \in Nat
  BY <1>1, FieldParts
<1>5. (\A i \in 0..n : sum[i] \in Nat) /\ \A i \in 1..n : sum[i - 1] <= sum[i]
  BY <1>1, <1>4, SizesGrow
<1> HIDE DEF D, n, sum
<1>6. 0 \in S
  <2>1. SubSeq(s.fields, 1, 0) = << >>
    BY <1>1
  <2>2. DecodedUpTo(s, D(0), 0)
    <3>1. D(0).status = "ok" /\ D(0).used = 0 /\ D(0).got = << >>
          /\ D(0) = [status |-> D(0).status, used |-> D(0).used, got |-> D(0).got]
      BY <1>2
    <3>2. sum[0] = 0 /\ 0 <= MaxSection
      BY <1>3, CapacityAssumption
    <3> QED BY <2>1, <3>1, <3>2 DEF DecodedUpTo, sum
  <2> QED BY <1>1, <2>2
<1>7. \A i \in 1..n : i - 1 \in S => i \in S
  <2> SUFFICES ASSUME NEW i \in 1..n, i - 1 \in S PROVE i \in S
    OBVIOUS
  <2> DEFINE d == D(i - 1)
             k == i - 1
             rep == s.reps[i]
             f == s.fields[i]
             size == EntrySize(f.name, f.value)
  <2>1. k \in 0..n /\ i \in 0..n /\ k + 1 = i /\ k \in Nat
    BY <1>1
  <2>2. DecodedUpTo(s, d, k)
    OBVIOUS
  <2>3. D(i) = DecodeRep(d, rep, base)
    BY <1>2
  <2>4. sum[i] = sum[k] + size /\ sum[k] \in Nat /\ sum[i] \in Nat /\ sum[k] <= sum[i]
    BY <1>3, <1>5, <2>1
  <2>5. /\ Resolvable(rep, base) => Resolve(rep, base) = f
        /\ UsesLive(s, dec.table) => Resolvable(rep, base)
    BY ResolvesRight DEF n
  <2>6. Append(SubSeq(s.fields, 1, k), f) = SubSeq(s.fields, 1, i)
    BY <1>1, <2>1 DEF n
  <2> HIDE DEF d, k, rep, f, base, size
  <2>7. CASE d.status # "ok"
    <3>1. D(i) = d
      BY <2>3, <2>7 DEF DecodeRep
    <3>2. DecodedUpTo(s, d, i)
      BY <2>2, <2>4, <2>7, CapacityAssumption DEF DecodedUpTo, sum
    <3> QED BY <2>1, <3>1, <3>2
  <2>8. CASE d.status = "ok" /\ ~Resolvable(rep, base)
    <3>1. D(i) = [d EXCEPT !.status = "corrupt"]
      BY <2>3, <2>8 DEF DecodeRep
    <3>2. D(i) = [status |-> "corrupt", used |-> d.used, got |-> d.got]
      BY <2>2, <3>1 DEF DecodedUpTo
    <3>3. ~UsesLive(s, dec.table)
      BY <2>5, <2>8
    <3>4. DecodedUpTo(s, D(i), i)
      BY <3>2, <3>3 DEF DecodedUpTo
    <3> QED BY <2>1, <3>4
  <2>9. CASE d.status = "ok" /\ Resolvable(rep, base)
    <3>1. Resolve(rep, base) = f /\ d.used = sum[k] /\ d.got = SubSeq(s.fields, 1, k)
      BY <2>2, <2>5, <2>9 DEF DecodedUpTo, sum
    <3>2. d.used + EntrySize(f.name, f.value) = sum[i]
      BY <2>4, <3>1 DEF size
    <3>3. CASE sum[i] > MaxSection
      <4>1. D(i) = [d EXCEPT !.status = "limit"]
        BY <2>3, <2>9, <3>1, <3>2, <3>3 DEF DecodeRep
      <4>2. D(i) = [status |-> "limit", used |-> d.used, got |-> d.got]
        BY <2>2, <4>1 DEF DecodedUpTo
      <4>3. DecodedUpTo(s, D(i), i)
        BY <3>3, <4>2 DEF DecodedUpTo, sum
      <4> QED BY <2>1, <4>3
    <3>4. CASE ~(sum[i] > MaxSection)
      <4>1. D(i) = [d EXCEPT !.used = sum[i], !.got = Append(d.got, f)]
        BY <2>3, <2>9, <3>1, <3>2, <3>4 DEF DecodeRep
      <4>2. Append(d.got, f) = SubSeq(s.fields, 1, i)
        BY <2>6, <3>1
      <4>3. D(i) = [status |-> "ok", used |-> sum[i], got |-> SubSeq(s.fields, 1, i)]
        BY <2>2, <2>9, <4>1, <4>2 DEF DecodedUpTo
      <4>4. sum[i] <= MaxSection
        BY <2>4, <3>4, CapacityAssumption
      <4>5. DecodedUpTo(s, D(i), i)
        BY <4>3, <4>4 DEF DecodedUpTo, sum
      <4> QED BY <2>1, <4>5
    <3> QED BY <3>3, <3>4
  <2> QED BY <2>7, <2>8, <2>9
<1> HIDE DEF S
<1>8. \A i \in 0..n : i \in S
  BY ONLY <1>1, <1>6, <1>7, ByPlace
<1>9. n \in S
  BY <1>1, <1>8
<1> QED BY <1>1, <1>9 DEF S, D, n

-----------------------------------------------------------------------------
(* The invariant: T are the tables a decoder passes through when it is fed *)
(* the chunks that are under way, from what it has to the encoder's        *)
(* mirror; h are all entries ever inserted, of which each table holds a    *)
(* part; a section means its fields over h, and the table right after its  *)
(* own chunk has all it refers to.                                         *)

Chain(T, h) ==
    /\ T \in [0..Len(estream) -> Tables]
    /\ T[0] = dec.table /\ T[Len(estream)] = Mirror(enc)
    /\ \A j \in 0..Len(estream) : Window(T[j], h)
    /\ \A j \in 1..Len(estream) : ApplyAll(Whole(T[j - 1]), estream[j]) = Whole(T[j])

(* A section whose chunk is still to be fed, or was fed last, finds what   *)
(* it refers to in the table right after that chunk.                       *)
OwnTable(s, T) ==
    /\ s.id \in Nat /\ s.id <= sent
    /\ s.id >= fed => UsesLive(s, T[s.id - fed])

(* The decoder has not failed, and chunks are counted right.               *)
Counts ==
    /\ fed \in Nat /\ estream \in Seq(Seq(Instructions)) /\ sent = fed + Len(estream)
    /\ enc.announced \in BOOLEAN /\ dec = Whole(dec.table)

IInv ==
    /\ Counts
    /\ \E h, T : /\ Mirrored(enc, h) /\ Chain(T, h)
                 /\ \A s \in sections : SectionMeans(s, h) /\ OwnTable(s, T)

(* The invariant holds at the start.                                       *)
LEMMA Initially == Init => IInv
<1> SUFFICES ASSUME Init PROVE IInv
  OBVIOUS
<1> DEFINE h == << >>
           T == [j \in 0..0 |-> dec.table]
<1>1. enc.table = NewTable(Capacity) /\ enc.announced = FALSE /\ dec.table = NewTable(0)
      /\ dec = Whole(dec.table)
  BY DEF Init, Whole
<1>2. /\ fed = 0 /\ sent = 0 /\ estream = << >> /\ sections = {}
      /\ Len(estream) = 0 /\ estream \in Seq(Seq(Instructions))
  BY DEF Init
<1>3. Counts
  <2>1. enc.announced \in BOOLEAN
    BY <1>1
  <2>2. fed \in Nat /\ sent = fed + Len(estream)
    BY <1>2
  <2> QED BY <1>1, <1>2, <2>1, <2>2 DEF Counts
<1>4. h \in Seq(Entries) /\ Len(h) = 0
  OBVIOUS
<1>5. Window(enc.table, h) /\ Window(dec.table, h) /\ enc.table.inserts = Len(h)
  BY <1>1, <1>4, NewTableIs DEF NewTable
<1>6. Mirrored(enc, h)
  BY <1>1, <1>4, <1>5 DEF Mirrored
<1>7. T[0] = dec.table /\ Mirror(enc) = dec.table /\ dec.table \in Tables
  BY <1>1, <1>5 DEF Mirror, Window
<1> HIDE DEF h
<1>8. Chain(T, h)
  BY <1>2, <1>5, <1>7 DEF Chain
<1> HIDE DEF T
<1> QED BY <1>2, <1>3, <1>6, <1>8 DEF IInv

(* What was announced or not, the mirror has the encoder's entries.        *)
LEMMA MirrorLive ==
    ASSUME NEW e, NEW h, Mirrored(e, h)
    PROVE  /\ Live(Mirror(e)) = Live(e.table) /\ Mirror(e).inserts = e.table.inserts
           /\ Mirror(e).entries = e.table.entries /\ Mirror(e).dropped = e.table.dropped
           /\ Window(Mirror(e), h)
<1>1. CASE e.announced
  BY <1>1 DEF Mirror, Mirrored
<1>2. CASE ~e.announced
  <2>1. Mirror(e) = NewTable(0) /\ e.table = NewTable(Capacity)
    BY <1>2 DEF Mirror, Mirrored
  <2>2. /\ NewTable(0).inserts = 0 /\ NewTable(0).dropped = 0 /\ NewTable(0).entries = << >>
        /\ NewTable(Capacity).inserts = 0 /\ NewTable(Capacity).dropped = 0
        /\ NewTable(Capacity).entries = << >>
    BY DEF NewTable
  <2>3. h \in Seq(Entries) /\ Len(h) = 0
    BY <2>1, <2>2 DEF Mirrored
  <2>4. h = << >>
    BY <2>3
  <2>5. Live(NewTable(0)) = Live(NewTable(Capacity))
    BY <2>2 DEF Live
  <2>6. Window(NewTable(0), h)
    BY <2>4, NewTableIs
  <2> QED BY <2>1, <2>2, <2>5, <2>6
<1> QED BY <1>1, <1>2

(* Encode adds a chunk at the end of the chain.                            *)
LEMMA EncodeKeeps ==
    ASSUME IInv, NEW fields \in Seq(Fields), Encode(fields)
    PROVE  IInv'
<1>1. PICK h, T : /\ Mirrored(enc, h) /\ Chain(T, h)
                  /\ \A s \in sections : SectionMeans(s, h) /\ OwnTable(s, T)
  BY DEF IInv
<1> DEFINE p == Passes(enc, fields)[Len(fields)]
           from == Mirror(enc)
           n == Len(estream)
           new == [id |-> sent + 1, enc |-> EncodeRequired(Required(p)),
                   reps |-> [i \in DOMAIN p.reps |-> Based(p.reps[i], Required(p))],
                   fields |-> fields, required |-> Required(p)]
<1>2. /\ enc' = [table |-> p.table, announced |-> p.announced]
      /\ estream' = Append(estream, p.chunk) /\ sections' = sections \cup {new}
      /\ sent' = sent + 1 /\ dec' = dec /\ fed' = fed
  BY DEF Encode
<1>3. /\ fed \in Nat /\ estream \in Seq(Seq(Instructions)) /\ sent = fed + n
      /\ enc.announced \in BOOLEAN /\ dec = Whole(dec.table) /\ n \in Nat
  BY DEF IInv, Counts
<1>4. PICK g : Extends(h, g) /\ PassOK(from, fields, p, Len(fields), g)
  BY <1>1, <1>3, WholePass
<1>5. new.id = sent + 1 /\ SectionMeans(new, g) /\ UsesLive(new, p.table)
  <2> DEFINE id == sent + 1
             s == [id |-> id, enc |-> EncodeRequired(Required(p)),
                   reps |-> [i \in DOMAIN p.reps |-> Based(p.reps[i], Required(p))],
                   fields |-> fields, required |-> Required(p)]
  <2> HIDE DEF p, id, from
  <2>1. PICK ss : ss = s
    OBVIOUS
  <2> HIDE DEF s
  <2>2. ss.id = id /\ SectionMeans(ss, g) /\ UsesLive(ss, p.table)
    BY <1>4, <2>1, SectionOK DEF s
  <2> QED BY <2>1, <2>2 DEF s, id
<1> HIDE DEF p, new, from
<1>6. /\ p \in PassSet /\ Mirrored(p, g) /\ ApplyAll(Whole(from), p.chunk) = Whole(Mirror(p))
  BY <1>4 DEF PassOK
<1>7. p.announced \in BOOLEAN /\ p.chunk \in Seq(Instructions)
  BY <1>6, PassParts
<1>8. enc'.table = p.table /\ enc'.announced = p.announced
  BY <1>2
<1>9. Mirrored(enc', g) /\ Mirror(enc') = Mirror(p)
  BY <1>6, <1>8 DEF Mirrored, Mirror
<1>10. /\ estream' \in Seq(Seq(Instructions)) /\ Len(estream') = n + 1
       /\ estream'[n + 1] = p.chunk /\ \A j \in 1..n : estream'[j] = estream[j]
  BY <1>2, <1>3, <1>7
<1>11. Counts'
  <2>1. sent' = fed' + Len(estream')
    BY <1>2, <1>3, <1>10
  <2>2. enc'.announced \in BOOLEAN
    BY <1>7, <1>8
  <2>3. dec' = Whole(dec'.table)
    BY <1>2, <1>3
  <2> QED BY <1>2, <1>3, <1>10, <2>1, <2>2, <2>3 DEF Counts
<1>12. h \in Seq(Entries) /\ g \in Seq(Entries)
  BY <1>1, <1>6 DEF Mirrored
<1> DEFINE U == [j \in 0..(n + 1) |-> IF j = n + 1 THEN Mirror(p) ELSE T[j]]
<1>13. /\ U[n + 1] = Mirror(p) /\ \A j \in 0..n : U[j] = T[j]
  BY <1>3
<1>14. Window(Mirror(p), g) /\ Live(Mirror(p)) = Live(p.table)
  BY <1>6, MirrorLive
<1>15. \A j \in 0..n : Window(T[j], h)
  BY <1>1 DEF Chain
<1>16. \A j \in 0..n : Window(T[j], g)
  BY <1>4, <1>12, <1>15, WindowGrows
<1>17. \A j \in 0..(n + 1) : Window(U[j], g)
  <2> TAKE j \in 0..(n + 1)
  <2>1. CASE j = n + 1
    BY <1>13, <1>14, <2>1
  <2>2. CASE j # n + 1
    <3>1. j \in 0..n
      BY <1>3, <2>2
    <3> QED BY <1>13, <1>16, <3>1
  <2> QED BY <2>1, <2>2
<1>18. \A j \in 1..(n + 1) : ApplyAll(Whole(U[j - 1]), estream'[j]) = Whole(U[j])
  <2> TAKE j \in 1..(n + 1)
  <2>1. CASE j = n + 1
    <3>1. j - 1 = n /\ n \in 0..n
      BY <1>3, <2>1
    <3>2. U[j - 1] = from
      BY <1>1, <1>13, <3>1 DEF Chain, from
    <3> QED BY <1>6, <1>10, <1>13, <2>1, <3>2
  <2>2. CASE j # n + 1
    <3>1. j \in 1..n /\ j \in 0..n /\ j - 1 \in 0..n
      BY <1>3, <2>2
    <3>2. ApplyAll(Whole(T[j - 1]), estream[j]) = Whole(T[j])
      BY <1>1, <3>1 DEF Chain
    <3> QED BY <1>10, <1>13, <3>1, <3>2
  <2> QED BY <2>1, <2>2
<1>19. U[0] = dec.table
  <2>1. 0 \in 0..n
    BY <1>3
  <2> QED BY <1>1, <1>13, <2>1 DEF Chain
<1>20. U \in [0..(n + 1) -> Tables]
  BY <1>17 DEF Window
<1>20a. PICK W : W = U
  OBVIOUS
<1> HIDE DEF U
<1>21. Chain(W, g)'
  <2>1. Len(estream') = n + 1
    BY <1>10
  <2> HIDE DEF n
  <2> QED BY <1>2, <1>9, <1>13, <1>17, <1>18, <1>19, <1>20, <1>20a, <2>1 DEF Chain
<1>22. ASSUME NEW s \in sections' PROVE SectionMeans(s, g) /\ OwnTable(s, W)'
  <2>1. CASE s = new
    <3>1. s.id \in Nat /\ s.id <= sent' /\ s.id - fed = n + 1
      BY <1>2, <1>3, <1>5, <2>1
    <3>2. UsesLive(s, W[n + 1])
      BY <1>5, <1>13, <1>14, <1>20a, <2>1 DEF UsesLive
    <3> QED BY <1>2, <1>5, <2>1, <3>1, <3>2 DEF OwnTable
  <2>2. CASE s # new
    <3>1. s \in sections
      BY <1>2, <2>2
    <3>2. SectionMeans(s, h) /\ OwnTable(s, T)
      BY <1>1, <3>1
    <3>3. SectionMeans(s, g)
      <4>1. Len(h) <= Len(g) /\ Len(h) \in Nat /\ Len(g) \in Nat
        BY <1>4, <1>12 DEF Extends
      <4>2. \A i \in 1..Len(s.fields) :
              Means(s.reps[i].kind, s.required - 1 - s.reps[i].n, s.reps[i], s.fields[i], g)
        BY <1>4, <1>12, <3>2, MeansLonger DEF SectionMeans
      <4>3. s.required \in 0..Len(g)
        BY <3>2, <4>1 DEF SectionMeans
      <4> QED BY <3>2, <4>2, <4>3 DEF SectionMeans
    <3>4. s.id \in Nat /\ s.id <= sent'
      BY <1>2, <1>3, <3>2 DEF OwnTable
    <3>5. ASSUME s.id >= fed PROVE UsesLive(s, W[s.id - fed])
      <4>1. s.id - fed \in 0..n
        BY <1>3, <3>2, <3>5 DEF OwnTable
      <4> QED BY <1>13, <1>20a, <3>2, <3>5, <4>1 DEF OwnTable
    <3> QED BY <1>2, <3>3, <3>4, <3>5 DEF OwnTable
  <2> QED BY <2>1, <2>2
<1> QED BY <1>9, <1>11, <1>21, <1>22 DEF IInv

(* Feed takes the first chunk off the chain.                               *)
LEMMA FeedKeeps ==
    ASSUME IInv, Feed
    PROVE  IInv'
<1>1. PICK h, T : /\ Mirrored(enc, h) /\ Chain(T, h)
                  /\ \A s \in sections : SectionMeans(s, h) /\ OwnTable(s, T)
  BY DEF IInv
<1> DEFINE n == Len(estream)
<1>2. /\ estream # << >> /\ dec' = ApplyAll(dec, Head(estream)) /\ estream' = Tail(estream)
      /\ fed' = fed + 1 /\ enc' = enc /\ sections' = sections /\ sent' = sent
  BY DEF Feed
<1>3. /\ fed \in Nat /\ estream \in Seq(Seq(Instructions)) /\ sent = fed + n
      /\ enc.announced \in BOOLEAN /\ dec = Whole(dec.table) /\ n \in Nat \ {0}
  BY <1>2 DEF IInv, Counts
<1>4. /\ estream' \in Seq(Seq(Instructions)) /\ Len(estream') = n - 1
      /\ \A j \in 1..(n - 1) : estream'[j] = estream[j + 1]
      /\ Head(estream) = estream[1]
  BY <1>2, <1>3
<1>5. /\ T \in [0..n -> Tables] /\ T[0] = dec.table /\ T[n] = Mirror(enc)
      /\ \A j \in 0..n : Window(T[j], h)
      /\ \A j \in 1..n : ApplyAll(Whole(T[j - 1]), estream[j]) = Whole(T[j])
  BY <1>1 DEF Chain
<1>6. dec' = Whole(T[1])
  <2>1. 1 \in 1..n /\ 1 - 1 = 0
    BY <1>3
  <2>2. ApplyAll(Whole(T[0]), estream[1]) = Whole(T[1])
    BY <1>5, <2>1
  <2> QED BY <1>2, <1>3, <1>4, <1>5, <2>2
<1>7. dec'.table = T[1]
  BY <1>6 DEF Whole
<1>8. Counts'
  <2>1. fed' \in Nat /\ sent' = fed' + Len(estream')
    BY <1>2, <1>3, <1>4
  <2>2. dec' = Whole(dec'.table)
    BY <1>6, <1>7
  <2> QED BY <1>2, <1>3, <1>4, <2>1, <2>2 DEF Counts
<1> DEFINE U == [j \in 0..(n - 1) |-> T[j + 1]]
<1>9. PICK W : W = U
  OBVIOUS
<1>10. \A j \in 0..(n - 1) : W[j] = T[j + 1] /\ j + 1 \in 0..n
  BY <1>3, <1>9
<1>11. W \in [0..(n - 1) -> Tables] /\ \A j \in 0..(n - 1) : Window(W[j], h)
  <2>1. \A j \in 0..(n - 1) : Window(W[j], h)
    BY <1>5, <1>10
  <2> QED BY <1>9, <2>1 DEF Window
<1>12. W[0] = T[1] /\ W[n - 1] = T[n]
  <2>1. 0 \in 0..(n - 1) /\ n - 1 \in 0..(n - 1) /\ (n - 1) + 1 = n
    BY <1>3
  <2> QED BY <1>10, <2>1
<1>13. \A j \in 1..(n - 1) : ApplyAll(Whole(W[j - 1]), estream'[j]) = Whole(W[j])
  <2> TAKE j \in 1..(n - 1)
  <2>1. j \in 0..(n - 1) /\ j - 1 \in 0..(n - 1) /\ j + 1 \in 1..n /\ (j - 1) + 1 = j
        /\ (j + 1) - 1 = j
    BY <1>3
  <2>2. W[j] = T[j + 1] /\ W[j - 1] = T[j] /\ estream'[j] = estream[j + 1]
    BY <1>4, <1>10, <2>1
  <2>3. ApplyAll(Whole(T[(j + 1) - 1]), estream[j + 1]) = Whole(T[j + 1])
    BY <1>5, <2>1
  <2> QED BY <2>1, <2>2, <2>3
<1> HIDE DEF U
<1>14. Mirror(enc') = Mirror(enc) /\ Mirrored(enc', h)
  BY <1>1, <1>2
<1>15. Chain(W, h)'
  <2>1. Len(estream') = n - 1
    BY <1>4
  <2> HIDE DEF n
  <2> QED BY <1>5, <1>7, <1>11, <1>12, <1>13, <1>14, <2>1 DEF Chain
<1>16. ASSUME NEW s \in sections' PROVE SectionMeans(s, h) /\ OwnTable(s, W)'
  <2>1. SectionMeans(s, h) /\ OwnTable(s, T)
    BY <1>1, <1>2
  <2>2. s.id \in Nat /\ s.id <= sent'
    BY <1>2, <2>1 DEF OwnTable
  <2>3. ASSUME s.id >= fed' PROVE UsesLive(s, W[s.id - fed'])
    <3>1. s.id - fed' \in 0..(n - 1) /\ (s.id - fed') + 1 = s.id - fed /\ s.id >= fed
      BY <1>2, <1>3, <2>1, <2>3 DEF OwnTable
    <3>2. W[s.id - fed'] = T[s.id - fed]
      BY <1>10, <3>1
    <3> QED BY <2>1, <3>1, <3>2 DEF OwnTable
  <2> QED BY <2>1, <2>2, <2>3 DEF OwnTable
<1> QED BY <1>8, <1>14, <1>15, <1>16 DEF IInv

(* Decoding a section leaves the tables alone.                             *)
LEMMA DecodeKeeps ==
    ASSUME IInv, NEW s \in sections, DecodeSection(s)
    PROVE  IInv'
<1>1. PICK h, T : /\ Mirrored(enc, h) /\ Chain(T, h)
                  /\ \A r \in sections : SectionMeans(r, h) /\ OwnTable(r, T)
  BY DEF IInv
<1>2. /\ sections' \subseteq sections /\ enc' = enc /\ dec' = dec /\ estream' = estream
      /\ sent' = sent /\ fed' = fed
  BY DEF DecodeSection
<1>3. Counts'
  BY <1>2 DEF IInv, Counts
<1>4. Mirrored(enc', h) /\ Chain(T, h)'
  BY <1>1, <1>2 DEF Chain
<1>5. \A r \in sections' : SectionMeans(r, h) /\ OwnTable(r, T)'
  BY <1>1, <1>2 DEF OwnTable
<1> QED BY <1>3, <1>4, <1>5 DEF IInv

LEMMA IdleKeeps ==
    ASSUME IInv, UNCHANGED vars
    PROVE  IInv'
<1>1. PICK h, T : /\ Mirrored(enc, h) /\ Chain(T, h)
                  /\ \A r \in sections : SectionMeans(r, h) /\ OwnTable(r, T)
  BY DEF IInv
<1>2. /\ sections' = sections /\ enc' = enc /\ dec' = dec /\ estream' = estream
      /\ sent' = sent /\ fed' = fed
  BY DEF vars
<1>3. Counts'
  BY <1>2 DEF IInv, Counts
<1>4. Mirrored(enc', h) /\ Chain(T, h)'
  BY <1>1, <1>2 DEF Chain
<1>5. \A r \in sections' : SectionMeans(r, h) /\ OwnTable(r, T)'
  BY <1>1, <1>2 DEF OwnTable
<1> QED BY <1>3, <1>4, <1>5 DEF IInv

(* Encode is given sequences of fields.                                    *)
LEMMA FieldSequences ==
    ASSUME NEW fields \in SeqOf(Fields, MaxFields)
    PROVE  fields \in Seq(Fields)
<1>1. PICK m \in 0..MaxFields : fields \in [1..m -> Fields]
  BY DEF SeqOf
<1>2. m \in Nat
  BY BoundAssumption
<1> QED BY <1>1, <1>2

(* IInv holds in every reachable state: QpackEncoder::encode and           *)
(* QpackDecoder::feed_encoder_stream keep the tables, the chunks and the   *)
(* sections under way in step.                                             *)
THEOREM Invariant == Spec => []IInv
<1>1. Init => IInv
  BY Initially
<1>2. IInv /\ [Next]_vars => IInv'
  <2> SUFFICES ASSUME IInv, [Next]_vars PROVE IInv'
    OBVIOUS
  <2>1. ASSUME NEW fields \in SeqOf(Fields, MaxFields), Encode(fields) PROVE IInv'
    BY <2>1, EncodeKeeps, FieldSequences
  <2>2. CASE Feed
    BY <2>2, FeedKeeps
  <2>3. ASSUME NEW s \in sections, DecodeSection(s) PROVE IInv'
    BY <2>3, DecodeKeeps
  <2>4. CASE UNCHANGED vars
    BY <2>4, IdleKeeps
  <2> QED BY <2>1, <2>2, <2>3, <2>4 DEF Next
<1> QED BY <1>1, <1>2, PTL DEF Spec

-----------------------------------------------------------------------------
(* What follows from it.                                                   *)

(* A table of the decoder has no more entries than MaxEntries.             *)
LEMMA FewEntries ==
    ASSUME NEW t, NEW h, Window(t, h)
    PROVE  Len(t.entries) \in Nat /\ Len(t.entries) <= MaxEntries
<1>1. /\ t.entries \in Seq(Entries) /\ Len(t.entries) \in Nat /\ t.capacity \in Nat
      /\ TotalSize(t.entries) <= t.capacity /\ t.capacity <= Capacity
  BY TableParts DEF Window
<1>2. ASSUME NEW i \in 1..Len(t.entries) PROVE t.entries[i].value \in Nat
  <2>1. t.entries[i] \in Entries
    BY <1>1
  <2> QED BY <2>1 DEF Entries
<1>3. 33 * Len(t.entries) <= TotalSize(t.entries) /\ TotalSize(t.entries) \in Nat
  BY <1>1, <1>2, TotalBounds
<1>4. 33 * Len(t.entries) <= Capacity
  BY <1>1, <1>3, CapacityAssumption
<1>5. Len(t.entries) <= Capacity \div 32
  BY <1>1, <1>4, CapacityAssumption
<1> QED BY <1>1, <1>5 DEF MaxEntries

(* OwnTable gives a section its references, so it is not refused for one.  *)
LEMMA OwnChunkHolds == IInv => OwnChunkDecodes
<1> SUFFICES ASSUME IInv, NEW s \in sections, fed = s.id
             PROVE  IF TotalSize(s.fields) > MaxSection
                    THEN DecodeResult(s).status = "limit"
                    ELSE DecodeResult(s).status = "ok" /\ DecodeResult(s).got = s.fields
  BY DEF OwnChunkDecodes
<1>1. PICK h, T : /\ Mirrored(enc, h) /\ Chain(T, h)
                  /\ SectionMeans(s, h) /\ OwnTable(s, T)
  BY DEF IInv
<1>2. fed \in Nat /\ estream \in Seq(Seq(Instructions)) /\ Len(estream) \in Nat
  BY DEF IInv, Counts
<1>3. Window(dec.table, h) /\ T[0] = dec.table
  <2>1. 0 \in 0..Len(estream)
    BY <1>2
  <2> QED BY <1>1, <2>1 DEF Chain
<1>4. UsesLive(s, dec.table)
  <2>1. s.id - fed = 0 /\ s.id >= fed
    BY <1>2
  <2> QED BY <1>1, <1>3, <2>1 DEF OwnTable
<1> DEFINE R == s.required
           I == dec.table.inserts
<1>5. h \in Seq(Entries) /\ Len(h) \in Nat /\ s.enc = EncodeRequired(R) /\ R \in Nat
  BY <1>1 DEF Mirrored, SectionMeans
<1>6. /\ dec.table \in Tables /\ I \in Nat /\ dec.table.dropped \in Nat
      /\ dec.table.dropped + Len(dec.table.entries) = I
  BY <1>3, TableParts DEF Window
<1>7. Len(dec.table.entries) \in Nat /\ Len(dec.table.entries) <= MaxEntries
  BY <1>3, FewEntries
<1>8. MaxEntries \in Nat
  BY CapacityAssumption DEF MaxEntries
<1>9. RequiredOK(s.enc) /\ DecodeRequired(s.enc) = R
  <2>1. CASE R = 0
    <3>1. s.enc = 0
      BY <1>5, <2>1 DEF EncodeRequired
    <3> QED BY <2>1, <3>1 DEF RequiredOK, DecodeRequired
  <2>2. CASE R # 0
    <3>1. R - 1 \in Live(dec.table)
      BY <1>4, <2>2 DEF UsesLive
    <3>2. dec.table.dropped <= R - 1 /\ R - 1 < I
      BY <3>1 DEF Live
    <3>3. R <= I /\ I < R + MaxEntries
      <4>1. \A a, b, c, m, x \in Int :
              a + c = x /\ c <= m /\ a <= b - 1 /\ b - 1 < x => b <= x /\ x < b + m
        OBVIOUS
      <4> QED BY <1>5, <1>6, <1>7, <1>8, <3>2, <4>1
    <3>4. R <= I + MaxEntries /\ I < R + 2 * MaxEntries
      BY <1>5, <1>6, <1>8, <3>3
    <3> HIDE DEF R
    <3>5. RequiredOK(EncodeRequired(R)) /\ DecodeRequired(EncodeRequired(R)) = R
      BY <1>5, <1>6, <3>3, <3>4, RequiredIsBack
    <3> QED BY <1>5, <3>5
  <2> QED BY <2>1, <2>2
<1> DEFINE d == DecodeReps(s.reps, s.required)[Len(s.reps)]
           n == Len(s.fields)
<1>10. DecodeResult(s) = d
  BY <1>9 DEF DecodeResult
<1>11. DecodedUpTo(s, d, n)
  BY <1>1, <1>3, <1>5, SectionDecodes
<1> HIDE DEF d
<1>12. s.fields \in Seq(Fields) /\ n \in Nat /\ SubSeq(s.fields, 1, n) = s.fields
  BY <1>1 DEF SectionMeans
<1>13. TotalSize(s.fields) \in Nat /\ TotalSize(s.fields) = Sizes(s.fields)[n]
  <2>1. \A i \in 1..n : s.fields[i].value \in Nat
    BY <1>12, FieldParts
  <2> QED BY <1>12, <2>1, TotalBounds DEF TotalSize
<1>14. d.status \in {"ok", "limit"}
  BY <1>4, <1>11 DEF DecodedUpTo
<1>15. d.status = "ok" => d.got = s.fields /\ TotalSize(s.fields) <= MaxSection
  BY <1>11, <1>12, <1>13 DEF DecodedUpTo
<1>16. d.status = "limit" => TotalSize(s.fields) > MaxSection
  BY <1>11, <1>13 DEF DecodedUpTo
<1>17. MaxSection \in Nat
  BY CapacityAssumption
<1> QED BY <1>10, <1>13, <1>14, <1>15, <1>16, <1>17

(* Within the window the count comes back, and SectionDecodes does the     *)
(* rest.                                                                   *)
LEMMA AcceptedHolds == IInv => AcceptedIsRight
<1> SUFFICES ASSUME IInv, NEW s \in sections,
                    s.required <= dec.table.inserts + MaxEntries,
                    dec.table.inserts < s.required + 2 * MaxEntries,
                    DecodeResult(s).status = "ok"
             PROVE  DecodeResult(s).got = s.fields
  BY DEF AcceptedIsRight
<1>1. PICK h, T : /\ Mirrored(enc, h) /\ Chain(T, h)
                  /\ SectionMeans(s, h) /\ OwnTable(s, T)
  BY DEF IInv
<1>2. estream \in Seq(Seq(Instructions)) /\ Len(estream) \in Nat
  BY DEF IInv, Counts
<1>3. Window(dec.table, h)
  <2>1. 0 \in 0..Len(estream)
    BY <1>2
  <2> QED BY <1>1, <2>1 DEF Chain
<1> DEFINE R == s.required
<1>4. h \in Seq(Entries) /\ s.enc = EncodeRequired(R) /\ R \in Nat
  BY <1>1 DEF Mirrored, SectionMeans
<1>5. dec.table.inserts \in Nat
  BY <1>3, TableParts DEF Window
<1>6. RequiredOK(s.enc)
  BY DEF DecodeResult
<1>7. DecodeRequired(s.enc) = R
  <2>1. R <= dec.table.inserts + MaxEntries /\ dec.table.inserts < R + 2 * MaxEntries
    OBVIOUS
  <2> HIDE DEF R
  <2> QED BY <1>4, <1>5, <1>6, <2>1, RequiredIsBack
<1> DEFINE d == DecodeReps(s.reps, s.required)[Len(s.reps)]
           n == Len(s.fields)
<1>8. DecodeResult(s) = d
  BY <1>6, <1>7 DEF DecodeResult
<1>9. DecodedUpTo(s, d, n)
  BY <1>1, <1>3, <1>4, SectionDecodes
<1> HIDE DEF d
<1>10. s.fields \in Seq(Fields) /\ SubSeq(s.fields, 1, n) = s.fields
  BY <1>1 DEF SectionMeans
<1> QED BY <1>8, <1>9, <1>10 DEF DecodedUpTo

(* With no chunk under way the chain is one table.                         *)
LEMMA MirrorsHold == IInv => MirrorsAgree
<1> SUFFICES ASSUME IInv PROVE MirrorsAgree
  OBVIOUS
<1>1. PICK h, T : Mirrored(enc, h) /\ Chain(T, h)
  BY DEF IInv
<1>2. dec.failed = FALSE
  BY DEF IInv, Counts, Whole
<1>3. ASSUME estream = << >> PROVE dec.table = Mirror(enc)
  <2>1. Len(estream) = 0
    BY <1>3
  <2> QED BY <1>1, <2>1 DEF Chain
<1>4. /\ Mirror(enc).inserts = enc.table.inserts
      /\ Mirror(enc).entries = enc.table.entries /\ Mirror(enc).dropped = enc.table.dropped
  BY <1>1, MirrorLive
<1> QED BY <1>2, <1>3, <1>4 DEF MirrorsAgree

-----------------------------------------------------------------------------
(* A section decoded right after its own chunk yields the fields that were *)
(* encoded, or the size error exactly when they exceed the cap: no insert  *)
(* of QpackEncoder::encode, of that batch or an earlier one, evicts what   *)
(* the section needs.                                                      *)
THEOREM OwnChunkIsRead == Spec => []OwnChunkDecodes
<1>1. IInv => OwnChunkDecodes
  BY OwnChunkHolds
<1> QED BY <1>1, Invariant, PTL

(* A section decoded at any time, as long as its Required Insert Count has *)
(* not wrapped, is refused by decode_field_section or read as it was       *)
(* encoded.                                                                *)
THEOREM AcceptedIsTrue == Spec => []AcceptedIsRight
<1>1. IInv => AcceptedIsRight
  BY AcceptedHolds
<1> QED BY <1>1, Invariant, PTL

(* feed_encoder_stream never refuses what the encoder wrote, and with all  *)
(* of it fed the two tables are the same.                                  *)
THEOREM MirrorIsTrue == Spec => []MirrorsAgree
<1>1. IInv => MirrorsAgree
  BY MirrorsHold
<1> QED BY <1>1, Invariant, PTL
=============================================================================
