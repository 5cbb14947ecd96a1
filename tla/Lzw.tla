-------------------------------- MODULE Lzw ---------------------------------
(***************************************************************************)
(* The LZW codecs: compress(1)'s .Z (lzw/mod.rs), ARC's Crunch             *)
(* (arc_crunch/mod.rs) and Squash (arc_squash/mod.rs).  Codes are packed   *)
(* into bytes, low bits first; their width grows with the dictionary, and  *)
(* both sides must widen, clear and (.Z only) pad at the same code.  A     *)
(* byte has ByteBits bits here, a code InitBits to MaxBits.                *)
(***************************************************************************)
EXTENDS CodecCall

CONSTANTS
    InitBits,   \* INIT_BITS; Squash's only width
    MaxBits,    \* MAX_BITS, ENC_MAX_BITS
    Group,      \* codes that are padded to a boundary: 8
    CheckGap,   \* CHECK_GAP
    Slack,      \* how far the queue may outgrow the output buffer: 64
    Cap         \* bytes in Shrink's emit_buf that stop the pump: 16 KiB

CLEAR == 2^ByteBits
FIRST == CLEAR + 1
NoCode == 2^MaxBits
Never == 1000000   \* next_check: u64::MAX

Grouped == format = "lzw"
Widest == IF format = "squash" THEN InitBits ELSE MaxBits

(* Dictionary entry i, a prefix code and a byte, has code FIRST + i - 1.   *)
NextCode(s) == FIRST + Len(s.dict)

-----------------------------------------------------------------------------
(* The header is queued by the first call, whichever it is.                *)
Header ==
    CASE format = "lzw" -> <<1, 2 + MaxBits - InitBits>>
      [] format = "crunch" -> <<MaxBits - InitBits>>
      [] format = "squash" -> << >>

NewEncoder ==
    [dict |-> << >>, width |-> InitBits, acc |-> << >>, w |-> NoCode, group |-> 0,
     pending |-> Header, bytesIn |-> 0, bitsOut |-> 0, nextCheck |-> Never, bestRatio |-> 0,
     finished |-> FALSE]

EmitCode(s, code) ==
    LET bits == s.acc \o Bits(code, s.width)
    IN [s EXCEPT !.acc = LeftOver(bits),
                 !.pending = @ \o WholeBytes(bits),
                 !.group = IF Grouped THEN (@ + 1) % Group ELSE 0,
                 !.bitsOut = IF Grouped THEN @ + s.width ELSE 0]

PadToGroupBoundary(s) ==
    FoldLeft(LAMBDA t, i : EmitCode(t, 0), s, [i \in 1..((Group - s.group) % Group) |-> i])

ResetDict(s) ==
    [s EXCEPT !.dict = << >>, !.width = InitBits,
              !.bytesIn = 0, !.bitsOut = 0, !.nextCheck = Never, !.bestRatio = 0]

(* Bug: .Z widens one code early.                                          *)
WidenEarly(s) ==
    IF s.width < MaxBits
    THEN IF NextCode(s) >= 2^s.width
         THEN [PadToGroupBoundary(s) EXCEPT !.width = @ + 1]
         ELSE s
    ELSE IF NextCode(s) >= 2^MaxBits /\ s.nextCheck = Never
         THEN [s EXCEPT !.nextCheck = s.bytesIn + CheckGap]
         ELSE s

(* .Z widens behind a padded group, and keeps a full dictionary for as     *)
(* long as it pays.                                                        *)
MaybeWiden(s) ==
    IF s.width < MaxBits
    THEN IF NextCode(s) >= 2^s.width + 1
         THEN [PadToGroupBoundary(s) EXCEPT !.width = @ + 1]
         ELSE s
    ELSE IF NextCode(s) >= 2^MaxBits /\ s.nextCheck = Never
         THEN [s EXCEPT !.nextCheck = s.bytesIn + CheckGap]
         ELSE s

CheckRatio(s) ==
    LET ratio == IF s.bitsOut = 0 THEN Never ELSE (s.bytesIn * 256) \div s.bitsOut IN
    IF ratio >= s.bestRatio
    THEN [s EXCEPT !.bestRatio = ratio, !.nextCheck = s.bytesIn + CheckGap]
    ELSE ResetDict(PadToGroupBoundary(EmitCode(s, CLEAR)))

(* Crunch and Squash clear as soon as the dictionary is full.              *)
CrunchMaybeWiden(s) ==
    IF s.width < MaxBits
    THEN IF NextCode(s) > 2^s.width THEN [s EXCEPT !.width = @ + 1] ELSE s
    ELSE IF NextCode(s) >= 2^MaxBits THEN ResetDict(EmitCode(s, CLEAR)) ELSE s

SquashMaybeClear(s) ==
    IF NextCode(s) >= 2^InitBits THEN ResetDict(EmitCode(s, CLEAR)) ELSE s

(* The prefix does not extend by b: its code goes out.                     *)
EmitPrefix(s, b) ==
    LET emitted == EmitCode(s, s.w)
    IN IF NextCode(s) < 2^Widest THEN [emitted EXCEPT !.dict = Append(@, <<s.w, b>>)]
                                 ELSE emitted

LzwMiss(s, b) ==
    LET widened == MaybeWiden(EmitPrefix(s, b))
        next == [widened EXCEPT !.w = b, !.bytesIn = @ + 1]
    IN IF next.bytesIn >= next.nextCheck THEN CheckRatio(next) ELSE next

CrunchMiss(s, b) == [CrunchMaybeWiden(EmitPrefix(s, b)) EXCEPT !.w = b]

SquashMiss(s, b) == [SquashMaybeClear(EmitPrefix(s, b)) EXCEPT !.w = b]

Hit(s, c) == [s EXCEPT !.w = c, !.bytesIn = IF Grouped THEN @ + 1 ELSE 0]

(* One byte of input; `miss` is where it leads if it ends the prefix.      *)
Feed(s, b, miss) ==
    IF s.w = NoCode THEN Hit(s, b)
    ELSE LET at == {i \in DOMAIN s.dict : s.dict[i] = <<s.w, b>>}
         IN IF at # {} THEN Hit(s, FIRST - 1 + CHOOSE i \in at : TRUE) ELSE miss

(* The loop: drain the queue, then take a byte unless the queue has run    *)
(* too far ahead of the output buffer.                                     *)
EncodeLoop(miss) ==
    \/ DrainPending
    \/ /\ state.pending = << >> \/ NoRoom
       /\ \/ NoInput /\ Return(state, << >>)
          \/ ~NoInput /\ Len(state.pending) >= room + Slack /\ Return(state, << >>)
          \/ ~NoInput /\ Len(state.pending) < room + Slack
               /\ Turn(Feed(state, NextByte, miss), 1, << >>)

LzwEncode == EncodeLoop(LzwMiss(state, NextByte))
CrunchEncode == EncodeLoop(CrunchMiss(state, NextByte))
SquashEncode == EncodeLoop(SquashMiss(state, NextByte))

(* The last prefix and the bits left over.                                 *)
Final(s) ==
    LET emitted == IF s.w = NoCode THEN s ELSE [EmitCode(s, s.w) EXCEPT !.w = NoCode]
    IN IF emitted.acc = << >> THEN emitted
       ELSE [emitted EXCEPT !.pending = Append(@, Value(emitted.acc)), !.acc = << >>, !.group = 0]

-----------------------------------------------------------------------------
(* `forgot` is a history variable: a call ended inside the padding that    *)
(* follows a CLEAR.                                                        *)
NewDecoder ==
    [dict |-> << >>, width |-> InitBits, acc |-> << >>, prev |-> NoCode, group |-> 0,
     max |-> Widest, block |-> TRUE, header |-> 0, emit |-> << >>,
     clearing |-> FALSE, forgot |-> FALSE]

LzwEncodeFinish == QueueFinish(Final(state), NewDecoder)

Full(s) == FIRST + Len(s.dict) >= 2^s.max
DecoderNext(s) == (IF s.block THEN FIRST ELSE CLEAR) + Len(s.dict)
EntryOf(s, code) == s.dict[code - DecoderNext(s) + Len(s.dict) + 1]

StringOf(s, code) ==
    LET str[c \in 0..code] ==
            IF c < CLEAR THEN <<c>> ELSE Append(str[EntryOf(s, c)[1]], EntryOf(s, c)[2])
    IN str[code]

(* The string a code stands for, and the entry it completes.  A code that  *)
(* is not in the dictionary yet is the previous string and its first byte. *)
Resolve(s, code) ==
    LET str == IF code = DecoderNext(s)
               THEN LET p == StringOf(s, s.prev) IN Append(p, p[1])
               ELSE StringOf(s, code)
    IN [s EXCEPT !.emit = str, !.prev = code,
                 !.dict = IF DecoderNext(s) < 2^s.max THEN Append(@, <<s.prev, str[1]>>) ELSE @]

Malformed(s, code) ==
    IF s.prev = NoCode THEN code >= CLEAR ELSE code > DecoderNext(s)

DecodeDrain ==
    /\ state.emit # << >>
    /\ \/ NoRoom /\ Return(state, << >>)
       \/ ~NoRoom /\ LET n == Smaller(Len(state.emit), room) IN
                     Turn([state EXCEPT !.emit = SubSeq(@, n + 1, Len(@))], 0,
                          SubSeq(state.emit, 1, n))

Loaded == Len(state.acc) >= state.width
CodeRead == Value(SubSeq(state.acc, 1, state.width))
AfterCode ==
    [state EXCEPT !.acc = SubSeq(@, state.width + 1, Len(@)),
                  !.group = IF Grouped THEN (@ + 1) % Group ELSE 0]

(* The call runs out of input while it reads a code or skips padding.      *)
(* That a CLEAR is being padded is known to the call only.                 *)
OutOfInput ==
    /\ ~Loaded /\ NoInput
    /\ Return([state EXCEPT !.clearing = FALSE, !.forgot = @ \/ state.clearing], << >>)

Load ==
    \/ ~Loaded /\ ~NoInput /\ Turn([state EXCEPT !.acc = @ \o Bits(NextByte, ByteBits)], 1, << >>)
    \/ OutOfInput

MustWiden == state.width < state.max /\ DecoderNext(state) > 2^state.width - 1

(* Bug: the width is raised without skipping the padding.                  *)
NoPadding(then) == Turn(then, 0, << >>)

(* Padding is skipped code by code up to the group's end.                  *)
SkipToGroupBoundary(then) ==
    \/ state.group # 0 /\ Load
    \/ state.group # 0 /\ Loaded /\ Turn(AfterCode, 0, << >>)
    \/ state.group = 0 /\ Turn(then, 0, << >>)

Cleared(s) ==
    [s EXCEPT !.dict = << >>, !.width = InitBits, !.prev = NoCode, !.group = 0, !.clearing = FALSE]

ReadCode ==
    \/ Load
    \/ /\ Loaded
       /\ LET code == CodeRead IN
          \/ state.block /\ code = CLEAR /\ Turn([AfterCode EXCEPT !.clearing = TRUE], 0, << >>)
          \/ ~(state.block /\ code = CLEAR) /\ Malformed(state, code) /\ Fail
          \/ /\ ~(state.block /\ code = CLEAR) /\ ~Malformed(state, code)
             /\ IF state.prev = NoCode
                THEN Turn([AfterCode EXCEPT !.emit = <<code>>, !.prev = code], 0, << >>)
                ELSE Turn(Resolve(AfterCode, code), 0, << >>)

DecodeLoop ==
    \/ DecodeDrain
    \/ /\ state.emit = << >>
       /\ \/ state.clearing /\ SkipToGroupBoundary(Cleared(state))
          \/ ~state.clearing /\ MustWiden
               /\ SkipToGroupBoundary([state EXCEPT !.width = @ + 1])
          \/ ~state.clearing /\ ~MustWiden /\ ReadCode

(* Magic, then block mode and the largest width.                           *)
LzwHeader ==
    /\ state.header < 2
    /\ \/ NoInput /\ Return(state, << >>)
       \/ ~NoInput /\ state.header = 0 /\ NextByte # 1 /\ Fail
       \/ ~NoInput /\ state.header = 0 /\ NextByte = 1
            /\ Turn([state EXCEPT !.header = 1], 1, << >>)
       \/ ~NoInput /\ state.header = 1
            /\ LET bits == InitBits + (NextByte % 2) IN
               \/ bits > MaxBits /\ Fail
               \/ bits <= MaxBits
                    /\ Turn([state EXCEPT !.header = 2, !.max = bits,
                                          !.block = (NextByte \div 2 = 1)], 1, << >>)

CrunchHeader ==
    /\ state.header = 0
    /\ \/ NoInput /\ Return(state, << >>)
       \/ ~NoInput /\ InitBits + NextByte > MaxBits /\ Fail
       \/ ~NoInput /\ InitBits + NextByte <= MaxBits
            /\ Turn([state EXCEPT !.header = 1, !.max = InitBits + NextByte], 1, << >>)

LzwDecode == LzwHeader \/ (state.header = 2 /\ DecodeLoop)
CrunchDecode == CrunchHeader \/ (state.header = 1 /\ DecodeLoop)
SquashDecode == DecodeLoop

(* What is left of a code is padding; a header cut short is an error.      *)
LzwDecodeFinish ==
    \/ DecodeDrain
    \/ state.emit = << >> /\ state.header = 1 /\ Fail
    \/ state.emit = << >> /\ state.header # 1 /\ DecodeDone

CrunchDecodeFinish ==
    \/ DecodeDrain
    \/ state.emit = << >> /\ DecodeDone

Owes == state.emit # << >>

-----------------------------------------------------------------------------
(***************************************************************************)
(* The decoder of ZIP's Shrink (zip_shrink/mod.rs): LZW whose encoder says *)
(* when to widen, and whose partial clear frees the leaves of the          *)
(* dictionary only.  It takes all the input it is given into a buffer of   *)
(* its own and decodes at most Cap bytes ahead of what it has handed over. *)
(***************************************************************************)

BOGUS == CLEAR
HSIZE == 2^MaxBits
FREE == HSIZE
Nodes == (BOGUS + 1)..(HSIZE - 1)
Cyclic == HSIZE   \* not a byte

NewShrinkDecoder ==
    [stage |-> "header", target |-> 0, bits |-> << >>, width |-> InitBits,
     parent |-> [c \in Nodes |-> FREE], value |-> [c \in Nodes |-> 0], lastFree |-> BOGUS,
     old |-> NoCode, final |-> 0, emit |-> << >>, outPos |-> 0,
     completed |-> FALSE, control |-> FALSE]

(* emit_string: a freed link stands for the previous string and its first  *)
(* byte, as a code that was never assigned does.                           *)
ShrinkString(s, code) ==
    LET walk[hops \in 0..HSIZE, c \in 0..(HSIZE - 1)] ==
            IF c < BOGUS THEN <<c>>
            ELSE IF c = BOGUS THEN <<0>>
            ELSE IF hops = 0 THEN <<Cyclic>>
            ELSE IF s.parent[c] = FREE THEN Append(walk[hops - 1, s.old], s.final)
            ELSE Append(walk[hops - 1, s.parent[c]], s.value[c])
    IN IF code > BOGUS /\ s.parent[code] = FREE
       THEN Append(walk[HSIZE, s.old], s.final)
       ELSE walk[HSIZE, code]

(* Only what is nobody's parent goes; marks are taken before any is freed. *)
PartialClear(s) ==
    LET used == {c \in Nodes : c <= s.lastFree}
        parents == {s.parent[c] : c \in used}
    IN [s EXCEPT !.parent = [c \in Nodes |-> IF c \in used \ parents THEN FREE ELSE @[c]],
                 !.lastFree = BOGUS]

FreeSlots(s) == {c \in Nodes : c > s.lastFree /\ s.parent[c] = FREE}

Bad == [bad |-> TRUE]
IsBad(s) == "bad" \in DOMAIN s

Control(s, code) ==
    CASE code = 1 /\ s.width < MaxBits -> [s EXCEPT !.width = @ + 1, !.control = FALSE]
      [] code = 2 -> [PartialClear(s) EXCEPT !.control = FALSE]
      [] OTHER -> Bad

(* What one code does.                                                     *)
ShrinkCode(s, code) ==
    IF s.control THEN Control(s, code)
    ELSE IF code = BOGUS THEN [s EXCEPT !.control = TRUE]
    ELSE IF s.old = NoCode
    THEN IF code > BOGUS THEN Bad
         ELSE [s EXCEPT !.final = code, !.emit = Append(@, code), !.old = code]
    ELSE LET str == ShrinkString(s, code)
             slot == CHOOSE c \in FreeSlots(s) : \A d \in FreeSlots(s) : c <= d
         IN IF str[1] = Cyclic \/ FreeSlots(s) = {} THEN Bad
            ELSE [s EXCEPT !.emit = @ \o str, !.final = str[1], !.old = code,
                           !.parent[slot] = s.old, !.value[slot] = str[1], !.lastFree = slot]

HasCode(s) == Len(s.bits) >= s.width

(* pump, one code a step; then its caller drains.                          *)
Pump ==
    /\ state.stage = "pump"
    /\ \/ /\ state.completed \/ Len(state.emit) > Cap \/ ~HasCode(state)
          /\ Turn([state EXCEPT !.stage = "drain"], 0, << >>)
       \/ /\ ~state.completed /\ Len(state.emit) <= Cap /\ HasCode(state)
          /\ LET next == ShrinkCode([state EXCEPT !.bits = SubSeq(@, state.width + 1, Len(@))],
                                    Value(SubSeq(state.bits, 1, state.width)))
             IN \/ IsBad(next) /\ Fail
                \/ ~IsBad(next) /\ Turn(next, 0, << >>)

Deliver == Smaller(Len(state.emit), Smaller(room, state.target - state.outPos))

Drained(stage) ==
    [state EXCEPT !.emit = SubSeq(@, Deliver + 1, Len(@)), !.outPos = @ + Deliver,
                  !.completed = @ \/ (Deliver > 0 /\ state.outPos + Deliver = state.target),
                  !.stage = stage]

(* The length is one byte here.  All the rest of the input is taken.       *)
ShrinkDecode ==
    \/ /\ state.stage = "header"
       /\ \/ NoInput /\ Return(state, << >>)
          \/ ~NoInput /\ Turn([state EXCEPT !.target = NextByte, !.stage = "take",
                                            !.completed = (NextByte = 0)], 1, << >>)
    \/ /\ state.stage = "take"
       /\ Turn([state EXCEPT !.bits = @ \o BitsOf(SubSeq(src, pos + 1, avail)),
                             !.stage = "pump"], avail - pos, << >>)
    \/ Pump
    \/ /\ state.stage = "drain"
       /\ LET s == Drained("take")
              put == SubSeq(state.emit, 1, Deliver)
          IN IF s.completed THEN End(s, put) ELSE Return(s, put)

(* One more pump, then what is left; nothing left is an error, although    *)
(* the buffer may hold more codes.                                         *)
ShrinkDecodeFinish ==
    \/ state.stage = "header" /\ Fail
    \/ state.stage = "take" /\ Turn([state EXCEPT !.stage = "pump"], 0, << >>)
    \/ Pump
    \/ /\ state.stage = "drain"
       /\ LET s == Drained("take")
              put == SubSeq(state.emit, 1, Deliver)
          IN \/ s.outPos >= s.target /\ End(s, put)
             \/ s.outPos < s.target /\ s.emit = << >> /\ Fail
             \/ s.outPos < s.target /\ s.emit # << >> /\ Return(s, put)

ShrinkOwes == state.emit # << >> \/ (state.stage = "take" /\ HasCode(state))

=============================================================================
