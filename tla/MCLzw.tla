------------------------------- MODULE MCLzw --------------------------------
(***************************************************************************)
(* The LZW codecs driven by CodecCall: chosen texts that fill the          *)
(* dictionary, clear it and meet a code before its entry is complete, and  *)
(* any short bytes for the decoders.                                       *)
(***************************************************************************)
EXTENDS Lzw

CONSTANT MaxWire   \* bound: bytes of the streams given to a decoder alone

Formats == {"lzw", "crunch", "squash", "shrink"}

(* Over a byte of two bits; the dictionary is full after 11 entries.  The  *)
(* long one fills it, keeps it past a check of the ratio, then clears it.  *)
Runs == <<0, 0, 0, 0, 0, 0, 0>>
Mixed == <<0, 1, 0, 1, 2, 3, 0, 0, 2, 1, 1, 3, 3, 2, 2, 0, 3, 1>>
Texts == {<< >>, <<2>>, Runs, Mixed}

(* Long enough for the codes to widen.                                     *)
Long == {<<0, 1>> \o b : b \in [1..7 -> {0, 1}]}

(* Shrink's codes of three bits, packed into bytes: literals, an entry, a  *)
(* code not assigned yet, and the controls to widen and to clear.          *)
Pack(codes) == WholeBytes(FoldLeft(LAMBDA acc, c : acc \o Bits(c, InitBits), << >>, codes))

ShrinkStreams ==
    {<<n>> \o Pack(c \o d) : n \in {2, 5}, d \in SeqOf({1, 5, 7}, 2),
        c \in {<<1, 2, 5>>, <<2, 5, 4, 2, 5, 5>>, <<1, 2, 2, 4, 2, 4, 1>>}} \cup {<< >>, <<3>>}

AnyStreams ==
    LET bytes == 0..(2^ByteBits - 1)
        body == SeqOf(bytes, MaxWire)
    IN CASE format = "shrink" -> ShrinkStreams
         [] format \in {"crunch", "squash"} -> body
         [] format = "lzw" -> body \cup {<<1, 3>> \o b : b \in body} \cup {<<1, h>> \o b : h \in {1, 3}, b \in Long}

Fresh ==
    IF phase \in {"encode", "encode_finish"} THEN NewEncoder
    ELSE IF format = "shrink" THEN NewShrinkDecoder ELSE NewDecoder

Init ==
    /\ format \in Formats
    /\ \/ format # "shrink" /\ given = "plain" /\ phase = "encode" /\ plain \in Texts /\ src = plain
          /\ state = NewEncoder
       \/ given = "any" /\ phase = "decode" /\ plain = << >> /\ src \in AnyStreams
          /\ state = Fresh
    /\ pos = 0 /\ avail = 0 /\ room = 0
    /\ out = << >>
    /\ calling = FALSE

In(f, p) == calling /\ format = f /\ phase = p

Codec ==
    \/ In("lzw", "encode") /\ LzwEncode
    \/ In("crunch", "encode") /\ CrunchEncode
    \/ In("squash", "encode") /\ SquashEncode
    \/ calling /\ phase = "encode_finish" /\ LzwEncodeFinish
    \/ In("lzw", "decode") /\ LzwDecode
    \/ In("crunch", "decode") /\ CrunchDecode
    \/ In("squash", "decode") /\ SquashDecode
    \/ In("lzw", "decode_finish") /\ LzwDecodeFinish
    \/ In("shrink", "decode") /\ ShrinkDecode
    \/ In("shrink", "decode_finish") /\ ShrinkDecodeFinish
    \/ calling /\ format \in {"crunch", "squash"} /\ phase = "decode_finish" /\ CrunchDecodeFinish

Next == Caller \/ Codec \/ Reset(Fresh)

Spec == Init /\ [][Next]_vars

-----------------------------------------------------------------------------
(* The codes of an epoch are numbered; entry j is the string of code j and *)
(* the first byte of the string of code j + 1.                             *)
DecodeStart == IF format = "squash" THEN 0 ELSE IF format = "lzw" THEN 2 ELSE 1

HeaderOK ==
    CASE format = "lzw" -> Len(src) >= 2 /\ src[1] = 1
      [] format = "crunch" -> Len(src) >= 1 /\ InitBits + src[1] <= MaxBits
      [] format = "squash" -> TRUE

CutHeader == format = "lzw" /\ Len(src) < 2 /\ (src = << >> \/ src[1] = 1)

WireMax ==
    CASE format = "lzw" -> InitBits + (src[2] % 2)
      [] format = "crunch" -> InitBits + src[1]
      [] format = "squash" -> Widest

WireBlock == format = "lzw" => src[2] \div 2 = 1
WireFirst == IF WireBlock THEN FIRST ELSE CLEAR

WireBits == BitsOf(SubSeq(src, DecodeStart + 1, Len(src)))

(* Width of the n-th code of an epoch, counted from 0.                     *)
WidthAt(n) ==
    IF format = "squash" THEN Widest
    ELSE LET next == WireFirst + (IF n = 0 THEN 0 ELSE n - 1)
             fits == {w \in InitBits..WireMax : next < 2^w}
         IN IF fits = {} THEN WireMax ELSE CHOOSE w \in fits : \A v \in fits : w <= v

Padded(p, since, w) ==
    IF ~Grouped THEN p
    ELSE since + (((p - since) + Group * w - 1) \div (Group * w)) * Group * w

(* The bytes and whether they are well formed, from bit p on: `since` is   *)
(* where the current width began, str the strings of the epoch so far.     *)
RECURSIVE Strings(_, _, _, _)
Strings(bits, p, since, str) ==
    LET n == Len(str)
        widened == n > 0 /\ WidthAt(n) # WidthAt(n - 1)
        at == IF widened THEN Padded(p, since, WidthAt(n - 1)) ELSE p
        w == WidthAt(n)
        code == Value(SubSeq(bits, at + 1, at + w))
        j == code - WireFirst + 1
    IN IF at + w > Len(bits) THEN [bytes |-> << >>, ok |-> TRUE]
       ELSE IF WireBlock /\ code = CLEAR
       THEN LET next == Padded(at + w, IF widened THEN at ELSE since, w)
            IN Strings(bits, next, next, << >>)
       ELSE IF code >= CLEAR /\ j > n - 1 THEN
            IF j = n /\ n > 0
            THEN LET s == Append(str[n], str[n][1])
                     rest == Strings(bits, at + w, IF widened THEN at ELSE since, Append(str, s))
                 IN [rest EXCEPT !.bytes = s \o @]
            ELSE [bytes |-> << >>, ok |-> FALSE]
       ELSE LET s == IF code < CLEAR THEN <<code>> ELSE Append(str[j], str[j + 1][1])
                rest == Strings(bits, at + w, IF widened THEN at ELSE since, Append(str, s))
            IN [rest EXCEPT !.bytes = s \o @]

LzwMeaning ==
    IF HeaderOK THEN Strings(WireBits, 0, 0, << >>)
    ELSE [bytes |-> << >>, ok |-> src = << >>]

(* Shrink, all the codes at once.                                          *)
RECURSIVE Unshrink(_)
Unshrink(s) ==
    IF IsBad(s) THEN [bytes |-> << >>, bad |-> TRUE]
    ELSE IF ~HasCode(s) THEN [bytes |-> s.emit, bad |-> FALSE]
    ELSE LET next == ShrinkCode([s EXCEPT !.bits = SubSeq(@, s.width + 1, Len(@))],
                                Value(SubSeq(s.bits, 1, s.width)))
         IN IF IsBad(next) THEN [bytes |-> s.emit, bad |-> TRUE] ELSE Unshrink(next)

Unshrunk == Unshrink([NewShrinkDecoder EXCEPT !.bits = BitsOf(Tail(src))])

Meaning ==
    IF format # "shrink" THEN LzwMeaning
    ELSE IF src = << >> THEN [bytes |-> << >>, ok |-> FALSE]
    ELSE [bytes |-> SubSeq(Unshrunk.bytes, 1, Smaller(src[1], Len(Unshrunk.bytes))),
          ok |-> src[1] = 0 \/ Len(Unshrunk.bytes) >= src[1]]

(* Behind its last byte a Shrink stream may hold anything.                 *)
Overrun == format = "shrink" /\ src # << >> /\ Unshrunk.bad

Forgot == format # "shrink" /\ state.forgot
(* What was encoded comes back, through every widening, clearing and       *)
(* padding of the codes and every cut into calls; see `forgot` for the one *)
(* cut that raw_decode does not survive.                                   *)
DecodesToPlain == Decoding => Forgot \/ RoundTrip

(* Shrink pumps once a call, which stops with codes left once more than    *)
(* Cap bytes wait to be handed out.  A raw_decode with room for them all   *)
(* then returns although it could go on, and a raw_finish that finds none  *)
(* waiting fails although codes are left (zip_shrink/mod.rs 429, 553 and   *)
(* 607).  The first makes the bridge report InputEmpty, which by           *)
(* traits.rs 27-28 says that the decoder "can't make further progress      *)
(* without more input bytes"; the second is what ShortInputOnly denies.    *)
StagingWasFull == format = "shrink" /\ state.stage = "drain" /\ Len(state.emit) > Cap
CodesLeft == format = "shrink" /\ phase = "failed" /\ state.stage = "drain" /\ HasCode(state)

(* Any bytes decode to the strings their codes stand for, or fail; what a  *)
(* Shrink stream holds behind the length it declares may fail or not.      *)
FollowsFormat ==
    Decoding => \/ Forgot
                \/ \E meant \in {Meaning} :
                       \/ Follows(meant)
                       \/ phase = "failed" /\ (Overrun \/ CodesLeft) /\ IsPrefix(out, meant.bytes)

LzwOwes == IF format = "shrink" THEN ShrinkOwes ELSE Owes

(* What lzw/mod.rs 731-732 says of a call that ends in the padding after a *)
(* CLEAR ("codes_in_group counter remembers how far we got"): the decoding *)
(* goes on as if the call had not ended.                                   *)
ClearSurvivesCut == RoundTrip

(* What zip_shrink/mod.rs 607 says of the error of raw_finish: more output *)
(* is owed than the decoder has, "and the input is gone".                  *)
ShortInputOnly == format = "shrink" /\ phase = "failed" => ~Meaning.ok \/ Unshrunk.bad
=============================================================================
