------------------------------ MODULE GzipZlib ------------------------------
(***************************************************************************)
(* The gzip and zlib containers (gzip/full.rs, zlib/full.rs): a header     *)
(* with optional fields, the DEFLATE data, a trailer of checksums; gzip    *)
(* members follow one another.  Raw DEFLATE is the container without       *)
(* either.  Headers are cut down: gzip's is two magic bytes and two bytes  *)
(* of flags, zlib's a method and a byte with the dictionary flag and a     *)
(* check; checksums are two bytes.                                         *)
(***************************************************************************)
EXTENDS Deflate

LE(n) == <<n % 4, n \div 4>>
BE(n) == <<n \div 4, n % 4>>

At(p) == state.at = p

(* `dictionary` is configured, `wrote` and `took` are what the call did,   *)
(* `pause` that it ends before the data, `stop` that it is decode_block.   *)
NewContainer(dictionary, multi, stop) ==
    [at |-> (CASE format = "gzip" -> "FixedHeader" [] format = "zlib" -> "Header"
               [] format = "deflate" -> "Deflate"),
     field |-> << >>, flags |-> {}, aux |-> 0, xlen |-> 0, hcrc |-> 0, sum |-> 0, count |-> 0,
     dictionary |-> dictionary, multi |-> multi, stop |-> stop,
     wrote |-> FALSE, took |-> FALSE, pause |-> FALSE,
     inf |-> NewInflate(IF format = "deflate" THEN LastBytes(dictionary, WinCap) ELSE << >>)]

(* The call is over: raw_decode returns, raw_finish judges.  gzip's takes  *)
(* only a stream that has ended.                                           *)
Yield(s) ==
    \/ phase = "decode"
         /\ Return([s EXCEPT !.wrote = FALSE, !.took = FALSE, !.pause = FALSE], << >>)
    \/ phase = "decode_finish" /\ format = "gzip"
         /\ IF s.at = "BetweenMembers" THEN DecodeDone ELSE Fail
    \/ phase = "decode_finish" /\ format # "gzip"
         /\ IF s.wrote THEN Return([s EXCEPT !.wrote = FALSE], << >>) ELSE Fail

(* One inner raw_decode is done with.                                      *)
InnerReturns ==
    /\ At("Deflate") /\ D.stage = "return"
    /\ LET s == [state EXCEPT !.inf = PushHistory(D), !.sum = Sum(@, D.fresh),
                              !.count = (@ + Len(D.fresh)) % 16,
                              !.wrote = @ \/ D.fresh # << >>]
       IN \/ format = "deflate" /\ Complete /\ End(s, << >>)
          \/ format = "deflate" /\ ~Complete /\ Yield(s)
          \/ format # "deflate" /\ Complete
               /\ Turn([s EXCEPT !.at = "Trailer", !.field = << >>], 0, << >>)
          \/ format # "deflate" /\ ~Complete
               /\ IF InnerMoved /\ ~(s.stop /\ AtBlockBoundary) THEN Turn(s, 0, << >>) ELSE Yield(s)

Inner ==
    \/ InnerReturns
    \/ At("Deflate") /\ ~state.pause /\ InflateStep
    \/ At("Deflate") /\ state.pause /\ Yield(state)

(* Wanting a byte of the header or trailer.                                *)
Byte(s) == Turn([s EXCEPT !.took = TRUE], 1, << >>)
Wanting(phases) == state.at \in phases /\ NoInput /\ Yield(state)

-----------------------------------------------------------------------------
Optional == <<<<"FixedHeader", "extra", "ExtraLen">>, <<"ExtraData", "name", "Name">>,
              <<"Name", "comment", "Comment">>, <<"Comment", "hcrc", "HeaderCrc">>>>
Rank == [p \in {"FixedHeader", "ExtraData", "Name", "Comment"} |->
            CASE p = "FixedHeader" -> 0 [] p = "ExtraData" -> 2 [] p = "Name" -> 3 [] p = "Comment" -> 4]

NextAfter(flags, after) ==
    LET ahead == {i \in DOMAIN Optional : Rank[Optional[i][1]] >= Rank[after] /\ Optional[i][2] \in flags} IN
    IF ahead = {} THEN "Deflate" ELSE Optional[CHOOSE i \in ahead : \A j \in ahead : i <= j][3]

(* On to the next field present; HeaderCrc counts in aux from 0.           *)
Onward(s, after) ==
    LET next == NextAfter(s.flags, after) IN
    [s EXCEPT !.at = next, !.field = << >>,
              !.aux = IF next = "HeaderCrc" \/ after = "FixedHeader" THEN 0 ELSE @,
              !.pause = (s.stop /\ next = "Deflate")]

Flags(a, b) ==
    (IF a % 2 = 1 THEN {"extra"} ELSE {}) \cup (IF a \div 2 = 1 THEN {"name"} ELSE {})
    \cup (IF b % 2 = 1 THEN {"comment"} ELSE {}) \cup (IF b \div 2 = 1 THEN {"hcrc"} ELSE {})

GzipHeader ==
    /\ At("FixedHeader") /\ ~NoInput
    /\ LET h == Append(state.field, NextByte) IN
       \/ Len(h) < 4 /\ Byte([state EXCEPT !.field = h])
       \/ Len(h) = 4 /\ (h[1] # 1 \/ h[2] # 2) /\ Fail
       \/ Len(h) = 4 /\ h[1] = 1 /\ h[2] = 2
            /\ Byte(Onward([state EXCEPT !.flags = Flags(h[3], h[4]), !.hcrc = Sum(@, h)],
                           "FixedHeader"))

ExtraLen ==
    /\ At("ExtraLen") /\ ~NoInput
    /\ LET n == IF state.aux = 0 THEN NextByte ELSE state.xlen + 4 * NextByte IN
       Byte([state EXCEPT !.aux = @ + 1, !.xlen = n, !.hcrc = Sum(@, <<NextByte>>),
                          !.at = IF state.aux = 1 THEN "ExtraData" ELSE @])

ExtraData ==
    /\ At("ExtraData")
    /\ \/ state.xlen = 0 /\ Turn(Onward(state, "ExtraData"), 0, << >>)
       \/ state.xlen > 0 /\ ~NoInput
            /\ LET n == Smaller(avail - pos, state.xlen) IN
               Turn([state EXCEPT !.xlen = @ - n, !.hcrc = Sum(@, SubSeq(src, pos + 1, pos + n))], n, << >>)

(* A name or comment ends with a zero.                                     *)
Text ==
    /\ state.at \in {"Name", "Comment"} /\ ~NoInput
    /\ LET s == [state EXCEPT !.hcrc = Sum(@, <<NextByte>>)] IN
       Byte(IF NextByte = 0 THEN Onward(s, state.at) ELSE s)

HeaderCrc ==
    /\ At("HeaderCrc")
    /\ \/ state.aux < 2 /\ ~NoInput
            /\ Byte([state EXCEPT !.aux = @ + 1, !.field = Append(@, NextByte)])
       \/ state.aux = 2 /\ state.field # LE(state.hcrc) /\ Fail
       \/ state.aux = 2 /\ state.field = LE(state.hcrc)
            /\ Turn([state EXCEPT !.at = "Deflate", !.pause = state.stop], 0, << >>)

GzipTrailer ==
    /\ At("Trailer") /\ ~NoInput
    /\ LET t == Append(state.field, NextByte) IN
       \/ Len(t) < 4 /\ Byte([state EXCEPT !.field = t])
       \/ Len(t) = 4 /\ t # LE(state.sum) \o LE(state.count) /\ Fail
       \/ Len(t) = 4 /\ t = LE(state.sum) \o LE(state.count)
            /\ Byte([state EXCEPT !.at = IF state.multi THEN "BetweenMembers" ELSE "Done"])

(* Another member begins with the magic; anything else is not the stream's. *)
BetweenMembers ==
    /\ At("BetweenMembers") /\ ~NoInput
    /\ IF NextByte = 1
       THEN Turn([NewContainer(state.dictionary, state.multi, state.stop) EXCEPT
                      !.wrote = state.wrote], 0, << >>)
       ELSE Turn([state EXCEPT !.at = "Done"], 0, << >>)

GzipDecode ==
    \/ GzipHeader \/ ExtraLen \/ ExtraData \/ Text \/ HeaderCrc
    \/ Inner \/ GzipTrailer \/ BetweenMembers
    \/ At("Done") /\ End(state, << >>)
    \/ Wanting({"FixedHeader", "ExtraLen", "Name", "Comment", "Trailer", "BetweenMembers"})
    \/ state.xlen > 0 /\ Wanting({"ExtraData"})
    \/ state.aux < 2 /\ Wanting({"HeaderCrc"})

-----------------------------------------------------------------------------
ZlibHeader ==
    /\ At("Header") /\ ~NoInput
    /\ LET h == Append(state.field, NextByte) IN
       \/ Len(h) < 2 /\ Byte([state EXCEPT !.field = h])
       \/ Len(h) = 2 /\ (h[1] # 2 \/ h[2] % 2 # 0) /\ Fail
       \/ Len(h) = 2 /\ h[1] = 2 /\ h[2] % 2 = 0
            /\ Byte([state EXCEPT !.field = << >>, !.at = IF h[2] = 2 THEN "DictId" ELSE "Deflate",
                                  !.pause = (state.stop /\ h[2] # 2)])

WithDictionary(s, dictionary) ==
    [s EXCEPT !.inf.window = LastBytes(dictionary, WinCap), !.at = "Deflate"]

DictId ==
    /\ At("DictId") /\ ~NoInput
    /\ LET id == Append(state.field, NextByte)
           s == [state EXCEPT !.field = id]
       IN \/ Len(id) < 2 /\ Byte(s)
          \/ Len(id) = 2 /\ state.dictionary = << >> /\ Byte([s EXCEPT !.at = "NeedDict"])
          \/ Len(id) = 2 /\ state.dictionary # << >>
               /\ IF id = BE(Sum(0, state.dictionary))
                  THEN Byte([WithDictionary(s, state.dictionary) EXCEPT !.pause = state.stop])
                  ELSE Fail

(* The error comes from a call that takes nothing, and may be answered.    *)
NeedDict ==
    /\ At("NeedDict")
    /\ \/ state.took /\ Yield(state)
       \/ ~state.took
            /\ phase' = "needdict"
            /\ calling' = FALSE
            /\ UNCHANGED <<format, plain, given, state, src, pos, avail, room, out>>

(* set_dictionary: another dictionary than the stream's is refused.        *)
SetDictionary(dictionary) ==
    /\ ~calling /\ phase = "needdict"
    /\ state.field = BE(Sum(0, dictionary))
    /\ state' = WithDictionary(state, dictionary)
    /\ phase' = "decode"
    /\ UNCHANGED <<format, plain, given, src, pos, avail, room, out, calling>>

ZlibTrailer ==
    /\ At("Trailer") /\ ~NoInput
    /\ LET t == Append(state.field, NextByte) IN
       \/ Len(t) < 2 /\ Byte([state EXCEPT !.field = t])
       \/ Len(t) = 2 /\ t # BE(state.sum) /\ Fail
       \/ Len(t) = 2 /\ t = BE(state.sum) /\ Byte([state EXCEPT !.at = "Done"])

ZlibDecode ==
    \/ ZlibHeader \/ DictId \/ NeedDict \/ Inner \/ ZlibTrailer
    \/ At("Done") /\ End(state, << >>)
    \/ Wanting({"Header", "DictId", "Trailer"})

ContainerDecode ==
    \/ format = "gzip" /\ GzipDecode
    \/ format = "zlib" /\ ZlibDecode
    \/ format = "deflate" /\ Inner

-----------------------------------------------------------------------------
(* The encoders: header, data, trailer.  `left` is what remains of the     *)
(* header, then of the trailer.                                            *)
HeaderBytes(dictionary) ==
    CASE format = "gzip" -> <<1, 2, 0, 0>>
      [] format = "zlib" /\ dictionary = << >> -> <<2, 0>>
      [] format = "zlib" /\ dictionary # << >> -> <<2, 2>> \o BE(Sum(0, dictionary))
      [] format = "deflate" -> << >>

TrailerBytes ==
    CASE format = "gzip" -> LE(state.sum) \o LE(state.count)
      [] format = "zlib" -> BE(state.sum)
      [] format = "deflate" -> << >>

NewWriter(dictionary, strategy) ==
    [at |-> "Header", left |-> HeaderBytes(dictionary), kind |-> "block", asked |-> 0, sum |-> 0, count |-> 0,
     dictionary |-> dictionary, def |-> NewDeflate(LastBytes(dictionary, WinCap), strategy)]

DrainHeader ==
    /\ At("Header")
    /\ LET n == Smaller(Len(state.left), room)
           s == [state EXCEPT !.left = SubSeq(@, n + 1, Len(@))]
       IN IF s.left # << >> THEN Return(s, SubSeq(state.left, 1, n))
          ELSE Turn([s EXCEPT !.at = "Deflate"], 0, SubSeq(state.left, 1, n))

ContainerEncode == DrainHeader \/ (At("Deflate") /\ DeflateEncode)

ContainerFlush(kind) == DrainHeader \/ (At("Deflate") /\ DeflateFlush(kind))

ContainerFinish(newDecoder) ==
    \/ DrainHeader
    \/ /\ At("Deflate")
       /\ DeflateFinish(Turn([state EXCEPT !.at = "Trailer", !.left = TrailerBytes], 0, << >>))
    \/ /\ At("Trailer")
       /\ LET n == Smaller(Len(state.left), room)
              s == [state EXCEPT !.left = SubSeq(@, n + 1, Len(@))]
          IN IF s.left # << >> THEN Return(s, SubSeq(state.left, 1, n))
             ELSE Turn([s EXCEPT !.at = "Done"], 0, SubSeq(state.left, 1, n))
    \/ At("Done") /\ EncodeDone(state, newDecoder)
=============================================================================
