------------------------------ MODULE CliProof ------------------------------
(***************************************************************************)
(* Proofs about Cli, for every length of the stream, expansion, buffer and *)
(* atomic step that fits it: the input file is only removed when all the   *)
(* output is in its file, a file that was there is never removed, and the  *)
(* exit status tells the truth.                                            *)
(***************************************************************************)
EXTENDS Cli, DecoderCodecProof

(* From the lookup of the algorithm on the output is this run's own.       *)
Begun == {"lookup", "stream", "drain", "finish", "flush", "remove", "cleanup", "ok"}
Phases == {"open", "resolve", "create"} \cup Begun \cup Exits

TypeOK ==
    /\ args \in Args
    /\ size \in Nat /\ chunk \in Nat /\ read \in Nat /\ made \in Nat /\ disk \in Nat
    /\ input \in BOOLEAN /\ existed \in BOOLEAN /\ ours \in BOOLEAN /\ trouble \in BOOLEAN
    /\ output \in {"absent", "old", "truncated", "new"}
    /\ phase \in Phases

(* What was there stays, and what cleanup may remove is this run's.        *)
Files ==
    /\ ours => args.target # "stdout"
    /\ existed => output # "absent"
    /\ phase \in Begun /\ args.target # "stdout" => output \in {"new", "truncated"}
    /\ phase = "create" /\ existed /\ args.force => ~ours
    /\ phase \in Begun /\ ours => ~existed

(* An encoder: its trailer comes after the token of every byte.            *)
EncSound(e) ==
    /\ e \in E!EncState
    /\ e.emitted <= e.taken
    /\ e.ended => e.emitted = e.taken

Late == {"flush", "remove", "ok"}

(* What has been read is with the encoder or in the buffer, and what the   *)
(* encoder gave is what was made.                                          *)
Encoded ==
    /\ EncSound(codec)
    /\ ~codec.ended => made = codec.emitted
    /\ codec.ended => made = codec.emitted + 1
    /\ codec.taken + chunk = read
    /\ phase \in {"finish"} \cup Late => read = size /\ chunk = 0
    /\ phase \in {"open", "resolve", "create", "lookup", "stream", "finish"} => ~codec.ended
    /\ phase \in Late => codec.ended
    /\ phase # "drain"

(* The same of a decoder, which may leave what follows the stream; and the *)
(* drain has left nothing for finish of a stream that is all there.        *)
Decoded ==
    /\ Sound(codec)
    /\ phase \notin {"cleanup", "io", "killed"} => made = codec.emitted
    /\ codec.taken + chunk <= read
    /\ ~codec.ended => codec.taken + chunk = read
    /\ phase \in {"drain", "finish"} \cup Late => read = size /\ chunk = 0
    /\ phase = "finish" /\ StreamLen <= size => codec.ended
    /\ phase \in Late => codec.ended

Progress ==
    /\ read <= size /\ disk <= made
    /\ phase \in {"remove", "ok"} => disk = made
    /\ args.decompress => Decoded
    /\ ~args.decompress => Encoded

(* A run fails without trouble only on a stream that is cut short, and the *)
(* input goes only at the end.                                             *)
Told ==
    /\ phase \in {"cleanup", "io"} /\ ~trouble => args.decompress /\ size < StreamLen
    /\ ~input => phase = "ok" /\ InPlace /\ ~args.keep

IInv == TypeOK /\ Files /\ Progress /\ Told

-----------------------------------------------------------------------------
(* An encoder that has moved on by k bytes and w tokens of bytes, and one   *)
(* that finish has brought on by w tokens.                                 *)
EncMoved(e, k, w) == [e EXCEPT !.taken = @ + k, !.emitted = @ + w]
EncDrained(e, w, done) == [e EXCEPT !.emitted = @ + w, !.ended = done]

LEMMA MovedEncoder ==
    ASSUME NEW e \in E!EncState, NEW k \in Nat, NEW w \in Nat
    PROVE  /\ EncMoved(e, k, w) \in E!EncState
           /\ EncMoved(e, k, w).taken = e.taken + k
           /\ EncMoved(e, k, w).emitted = e.emitted + w
           /\ EncMoved(e, k, w).ended = e.ended
<1>1. e.taken + k \in Nat /\ e.emitted + w \in Nat
  BY DEF E!EncState
<1>2. EncMoved(e, k, w) \in E!EncState
  BY <1>1, Zenon DEF E!EncState, EncMoved
<1> QED BY <1>2 DEF E!EncState, EncMoved

LEMMA DrainedEncoder ==
    ASSUME NEW e \in E!EncState, NEW w \in Nat, NEW done \in BOOLEAN
    PROVE  /\ EncDrained(e, w, done) \in E!EncState
           /\ EncDrained(e, w, done).taken = e.taken
           /\ EncDrained(e, w, done).emitted = e.emitted + w
           /\ EncDrained(e, w, done).ended = done
<1>1. e.emitted + w \in Nat
  BY DEF E!EncState
<1>2. EncDrained(e, w, done) \in E!EncState
  BY <1>1, Zenon DEF E!EncState, EncDrained
<1>3. EncDrained(e, w, done).emitted = e.emitted + w /\ EncDrained(e, w, done).taken = e.taken
  BY DEF E!EncState, EncDrained
<1>4. EncDrained(e, w, done).ended = done
  BY DEF E!EncState, EncDrained
<1> QED BY <1>2, <1>3, <1>4

(* Its trailer is not out.                                                *)
Running(e) == ~e.ended

LEMMA EncodeMoves ==
    ASSUME NEW e, EncSound(e), Running(e), NEW n \in Nat, NEW cap \in Nat,
           NEW r \in E!EncodeOutcomes(e, n, cap)
    PROVE  /\ EncSound(r.enc) /\ Running(r.enc)
           /\ r.consumed \in 0..n /\ r.enc.taken = e.taken + r.consumed
           /\ Len(r.out) \in Nat /\ r.enc.emitted = e.emitted + Len(r.out)
           /\ r.status = "OutputFull" \/ (r.status = "InputEmpty" /\ r.consumed = n)
<1>1. PICK k \in 0..n, w \in 0..cap :
        /\ e.emitted + w <= e.taken + k
        /\ r = [enc |-> [e EXCEPT !.taken = @ + k, !.emitted = @ + w],
                consumed |-> k, out |-> E!BytesFrom(e.emitted, w),
                status |-> IF k >= n THEN "InputEmpty" ELSE "OutputFull"]
  BY DEF E!EncodeOutcomes
<1>2. e \in E!EncState /\ e.taken \in Nat /\ e.emitted \in Nat
  BY DEF EncSound, E!EncState
<1>3. /\ r.enc \in E!EncState /\ r.enc.taken = e.taken + k /\ r.enc.emitted = e.emitted + w
      /\ r.enc.ended = e.ended
  <2>1. r.enc = EncMoved(e, k, w) /\ k \in Nat /\ w \in Nat
    BY <1>1 DEF EncMoved
  <2>2. r.enc \in E!EncState
    BY <2>1, <1>2, MovedEncoder
  <2>3. r.enc.taken = e.taken + k /\ r.enc.emitted = e.emitted + w
    <3>1. e \in E!EncState
      BY <1>2
    <3>2. /\ EncMoved(e, k, w).taken = e.taken + k
          /\ EncMoved(e, k, w).emitted = e.emitted + w
      BY <2>1, <3>1, MovedEncoder, Zenon
    <3> QED BY <2>1, <3>2, Zenon
  <2>4. r.enc.ended = e.ended
    BY <2>1, <1>2, MovedEncoder
  <2> QED BY <2>2, <2>3, <2>4
<1>4. r.consumed = k /\ r.out = E!BytesFrom(e.emitted, w)
      /\ r.status = IF k >= n THEN "InputEmpty" ELSE "OutputFull"
  BY <1>1
<1>5. Len(r.out) = w /\ w \in Nat
  BY <1>4 DEF E!BytesFrom
<1>6. Running(r.enc)
  BY <1>3 DEF Running
<1>7. EncSound(r.enc)
  BY <1>1, <1>2, <1>3, <1>6 DEF EncSound, Running
<1> QED BY <1>1, <1>3, <1>4, <1>5, <1>6, <1>7

(* What finish makes of an encoder whose trailer is not out: the tokens it  *)
(* owes, then the trailer; short of that it makes headway.                 *)
LEMMA FinishMoves ==
    ASSUME NEW e, EncSound(e), Running(e), NEW r \in E!FinishOutcomes(e, BUF)
    PROVE  /\ EncSound(r.enc) /\ r.enc.taken = e.taken
           /\ Len(r.out) \in Nat
           /\ r.status = "StreamEnd" <=> r.enc.ended
           /\ r.enc.ended => r.enc.emitted + 1 = e.emitted + Len(r.out)
           /\ ~r.enc.ended => r.enc.emitted = e.emitted + Len(r.out) /\ r.out # << >>
<1> DEFINE held == e.taken - e.emitted
           bytes == E!BytesFrom(e.emitted, held)
           owed == bytes \o <<E!EndMark>>
<1>1. /\ e \in E!EncState /\ e.taken \in Nat /\ e.emitted \in Nat /\ held \in Nat
      /\ Atom \in Nat /\ BUF \in Nat /\ 0 < Atom /\ Atom <= BUF
  BY AtomFits, BufferAssumption DEF EncSound, E!EncState
<1>2. owed \in Seq(E!Token) /\ Len(owed) = held + 1
  <2>1. bytes \in Seq(E!Token) /\ Len(bytes) = held
    <3>1. \A i \in 1..held : E!Byte(e.emitted + i) \in E!Token
      BY <1>1 DEF E!Byte, E!Token
    <3> QED BY <1>1, <3>1 DEF E!BytesFrom
  <2>2. E!EndMark \in E!Token
    BY DEF E!EndMark, E!Token
  <2> QED BY <2>1, <2>2
<1>3. PICK v \in 0..BUF :
        /\ v <= Len(owed)
        /\ v = Len(owed) \/ E!OutOfRoom(v, BUF)
        /\ r = [enc |-> [e EXCEPT !.emitted = @ + (IF v = Len(owed) THEN v - 1 ELSE v),
                                 !.ended = (v = Len(owed))],
                out |-> SubSeq(owed, 1, v),
                status |-> IF v = Len(owed) THEN "StreamEnd" ELSE "OutputFull"]
  <2>1. PICK d \in E!Drain(e, E!EndMark, BUF) :
          r = [enc |-> [e EXCEPT !.emitted = @ + d.bytes, !.ended = d.complete],
               out |-> d.out,
               status |-> IF d.complete THEN "StreamEnd" ELSE "OutputFull"]
    BY DEF E!FinishOutcomes, Running
  <2>2. PICK v \in 0..BUF :
          /\ v <= Len(owed)
          /\ v = Len(owed) \/ E!OutOfRoom(v, BUF)
          /\ d = [out |-> SubSeq(owed, 1, v), complete |-> (v = Len(owed)),
                  bytes |-> IF v = Len(owed) THEN v - 1 ELSE v]
    BY DEF E!Drain
  <2>3. d.out = SubSeq(owed, 1, v) /\ d.complete = (v = Len(owed))
        /\ d.bytes = IF v = Len(owed) THEN v - 1 ELSE v
    BY <2>2
  <2> QED BY <2>1, <2>2, <2>3
<1> HIDE DEF owed
<1> DEFINE done == v = Len(owed)
           w == IF done THEN v - 1 ELSE v
<1>4. done \in BOOLEAN /\ w \in Nat /\ v \in Nat /\ e.emitted + w <= e.taken
      /\ (done => e.emitted + w = e.taken /\ w + 1 = v) /\ (~done => w = v)
  BY <1>1, <1>2, <1>3
<1>5. /\ r.enc = EncDrained(e, w, done) /\ r.out = SubSeq(owed, 1, v)
      /\ r.status = IF done THEN "StreamEnd" ELSE "OutputFull"
  BY <1>3 DEF EncDrained
<1>6. Len(r.out) = v
  BY <1>2, <1>3, <1>5
<1>7. ~done => v > 0
  BY <1>1, <1>3 DEF E!OutOfRoom
<1> HIDE DEF done, w
<1>8. r.enc \in E!EncState /\ r.enc.taken = e.taken /\ r.enc.emitted = e.emitted + w
      /\ r.enc.ended = done
  BY <1>1, <1>4, <1>5, DrainedEncoder
<1>9. r.out = << >> => v = 0
  BY <1>6
<1>10. EncSound(r.enc)
  BY <1>1, <1>4, <1>8 DEF EncSound
<1>11. r.status = "StreamEnd" <=> r.enc.ended
  BY <1>4, <1>5, <1>8
<1>12. r.enc.ended => r.enc.emitted + 1 = e.emitted + Len(r.out)
  BY <1>1, <1>4, <1>6, <1>8
<1>13. ~r.enc.ended => r.enc.emitted = e.emitted + Len(r.out) /\ r.out # << >>
  BY <1>1, <1>4, <1>6, <1>7, <1>8, <1>9
<1> QED BY <1>4, <1>6, <1>8, <1>10, <1>11, <1>12, <1>13


-----------------------------------------------------------------------------
(* The steps.                                                              *)

LEMMA InitIInv == Init => IInv
<1> SUFFICES ASSUME Init PROVE IInv
  OBVIOUS
<1>1. size \in Nat
  BY StreamAssumption, BufferAssumption DEF Init
<1>2. TypeOK
  BY <1>1 DEF Init, TypeOK, Phases
<1>3. Files
  BY DEF Init, Files, Begun
<1>4. args.decompress => Decoded
  <2>1. SUFFICES ASSUME args.decompress PROVE Decoded
    OBVIOUS
  <2>2. Sound(codec) /\ codec.taken = 0 /\ codec.emitted = 0 /\ ~codec.ended
    BY <2>1, NewDecoderSound DEF Init
  <2> QED BY <2>2 DEF Init, Decoded, Late
<1>5. ~args.decompress => Encoded
  <2>1. SUFFICES ASSUME ~args.decompress PROVE Encoded
    OBVIOUS
  <2>2. codec = E!NewEncoder
    BY <2>1 DEF Init
  <2>3. codec.taken = 0 /\ codec.emitted = 0 /\ ~codec.ended
    BY <2>2 DEF E!NewEncoder
  <2>4. codec \in E!EncState
    BY <2>2 DEF E!NewEncoder, E!EncState
  <2> QED BY <2>3, <2>4 DEF Init, Encoded, EncSound, Late
<1>6. Progress
  BY <1>1, <1>4, <1>5 DEF Init, Progress
<1>7. Told
  BY DEF Init, Told
<1> QED BY <1>2, <1>3, <1>6, <1>7 DEF IInv

LEMMA OpenInputKeeps == IInv /\ OpenInput => IInv'
<1> SUFFICES ASSUME IInv, OpenInput PROVE IInv'
  OBVIOUS
<1>1. TypeOK'
  BY DEF IInv, TypeOK, OpenInput, Phases, Exits
<1>2. Files'
  BY DEF IInv, Files, OpenInput, Begun
<1>3. Progress'
  BY DEF IInv, Progress, Decoded, Encoded, OpenInput, Late
<1>4. Told'
  BY DEF IInv, Told, OpenInput, InPlace
<1> QED BY <1>1, <1>2, <1>3, <1>4 DEF IInv

LEMMA ResolveKeeps == IInv /\ Resolve => IInv'
<1> SUFFICES ASSUME IInv, Resolve PROVE IInv'
  OBVIOUS
<1>1. TypeOK'
  BY DEF IInv, TypeOK, Resolve, Phases, Begun, Exits
<1>2. Files'
  <2>1. CASE phase' \in {"usage", "io"} /\ ours' = ours
    BY <2>1 DEF IInv, Files, Resolve, Begun
  <2>2. CASE phase' = (IF args.target = "stdout" THEN "lookup" ELSE "create")
             /\ ours' = (args.target # "stdout" /\ ~(args.force /\ output # "absent"))
    <3>1. ours' <=> args.target # "stdout" /\ ~(args.force /\ output # "absent")
      BY <2>2, Zenon
    <3>2. phase' \in Begun => args.target = "stdout"
      BY <2>2 DEF Begun
    <3>3. args' = args /\ existed' = existed /\ output' = output
      BY DEF Resolve
    <3> QED BY <3>1, <3>2, <3>3 DEF IInv, Files
  <2> QED BY <2>1, <2>2, Zenon DEF Resolve
<1>3. Progress'
  BY DEF IInv, Progress, Decoded, Encoded, Resolve, Late
<1>4. Told'
  BY DEF IInv, Told, Resolve, InPlace
<1> QED BY <1>1, <1>2, <1>3, <1>4 DEF IInv

LEMMA CreateKeeps == IInv /\ Create => IInv'
<1> SUFFICES ASSUME IInv, Create PROVE IInv'
  OBVIOUS
<1>1. TypeOK'
  BY DEF IInv, TypeOK, Create, Phases, Begun, Exits
<1>2. Files'
  BY DEF IInv, TypeOK, Files, Create, MayCreate, Begun
<1>3. Progress'
  BY DEF IInv, Progress, Decoded, Encoded, Create, Late
<1>4. Told'
  BY DEF IInv, Told, Create, InPlace
<1> QED BY <1>1, <1>2, <1>3, <1>4 DEF IInv

LEMMA LookupKeeps == IInv /\ Lookup => IInv'
<1> SUFFICES ASSUME IInv, Lookup PROVE IInv'
  OBVIOUS
<1>1. TypeOK'
  BY DEF IInv, TypeOK, Lookup, Phases, Begun, Exits
<1>2. Files'
  BY DEF IInv, TypeOK, Files, Lookup, Begun
<1>3. Progress'
  BY DEF IInv, Progress, Decoded, Encoded, Lookup, Late
<1>4. Told'
  BY DEF IInv, Told, Lookup, InPlace
<1> QED BY <1>1, <1>2, <1>3, <1>4 DEF IInv

LEMMA ReadKeeps == IInv /\ Read => IInv'
<1> SUFFICES ASSUME IInv, Read PROVE IInv'
  OBVIOUS
<1>1. read' <= size' /\ disk' <= made' /\ read' \in Nat /\ chunk' \in Nat
  BY BufferAssumption DEF IInv, TypeOK, Progress, Read, StreamFails
<1>2. TypeOK'
  <2>1. phase' \in Phases /\ trouble' \in BOOLEAN
    BY DEF IInv, TypeOK, Read, StreamFails, Phases, Begun, Exits
  <2> QED BY <1>1, <2>1 DEF IInv, TypeOK, Read
<1>3. Files'
  BY DEF IInv, TypeOK, Files, Read, StreamFails, Begun
<1>4. (args.decompress => Decoded)'
  BY DEF IInv, TypeOK, Progress, Decoded, Sound, DecState, Read, StreamFails, Late
<1>5. (~args.decompress => Encoded)'
  BY DEF IInv, TypeOK, Progress, Encoded, EncSound, E!EncState, Read, StreamFails, Late
<1>6. Progress'
  BY <1>1, <1>4, <1>5 DEF IInv, Progress, Read, StreamFails
<1>7. Told'
  BY DEF IInv, Told, Read, StreamFails, InPlace
<1> QED BY <1>2, <1>3, <1>6, <1>7 DEF IInv

(* What write_all does to the counts.                                      *)
LEMMA Written ==
    ASSUME NEW n \in Nat, made \in Nat, disk \in Nat, disk <= made, Write(n)
    PROVE  made' = made + n /\ made' \in Nat /\ disk' \in Nat /\ disk' <= made'
BY DEF Write

LEMMA EncodeKeeps == IInv /\ Encode => IInv'
<1> SUFFICES ASSUME IInv, Encode PROVE IInv'
  OBVIOUS
<1>1. PICK r \in E!EncodeOutcomes(codec, chunk, BUF) :
        codec' = r.enc /\ Write(Len(r.out)) /\ chunk' = Rest(r.consumed, r.status)
  BY DEF Encode
<1>2. /\ phase = "stream" /\ phase' = phase /\ ~args.decompress
      /\ args' = args /\ size' = size /\ read' = read /\ trouble' = trouble
      /\ input' = input /\ existed' = existed /\ output' = output /\ ours' = ours
  BY DEF Encode
<1>3. /\ EncSound(codec) /\ Running(codec) /\ codec.taken + chunk = read
      /\ made = codec.emitted
  BY <1>2 DEF IInv, Progress, Encoded, Running
<1>4. /\ chunk \in Nat /\ BUF \in Nat /\ read \in Nat /\ codec.taken \in Nat
      /\ codec.emitted \in Nat /\ made \in Nat /\ disk \in Nat /\ disk <= made
  BY <1>3, BufferAssumption DEF IInv, TypeOK, Progress, EncSound, E!EncState
<1>5. /\ EncSound(codec') /\ Running(codec')
      /\ r.consumed \in 0..chunk /\ codec'.taken = codec.taken + r.consumed
      /\ Len(r.out) \in Nat /\ codec'.emitted = codec.emitted + Len(r.out)
      /\ r.status = "OutputFull" \/ (r.status = "InputEmpty" /\ r.consumed = chunk)
  <2>1. /\ EncSound(r.enc) /\ Running(r.enc)
        /\ r.consumed \in 0..chunk /\ r.enc.taken = codec.taken + r.consumed
        /\ Len(r.out) \in Nat /\ r.enc.emitted = codec.emitted + Len(r.out)
        /\ r.status = "OutputFull" \/ (r.status = "InputEmpty" /\ r.consumed = chunk)
    BY <1>3, <1>4, EncodeMoves
  <2> QED BY <1>1, <2>1
<1>6. made' = made + Len(r.out) /\ made' \in Nat /\ disk' \in Nat /\ disk' <= made'
  BY <1>1, <1>4, <1>5, Written
<1>7. chunk' \in Nat /\ codec'.taken + chunk' = read
  BY <1>1, <1>3, <1>4, <1>5 DEF Rest
<1>8. TypeOK'
  BY <1>2, <1>6, <1>7 DEF IInv, TypeOK
<1>9. Files'
  BY <1>2 DEF IInv, Files
<1>10. Encoded'
  BY <1>2, <1>3, <1>4, <1>5, <1>6, <1>7 DEF Encoded, Running, Late
<1>11. Progress'
  BY <1>2, <1>6, <1>10 DEF IInv, Progress
<1>12. Told'
  BY <1>2 DEF IInv, Told, InPlace
<1> QED BY <1>8, <1>9, <1>11, <1>12 DEF IInv

(* The arithmetic of a call of decode, given what the buffer keeps.        *)
LEMMA DecodeKeeps == IInv /\ Decode => IInv'
<1> SUFFICES ASSUME IInv, Decode PROVE IInv'
  OBVIOUS
<1>1. PICK r \in DecodeOutcomes(codec, chunk, BUF) :
        codec' = r.dec /\ Write(Len(r.out)) /\ chunk' = Rest(r.consumed, r.status)
  BY DEF Decode
<1>2. /\ phase = "stream" /\ phase' = phase /\ args.decompress
      /\ args' = args /\ size' = size /\ read' = read /\ trouble' = trouble
      /\ input' = input /\ existed' = existed /\ output' = output /\ ours' = ours
  BY DEF Decode
<1>3. /\ Sound(codec) /\ codec.taken + chunk <= read /\ made = codec.emitted
      /\ ~codec.ended => codec.taken + chunk = read
  BY <1>2 DEF IInv, Progress, Decoded
<1>4. /\ chunk \in Nat /\ BUF \in Nat /\ read \in Nat /\ codec.taken \in Nat
      /\ codec.emitted \in Nat /\ made \in Nat /\ disk \in Nat /\ disk <= made
  BY <1>3, BufferAssumption DEF IInv, TypeOK, Progress, Sound, DecState
<1>5. /\ Sound(codec') /\ r.consumed \in 0..chunk
      /\ codec'.taken = codec.taken + r.consumed
      /\ Len(r.out) \in 0..BUF /\ codec'.emitted = codec.emitted + Len(r.out)
      /\ r.status = "StreamEnd" <=> codec'.ended
      /\ r.status = "InputEmpty" => r.consumed = chunk
      /\ r.status \in Status
      /\ codec.ended => codec' = codec
  <2>1. /\ Sound(r.dec) /\ r.consumed \in 0..chunk
        /\ r.dec.taken = codec.taken + r.consumed
        /\ Len(r.out) \in 0..BUF /\ r.dec.emitted = codec.emitted + Len(r.out)
        /\ r.status = "StreamEnd" <=> r.dec.ended
        /\ r.status = "InputEmpty" => r.consumed = chunk
        /\ r.status \in Status
        /\ codec.ended => r.dec = codec
    BY <1>3, <1>4, DecodeOutcome
  <2> QED BY <1>1, <2>1
<1>6. made' = made + Len(r.out) /\ made' \in Nat /\ disk' \in Nat /\ disk' <= made'
  BY <1>1, <1>4, <1>5, Written
<1>7. /\ chunk' \in Nat /\ codec'.taken + chunk' <= read
      /\ ~codec'.ended => codec'.taken + chunk' = read
  <2>1. chunk' = IF r.status = "OutputFull" THEN chunk - r.consumed ELSE 0
    BY <1>1 DEF Rest
  <2>2. ~codec'.ended => ~codec.ended
    BY <1>5
  <2>3. codec'.ended \/ r.status = "OutputFull" \/ r.consumed = chunk
    BY <1>5 DEF Status
  <2> QED BY <1>3, <1>4, <1>5, <2>1, <2>2, <2>3
<1>8. TypeOK'
  BY <1>2, <1>6, <1>7 DEF IInv, TypeOK
<1>9. Files'
  BY <1>2 DEF IInv, Files
<1>10. Decoded'
  BY <1>2, <1>3, <1>4, <1>5, <1>6, <1>7 DEF Decoded, Late
<1>11. Progress'
  BY <1>2, <1>6, <1>10 DEF IInv, Progress
<1>12. Told'
  BY <1>2 DEF IInv, Told, InPlace
<1> QED BY <1>8, <1>9, <1>11, <1>12 DEF IInv

(* A drain that writes nothing has left a whole stream nothing to give.    *)
LEMMA DrainKeeps == IInv /\ Drain => IInv'
<1> SUFFICES ASSUME IInv, Drain PROVE IInv'
  OBVIOUS
<1>1. PICK r \in DecodeOutcomes(codec, 0, BUF) :
        codec' = r.dec /\ Write(Len(r.out)) /\ phase' = AfterDrain(r)
  BY DEF Drain
<1>2. /\ phase = "drain" /\ chunk' = chunk
      /\ args' = args /\ size' = size /\ read' = read /\ trouble' = trouble
      /\ input' = input /\ existed' = existed /\ output' = output /\ ours' = ours
  BY DEF Drain
<1>3. /\ Sound(codec) /\ codec.taken <= read /\ made = codec.emitted
      /\ ~codec.ended => codec.taken = read
      /\ read = size /\ chunk = 0 /\ args.decompress
  <2>1. args.decompress
    BY <1>2 DEF IInv, Progress, Encoded
  <2>2. Decoded /\ chunk \in Nat
    BY <2>1 DEF IInv, Progress, TypeOK
  <2>3. Sound(codec) /\ made = codec.emitted /\ read = size /\ chunk = 0
    BY <1>2, <2>2 DEF Decoded
  <2>4. codec.taken \in Nat
    BY <2>3 DEF Sound, DecState
  <2>5. codec.taken <= read /\ (~codec.ended => codec.taken = read)
    BY <2>2, <2>3, <2>4 DEF Decoded
  <2> QED BY <2>1, <2>3, <2>5
<1>4. /\ BUF \in Nat /\ BUF > 0 /\ size \in Nat /\ codec.taken \in Nat
      /\ codec.emitted \in Nat /\ made \in Nat /\ disk \in Nat /\ disk <= made
      /\ StreamLen \in Nat
  BY <1>3, BufferAssumption, StreamAssumption DEF IInv, TypeOK, Progress, Sound, DecState
<1>5. /\ Sound(codec') /\ codec'.taken = codec.taken
      /\ Len(r.out) \in Nat /\ codec'.emitted = codec.emitted + Len(r.out)
      /\ codec.ended => codec'.ended
      /\ ~codec.ended /\ r.out = << >> /\ codec'.taken >= StreamLen
           => Expansion(codec'.taken) = codec'.emitted
  <2>1. /\ Sound(r.dec) /\ r.consumed \in 0..0
        /\ r.dec.taken = codec.taken + r.consumed
        /\ Len(r.out) \in 0..BUF /\ r.dec.emitted = codec.emitted + Len(r.out)
        /\ codec.ended => r.dec = codec
        /\ ~codec.ended => \/ Expansion(r.dec.taken) = r.dec.emitted \/ Len(r.out) = BUF
                           \/ ~codec.eager /\ r.dec.taken < StreamLen
    BY <1>3, <1>4, DecodeOutcome
  <2>2. r.out = << >> => Len(r.out) = 0
    OBVIOUS
  <2>3. Sound(r.dec) /\ r.dec.taken = codec.taken /\ Len(r.out) \in Nat
        /\ r.dec.emitted = codec.emitted + Len(r.out)
    BY <2>1, <1>4
  <2>4. codec.ended => r.dec.ended
    BY <2>1
  <2>5. ~codec.ended /\ r.out = << >> /\ r.dec.taken >= StreamLen
          => Expansion(r.dec.taken) = r.dec.emitted
    BY <2>1, <2>2, <2>3, <1>4
  <2> QED BY <1>1, <2>3, <2>4, <2>5
<1>6. made' = made + Len(r.out) /\ made' \in Nat /\ disk' \in Nat /\ disk' <= made'
  BY <1>1, <1>4, <1>5, Written
<1>7. phase' \in {"finish", "drain"} /\ (phase' = "finish" => r.out = << >>)
  BY <1>1 DEF AfterDrain
<1>8. phase' = "finish" /\ StreamLen <= size => codec'.ended
  <2> SUFFICES ASSUME phase' = "finish", StreamLen <= size, ~codec'.ended PROVE FALSE
    OBVIOUS
  <2>1. ~codec.ended /\ r.out = << >>
    BY <1>5, <1>7
  <2>2. codec'.taken = StreamLen
    BY <1>3, <1>4, <1>5, <2>1 DEF Sound
  <2>3. Expansion(codec'.taken) = codec'.emitted
    BY <1>4, <1>5, <2>1, <2>2
  <2> QED BY <1>5, <2>2, <2>3 DEF Sound, Complete
<1>9. TypeOK'
  BY <1>2, <1>6, <1>7 DEF IInv, TypeOK, Phases, Begun
<1>10. Files'
  BY <1>2, <1>7 DEF IInv, Files, Begun
<1>11. Decoded'
  <2>1. ~codec'.ended => ~codec.ended
    BY <1>5
  <2>2. codec'.taken + chunk' <= read' /\ (~codec'.ended => codec'.taken + chunk' = read')
    BY <1>2, <1>3, <1>4, <1>5, <2>1
  <2>3. made' = codec'.emitted /\ read' = size' /\ chunk' = 0
    BY <1>2, <1>3, <1>5, <1>6
  <2> QED BY <1>2, <1>5, <1>7, <1>8, <2>2, <2>3 DEF Decoded, Late
<1>12. Progress'
  BY <1>2, <1>3, <1>6, <1>7, <1>11 DEF IInv, Progress
<1>13. Told'
  BY <1>2, <1>7 DEF IInv, Told, InPlace
<1> QED BY <1>9, <1>10, <1>12, <1>13 DEF IInv

(* A buffer holds a whole step of any encoder: finish never stalls.        *)
LEMMA FinishEncoderKeeps == IInv /\ FinishEncoder => IInv'
<1> SUFFICES ASSUME IInv, FinishEncoder PROVE IInv'
  OBVIOUS
<1>1. PICK r \in E!FinishOutcomes(codec, BUF) :
        codec' = r.enc /\ Write(Len(r.out)) /\ phase' = AfterFinish(r)
  BY DEF FinishEncoder
<1>2. /\ phase = "finish" /\ ~args.decompress /\ chunk' = chunk
      /\ args' = args /\ size' = size /\ read' = read /\ trouble' = trouble
      /\ input' = input /\ existed' = existed /\ output' = output /\ ours' = ours
  BY DEF FinishEncoder
<1>3. /\ EncSound(codec) /\ Running(codec) /\ codec.taken + chunk = read
      /\ made = codec.emitted /\ read = size /\ chunk = 0
  BY <1>2 DEF IInv, Progress, Encoded, Running
<1>4. /\ read \in Nat /\ codec.taken \in Nat
      /\ codec.emitted \in Nat /\ made \in Nat /\ disk \in Nat /\ disk <= made
  BY <1>3 DEF IInv, TypeOK, Progress, EncSound, E!EncState
<1>5. /\ EncSound(codec') /\ codec'.taken = codec.taken
      /\ Len(r.out) \in Nat
      /\ r.status = "StreamEnd" <=> codec'.ended
      /\ codec'.ended => codec'.emitted + 1 = codec.emitted + Len(r.out)
      /\ ~codec'.ended => codec'.emitted = codec.emitted + Len(r.out) /\ r.out # << >>
  <2>1. /\ EncSound(r.enc) /\ r.enc.taken = codec.taken
        /\ Len(r.out) \in Nat
        /\ r.status = "StreamEnd" <=> r.enc.ended
        /\ r.enc.ended => r.enc.emitted + 1 = codec.emitted + Len(r.out)
        /\ ~r.enc.ended => r.enc.emitted = codec.emitted + Len(r.out) /\ r.out # << >>
    BY <1>3, FinishMoves
  <2> QED BY <1>1, <2>1
<1>6. made' = made + Len(r.out) /\ made' \in Nat /\ disk' \in Nat /\ disk' <= made'
  BY <1>1, <1>4, <1>5, Written
<1>7. phase' = IF codec'.ended THEN "flush" ELSE "finish"
  BY <1>1, <1>5 DEF AfterFinish, AfterStream
<1>8. phase' \in {"flush", "finish"} /\ (phase' = "flush" <=> codec'.ended)
  BY <1>7
<1>9. TypeOK'
  BY <1>2, <1>6, <1>8 DEF IInv, TypeOK, Phases, Begun
<1>10. Files'
  BY <1>2, <1>8 DEF IInv, Files, Begun
<1>11. Encoded'
  <2>1. ~codec'.ended => made' = codec'.emitted
    BY <1>3, <1>5, <1>6
  <2>2. codec'.ended => made' = codec'.emitted + 1
    BY <1>3, <1>5, <1>6
  <2>3. codec'.taken + chunk' = read' /\ read' = size' /\ chunk' = 0
    BY <1>2, <1>3, <1>5
  <2> QED BY <1>5, <1>8, <2>1, <2>2, <2>3 DEF Encoded, Late
<1>12. Progress'
  BY <1>2, <1>6, <1>8, <1>11 DEF IInv, Progress
<1>13. Told'
  BY <1>2, <1>8 DEF IInv, Told, InPlace
<1> QED BY <1>9, <1>10, <1>12, <1>13 DEF IInv

(* A decoder of a whole stream has ended before finish is called, so that  *)
(* a finish that fails or stalls means the stream was cut short.           *)
LEMMA FinishDecoderKeeps == IInv /\ FinishDecoder => IInv'
<1> SUFFICES ASSUME IInv, FinishDecoder PROVE IInv'
  OBVIOUS
<1>1. PICK r \in FinishOutcomes(codec, BUF) :
        /\ codec' = r.dec
        /\ IF r.ok \/ ~r.dec.strict
           THEN Write(Len(r.out)) /\ phase' = AfterFinish(r)
           ELSE UNCHANGED <<made, disk>> /\ phase' = "cleanup"
  BY DEF FinishDecoder
<1>2. /\ phase = "finish" /\ args.decompress /\ chunk' = chunk
      /\ args' = args /\ size' = size /\ read' = read /\ trouble' = trouble
      /\ input' = input /\ existed' = existed /\ output' = output /\ ours' = ours
  BY DEF FinishDecoder
<1>3. /\ Sound(codec) /\ codec.taken + chunk <= read /\ made = codec.emitted
      /\ ~codec.ended => codec.taken + chunk = read
      /\ read = size /\ chunk = 0
      /\ StreamLen <= size => codec.ended
  BY <1>2 DEF IInv, Progress, Decoded
<1>4. /\ BUF \in Nat /\ read \in Nat /\ codec.taken \in Nat
      /\ codec.emitted \in Nat /\ made \in Nat /\ disk \in Nat /\ disk <= made
  BY <1>3, BufferAssumption DEF IInv, TypeOK, Progress, Sound, DecState
<1>5. /\ Sound(codec') /\ codec'.taken = codec.taken
      /\ Len(r.out) \in Nat /\ codec'.emitted = codec.emitted + Len(r.out)
      /\ r.status = "StreamEnd" <=> codec'.ended
      /\ codec'.ended => r.ok
      /\ codec.ended => codec'.ended
  <2>1. /\ Sound(r.dec) /\ r.dec.taken = codec.taken
        /\ Len(r.out) \in 0..BUF /\ r.dec.emitted = codec.emitted + Len(r.out)
        /\ r.status = "StreamEnd" <=> r.dec.ended
        /\ r.ok <=> (r.dec.ended \/ (r.out # << >> /\ ~codec.strict))
        /\ codec.ended => r.dec = codec /\ r.out = << >>
    BY <1>3, <1>4, FinishOutcome
  <2> QED BY <1>1, <2>1
<1>6. CASE Write(Len(r.out)) /\ phase' = AfterFinish(r)
  <2>1. made' = made + Len(r.out) /\ made' \in Nat /\ disk' \in Nat /\ disk' <= made'
    BY <1>6, <1>4, <1>5, Written
  <2>2. phase' \in {"flush", "cleanup", "finish"} /\ (phase' = "flush" <=> codec'.ended)
    BY <1>5, <1>6 DEF AfterFinish, AfterStream, AfterStall
  <2>3. TypeOK'
    BY <1>2, <2>1, <2>2 DEF IInv, TypeOK, Phases, Begun
  <2>4. Files'
    BY <1>2, <2>2 DEF IInv, Files, Begun
  <2>5. Decoded'
    <3>1. made' = codec'.emitted /\ read' = size' /\ chunk' = 0
      BY <1>2, <1>3, <1>5, <2>1
    <3>2. codec'.taken + chunk' <= read' /\ (~codec'.ended => codec'.taken + chunk' = read')
      BY <1>2, <1>3, <1>5
    <3>3. StreamLen <= size' => codec'.ended
      BY <1>2, <1>3, <1>5
    <3> QED BY <1>5, <2>2, <3>1, <3>2, <3>3 DEF Decoded, Late
  <2>6. Progress'
    BY <1>2, <2>1, <2>2, <2>5 DEF IInv, Progress
  <2>7. Told'
    <3>1. phase' = "cleanup" => ~(StreamLen <= size)
      BY <1>3, <1>5, <2>2
    <3>2. size < StreamLen \/ StreamLen <= size
      BY StreamAssumption DEF IInv, TypeOK
    <3>3. input
      BY <1>2 DEF IInv, Told
    <3> QED BY <1>2, <2>2, <3>1, <3>2, <3>3 DEF Told, InPlace
  <2> QED BY <2>3, <2>4, <2>6, <2>7 DEF IInv
<1>7. CASE UNCHANGED <<made, disk>> /\ phase' = "cleanup" /\ ~r.ok
  <2>1. ~codec'.ended /\ ~codec.ended
    BY <1>5, <1>7
  <2>2. TypeOK'
    BY <1>2, <1>7 DEF IInv, TypeOK, Phases, Begun
  <2>3. Files'
    BY <1>2, <1>7 DEF IInv, Files, Begun
  <2>4. Decoded'
    <3>1. codec'.taken + chunk' = read'
      BY <1>2, <1>3, <1>5, <2>1
    <3> QED BY <1>4, <1>5, <1>2, <1>7, <2>1, <3>1 DEF Decoded, Late
  <2>5. Progress'
    BY <1>2, <1>4, <1>7, <2>4 DEF IInv, Progress
  <2>6. Told'
    <3>1. ~(StreamLen <= size)
      BY <1>3, <2>1
    <3>2. size < StreamLen
      BY <3>1, StreamAssumption DEF IInv, TypeOK
    <3>3. input
      BY <1>2 DEF IInv, Told
    <3> QED BY <1>2, <1>7, <3>2, <3>3 DEF Told, InPlace
  <2> QED BY <2>2, <2>3, <2>5, <2>6 DEF IInv
<1> QED BY <1>1, <1>6, <1>7, Zenon

LEMMA StreamErrorKeeps == IInv /\ StreamError => IInv'
<1> SUFFICES ASSUME IInv, StreamError PROVE IInv'
  OBVIOUS
<1>1. /\ phase' = "cleanup" /\ trouble' = TRUE /\ disk' \in disk..made
      /\ phase \in {"stream", "drain", "finish"}
      /\ UNCHANGED <<args, size, input, existed, output, ours, chunk, read, codec, made>>
  BY DEF StreamError, StreamFails
<1>2. disk' \in Nat /\ disk' <= made'
  BY <1>1 DEF IInv, TypeOK
<1>3. TypeOK'
  BY <1>1, <1>2 DEF IInv, TypeOK, Phases, Begun
<1>4. Files'
  BY <1>1 DEF IInv, Files, Begun
<1>5. (args.decompress => Decoded)'
  BY <1>1 DEF IInv, Progress, Decoded, Late
<1>6. (~args.decompress => Encoded)'
  BY <1>1 DEF IInv, Progress, Encoded, Late
<1>7. Progress'
  BY <1>1, <1>2, <1>5, <1>6 DEF IInv, Progress
<1>8. Told'
  BY <1>1 DEF IInv, Told, InPlace
<1> QED BY <1>3, <1>4, <1>7, <1>8 DEF IInv

LEMMA CleanupKeeps == IInv /\ Cleanup => IInv'
<1> SUFFICES ASSUME IInv, Cleanup PROVE IInv'
  OBVIOUS
<1>1. /\ phase = "cleanup" /\ phase' = "io" /\ disk' \in disk..made
      /\ (ours /\ output' = "absent") \/ output' = output
      /\ UNCHANGED <<args, size, input, existed, ours, chunk, read, codec, made, trouble>>
  BY DEF Cleanup, Removable
<1>2. disk' \in Nat /\ disk' <= made'
  BY <1>1 DEF IInv, TypeOK
<1>3. TypeOK'
  BY <1>1, <1>2 DEF IInv, TypeOK, Phases, Begun, Exits
<1>4. Files'
  BY <1>1 DEF IInv, Files, Begun
<1>5. (args.decompress => Decoded)'
  BY <1>1 DEF IInv, Progress, Decoded, Late
<1>6. (~args.decompress => Encoded)'
  BY <1>1 DEF IInv, Progress, Encoded, Late
<1>7. Progress'
  BY <1>1, <1>2, <1>5, <1>6 DEF IInv, Progress
<1>8. Told'
  BY <1>1 DEF IInv, Told, InPlace
<1> QED BY <1>3, <1>4, <1>7, <1>8 DEF IInv

LEMMA FlushKeeps == IInv /\ Flush => IInv'
<1> SUFFICES ASSUME IInv, Flush PROVE IInv'
  OBVIOUS
<1>1. /\ phase = "flush"
      /\ \/ disk' = made /\ phase' = "remove" /\ UNCHANGED trouble
         \/ disk' \in disk..made /\ phase' = "io" /\ trouble' = TRUE
      /\ UNCHANGED <<args, size, input, existed, output, ours, chunk, read, codec, made>>
  BY DEF Flush
<1>2. disk' \in Nat /\ disk' <= made' /\ (phase' = "remove" => disk' = made')
  BY <1>1 DEF IInv, TypeOK
<1>3. TypeOK'
  BY <1>1, <1>2 DEF IInv, TypeOK, Phases, Begun, Exits
<1>4. Files'
  BY <1>1 DEF IInv, Files, Begun
<1>5. (args.decompress => Decoded)'
  BY <1>1 DEF IInv, Progress, Decoded, Late
<1>6. (~args.decompress => Encoded)'
  BY <1>1 DEF IInv, Progress, Encoded, Late
<1>7. Progress'
  BY <1>1, <1>2, <1>5, <1>6 DEF IInv, Progress
<1>8. Told'
  BY <1>1 DEF IInv, Told, InPlace
<1> QED BY <1>3, <1>4, <1>7, <1>8 DEF IInv

LEMMA RemoveInputKeeps == IInv /\ RemoveInput => IInv'
<1> SUFFICES ASSUME IInv, RemoveInput PROVE IInv'
  OBVIOUS
<1>1. /\ phase = "remove" /\ phase' \in {"ok", "io"}
      /\ phase' = "io" => trouble' = TRUE /\ input' = input
      /\ phase' = "ok" => trouble' = trouble
                          /\ (input' = input \/ (input' = FALSE /\ InPlace /\ ~args.keep))
      /\ UNCHANGED <<args, size, existed, output, ours, chunk, read, codec, made, disk>>
  BY DEF RemoveInput
<1>2. input
  BY <1>1 DEF IInv, Told
<1>3. TypeOK'
  BY <1>1 DEF IInv, TypeOK, Phases, Begun, Exits
<1>4. Files'
  BY <1>1 DEF IInv, Files, Begun
<1>5. (args.decompress => Decoded)'
  BY <1>1 DEF IInv, Progress, Decoded, Late
<1>6. (~args.decompress => Encoded)'
  BY <1>1 DEF IInv, Progress, Encoded, Late
<1>7. Progress'
  BY <1>1, <1>5, <1>6 DEF IInv, Progress
<1>8. Told'
  BY <1>1, <1>2 DEF IInv, Told, InPlace
<1> QED BY <1>3, <1>4, <1>7, <1>8 DEF IInv

LEMMA KilledKeeps == IInv /\ Killed => IInv'
<1> SUFFICES ASSUME IInv, Killed PROVE IInv'
  OBVIOUS
<1>1. /\ phase \notin Exits /\ phase' = "killed"
      /\ UNCHANGED <<args, size, input, existed, output, ours, chunk, read, codec, made, disk, trouble>>
  BY DEF Killed
<1>2. input
  BY <1>1 DEF IInv, Told, Exits
<1>3. TypeOK'
  BY <1>1 DEF IInv, TypeOK, Phases, Exits
<1>4. Files'
  BY <1>1 DEF IInv, Files, Begun
<1>5. (args.decompress => Decoded)'
  BY <1>1 DEF IInv, Progress, Decoded, Late
<1>6. (~args.decompress => Encoded)'
  BY <1>1 DEF IInv, Progress, Encoded, Late
<1>7. Progress'
  BY <1>1, <1>5, <1>6 DEF IInv, Progress
<1>8. Told'
  BY <1>1, <1>2 DEF IInv, Told, InPlace
<1> QED BY <1>3, <1>4, <1>7, <1>8 DEF IInv

(* The file that appears is not this run's, nor one of before it.          *)
LEMMA SomebodyCreatesKeeps == IInv /\ SomebodyCreates => IInv'
<1> SUFFICES ASSUME IInv, SomebodyCreates PROVE IInv'
  OBVIOUS
<1>1. /\ phase \in {"open", "resolve", "create"} /\ output = "absent" /\ output' = "old"
      /\ UNCHANGED <<args, size, input, existed, ours, phase, chunk, read, codec, made, disk, trouble>>
  BY DEF SomebodyCreates
<1>2. TypeOK'
  BY <1>1 DEF IInv, TypeOK
<1>3. Files'
  BY <1>1 DEF IInv, Files, Begun
<1>4. (args.decompress => Decoded)'
  BY <1>1 DEF IInv, Progress, Decoded, Late
<1>5. (~args.decompress => Encoded)'
  BY <1>1 DEF IInv, Progress, Encoded, Late
<1>6. Progress'
  BY <1>1, <1>4, <1>5 DEF IInv, Progress
<1>7. Told'
  BY <1>1 DEF IInv, Told, InPlace
<1> QED BY <1>2, <1>3, <1>6, <1>7 DEF IInv

LEMMA NextKeepsIInv == IInv /\ [Next]_vars => IInv'
<1> SUFFICES ASSUME IInv, [Next]_vars PROVE IInv'
  OBVIOUS
<1>1. CASE UNCHANGED vars
  <2>1. UNCHANGED <<args, size, input, existed, output, ours, phase, chunk, read, codec, made, disk, trouble>>
    BY <1>1 DEF vars
  <2>2. TypeOK'
    BY <2>1 DEF IInv, TypeOK
  <2>3. Files'
    BY <2>1 DEF IInv, Files
  <2>4. (args.decompress => Decoded)' /\ (~args.decompress => Encoded)'
    BY <2>1 DEF IInv, Progress, Decoded, Encoded
  <2>5. Progress'
    BY <2>1, <2>4 DEF IInv, Progress
  <2>6. Told'
    BY <2>1 DEF IInv, Told, InPlace
  <2> QED BY <2>2, <2>3, <2>5, <2>6 DEF IInv
<1>2. CASE OpenInput \/ Resolve \/ Create \/ Lookup
  BY <1>2, OpenInputKeeps, ResolveKeeps, CreateKeeps, LookupKeeps
<1>3. CASE Read \/ Encode \/ Decode \/ Drain \/ FinishEncoder \/ FinishDecoder \/ StreamError
  BY <1>3, ReadKeeps, EncodeKeeps, DecodeKeeps, DrainKeeps, FinishEncoderKeeps,
     FinishDecoderKeeps, StreamErrorKeeps
<1>4. CASE Cleanup \/ Flush \/ RemoveInput \/ Killed \/ SomebodyCreates
  BY <1>4, CleanupKeeps, FlushKeeps, RemoveInputKeeps, KilledKeeps, SomebodyCreatesKeeps
<1> QED BY <1>1, <1>2, <1>3, <1>4 DEF Next

-----------------------------------------------------------------------------
(* The theorems.                                                           *)

(* The invariant the others follow from: where each byte read or made is,  *)
(* whose the output file is, and what a failure without trouble means.     *)
THEOREM Invariance == Spec => []IInv
<1> QED BY InitIInv, NextKeepsIInv, PTL DEF Spec

(* At the end of the stream all there is has been made.                    *)
LEMMA LateMade == IInv /\ phase \in Late => made = WholeOutput /\ (args.decompress => size >= StreamLen)
<1> SUFFICES ASSUME IInv, phase \in Late
             PROVE  made = WholeOutput /\ (args.decompress => size >= StreamLen)
  OBVIOUS
<1>1. CASE args.decompress
  <2>1. Sound(codec) /\ codec.ended /\ made = codec.emitted
        /\ codec.taken + chunk <= read /\ read = size /\ chunk = 0
    BY <1>1 DEF IInv, Progress, Decoded, Late
  <2>2. codec.taken = StreamLen /\ codec.emitted = Expansion(StreamLen)
    BY <2>1 DEF Sound, Complete
  <2> QED BY <1>1, <2>1, <2>2, StreamAssumption DEF IInv, TypeOK, WholeOutput
<1>2. CASE ~args.decompress
  <2>1. EncSound(codec) /\ codec.ended /\ made = codec.emitted + 1
        /\ codec.taken + chunk = read /\ read = size /\ chunk = 0
    BY <1>2 DEF IInv, Progress, Encoded, Late
  <2> QED BY <1>2, <2>1 DEF IInv, TypeOK, EncSound, E!EncState, WholeOutput
<1> QED BY <1>1, <1>2

(* The input file goes only in in-place mode, after the whole output is in *)
(* its file: whatever fails and whenever the process is killed, the data   *)
(* is in one of the two.                                                   *)
THEOREM InputIsSafe == Spec => []InputSafe
<1>1. IInv => InputSafe
  <2> SUFFICES ASSUME IInv, ~input PROVE InputSafe
    BY DEF InputSafe
  <2>1. phase = "ok" /\ InPlace /\ ~args.keep
    BY DEF IInv, Told
  <2>2. output \in {"new", "truncated"}
    BY <2>1 DEF IInv, Files, Begun, InPlace
  <2>3. disk = WholeOutput
    BY <2>1, LateMade DEF IInv, Progress, Late
  <2> QED BY <2>1, <2>2, <2>3 DEF InputSafe
<1> QED BY <1>1, Invariance, PTL

(* The exit status tells the truth about the output, and a run that met no *)
(* I/O or codec error fails only on a stream that is cut short.            *)
THEOREM ExitIsTrue == Spec => []ExitTellsTruth
<1>1. IInv => ExitTellsTruth
  <2> SUFFICES ASSUME IInv PROVE ExitTellsTruth
    OBVIOUS
  <2>1. phase = "ok" => disk = WholeOutput /\ (args.decompress => size >= StreamLen)
    BY LateMade DEF IInv, Progress, Late
  <2>2. phase = "io" /\ ~trouble => args.decompress /\ size < StreamLen
    BY DEF IInv, Told
  <2> QED BY <2>1, <2>2 DEF ExitTellsTruth
<1> QED BY <1>1, Invariance, PTL

(* A file that was there before the run is never removed, and without      *)
(* --force one that is there is not touched, whenever it appeared.         *)
THEOREM OldOutputIsKept == Spec => OldOutputKept
<1>1. IInv /\ [Next]_vars => [ /\ existed => output' # "absent"
                               /\ output = "old" /\ ~args.force => output' = "old" ]_vars
  <2> SUFFICES ASSUME IInv, Next
               PROVE  /\ existed => output' # "absent"
                      /\ output = "old" /\ ~args.force => output' = "old"
    OBVIOUS
  <2>1. existed' = existed /\ Files'
    <3>1. existed' = existed
      BY DEF Next, OpenInput, Resolve, Create, Lookup, Read, Encode, Decode, Drain,
             FinishEncoder, FinishDecoder, StreamError, Cleanup, Flush, RemoveInput,
             Killed, SomebodyCreates
    <3> QED BY <3>1, NextKeepsIInv DEF IInv
  <2>2. existed => output' # "absent"
    BY <2>1 DEF Files
  <2>3. ASSUME output = "old", ~args.force PROVE output' = "old"
    <3>1. CASE Create
      BY <2>3, <3>1 DEF Create, MayCreate
    <3>2. CASE Cleanup
      BY <2>3, <3>2 DEF Cleanup, Removable, IInv, Files, Begun
    <3>3. CASE SomebodyCreates
      BY <3>3 DEF SomebodyCreates
    <3>4. CASE ~Create /\ ~Cleanup /\ ~SomebodyCreates
      BY <2>3, <3>4 DEF Next, OpenInput, Resolve, Lookup, Read, Encode, Decode, Drain,
                        FinishEncoder, FinishDecoder, StreamError, Flush, RemoveInput, Killed
    <3> QED BY <3>1, <3>2, <3>3, <3>4
  <2> QED BY <2>2, <2>3
<1> QED BY <1>1, Invariance, PTL DEF Spec, OldOutputKept
=============================================================================
